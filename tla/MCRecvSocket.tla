------------------------------ MODULE MCRecvSocket -----------------------------
EXTENDS RecvSocket

\* Nothing behind local_buf, the canary's NUL; or a few bytes of other locals.
CleanStack == {<< >>}
AnyStack == {<< >>, <<-1, -2, -3>>}
===============================================================================

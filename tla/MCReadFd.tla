------------------------------- MODULE MCReadFd -------------------------------
EXTENDS ReadFd

\* Nothing behind local_buf, the canary's NUL; or a few bytes of other locals.
CleanStack == {<< >>}
AnyStack == {<< >>, <<-1, -2, -3>>}
===============================================================================

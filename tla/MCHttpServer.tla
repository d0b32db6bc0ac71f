----------------------------- MODULE MCHttpServer -----------------------------
(* Two connections at most, sockets named 1 and 2, a file of up to 2 units.    *)
EXTENDS HttpServer

MCFd == 1..2
==============================================================================

-------------------------- MODULE MCSocketChannel --------------------------
(***************************************************************************)
(* SocketChannel with two processes, few sockets and descriptors.          *)
(***************************************************************************)
EXTENDS SocketChannel
=============================================================================

--------------------------- MODULE MCNettyServer ----------------------------
(* NettyServer for TLC.                                                    *)
EXTENDS NettyServer
=============================================================================

--------------------------- MODULE MCRuntimeProxy ---------------------------
(* Two operations, one served natively and one over HTTP, and two or three  *)
(* concurrent calls: enough for calls admitted before a breaker opens to    *)
(* fail or to succeed after it has opened.                                  *)
EXTENDS RuntimeProxy
=============================================================================

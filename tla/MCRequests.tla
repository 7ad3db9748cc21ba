------------------------------ MODULE MCRequests ------------------------------
(* TLC instance of Requests for the error path: one request, with its two flows. *)
EXTENDS Requests

CONSTANT r1
OneRequest == {r1}
=============================================================================

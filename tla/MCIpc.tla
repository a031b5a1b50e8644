------------------------------- MODULE MCIpc -------------------------------
(***************************************************************************)
(* Clients on a secure and on another link, which wait for each response,  *)
(* or which also send requests without response, requests that stop SBL-S3 *)
(* and stray headers.                                                      *)
(***************************************************************************)
EXTENDS Ipc

LinksMC == {"fifo4", "fifo0"}
UsagesMC ==
  {{"ask", "void"}, {"ask", "tell", "stray"}, {"void", "tell", "fatal", "misfit"}}
SlotsMC == {1, 2}
=============================================================================

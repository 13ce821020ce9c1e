---------------------------- MODULE MCIsoTpFrame ----------------------------
(***************************************************************************)
(* Two requests, a long one in several frames and a short one in one, and  *)
(* their answers.  With RxCapacity = 3 an ok fits the receive buffer, and  *)
(* a dtc of four frames is one frame too long for it.                      *)
(***************************************************************************)
EXTENDS IsoTpFrame, TLC

CONSTANTS long, short, dtc, ok, nak, RequestSizes, AnswerSize

MCRequests == {long, short}
MCAnswer == long :> {ok} @@ short :> {dtc, nak}
MCChunks == long :> RequestSizes @@ short :> 1 @@ ok :> 3 @@ nak :> 1 @@ dtc :> AnswerSize

=============================================================================

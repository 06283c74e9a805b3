---------------------------- MODULE MCNotifyCenter ----------------------------
(* Instances of NotifyCenter: two single subscribers and a multi-subscriber. *)
EXTENDS NotifyCenter, TLC

CONSTANTS fa, fb, sa, s1, s2, s3

TwoFast == s1 :> <<fa>> @@ s2 :> <<fa, sa, fb>> @@ s3 :> <<sa>>
=============================================================================

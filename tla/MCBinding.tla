------------------------------ MODULE MCBinding ------------------------------
(* Instances of DeviceBinding for TLC.                                     *)
EXTENDS DeviceBinding, TLC

(* Two endpoints with one cluster: more reports on the one than two frames *)
(* take, and the first of them on the other, where the second one has      *)
(* another manufacturer code.                                              *)
MCReporting == ("u" :> <<0, 0, 0>>) @@ ("v" :> <<0>>) @@ ("g" :> <<>>)
MCDdfs == {<<"u", "g">>, <<>>}
=============================================================================

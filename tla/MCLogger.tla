------------------------------- MODULE MCLogger -------------------------------
(* Two threads; two consoles with different thresholds and a callback.        *)
EXTENDS Logger, TLC

CONSTANTS s1, s2, s3

ThreeLevels == s1 :> 0 @@ s2 :> 1 @@ s3 :> 0
=============================================================================

---------------------------- MODULE MCExchange ----------------------------
(* Two callbacks, and a code of each kind of provider. *)
EXTENDS Exchange, TLC

CONSTANTS k1, k2, k3, k4

MCProvider == (k1 :> "github") @@ (k2 :> "stackoverflow") @@ (k3 :> "google") @@ (k4 :> "yandex")
===========================================================================

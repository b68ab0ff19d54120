------------------------------ MODULE MCWallet ------------------------------
(* Finite instances of Wallet for TLC.                                     *)
EXTENDS Wallet, TLC

CONSTANTS alice, s1, s2

MCUsers == {alice}
MCSessions == {s1, s2}

MCCosts == {1, 2}
MCTopUps == {0, 1}
MCMinInt == -4
=============================================================================

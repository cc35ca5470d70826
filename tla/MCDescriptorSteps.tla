-------------------------- MODULE MCDescriptorSteps --------------------------
(***************************************************************************)
(* An instance of DescriptorSteps for TLC on testnet: two descriptors with *)
(* test xpubs (so the user can import one, go back and import the other)   *)
(* and one with mainnet xpubs, which the import step must refuse; one     *)
(* device, which two registration requests may race on.                   *)
(***************************************************************************)
EXTENDS DescriptorSteps

CONSTANTS d1, d2, dMain, f1

MCXpubNetwork == [d \in Descriptors |-> IF d = dMain THEN "Bitcoin" ELSE "Testnet"]
MCDevices == <<f1>>

=============================================================================

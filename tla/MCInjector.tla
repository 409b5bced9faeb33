----------------------------- MODULE MCInjector -----------------------------
(* A tick of the demonstration sender, and nothing else on the link.         *)
EXTENDS Downlink

Nothing == {}
=============================================================================

----------------------------- MODULE MCTracedRun -----------------------------
(***************************************************************************)
(* Instances of TracedRun for TLC: a sender, a fee payer, two contracts    *)
(* and an empty account.                                                   *)
(***************************************************************************)
EXTENDS TracedRun

Account0(balance, codeSize) ==
  [NoAccount EXCEPT !.balance = balance, !.codeSize = codeSize, !.codeHash = codeSize]

\* The sender can pay fee and value, and no more; the slots are empty or full.
MCParents ==
  {[a \in Addrs |->
      CASE a = "sender"   -> Account0(4, 0)
        [] a = "payer"    -> Account0(4, 0)
        [] a = "contract" -> [Account0(1, 1) EXCEPT !.storage["s"] = word]
        [] a = "other"    -> Account0(0, 1)
        [] OTHER          -> Account0(0, 0)] : word \in {0, 1}}

Msg(feePayer, ratio, to, value, create) ==
  [sender |-> "sender", feePayer |-> feePayer, ratio |-> ratio, gas |-> 3,
   gasPrice |-> 1, to |-> to, value |-> value, create |-> create]

\* The fee payer is the sender or not, alone or for a share, or the recipient;
\* the recipient is a contract, a new one, or the sender.
MCMessages ==
  {Msg("sender", 0, "contract", 1, FALSE), Msg("payer", 0, "contract", 0, FALSE),
   Msg("payer", 40, "contract", 0, FALSE), Msg("payer", 40, "payer", 1, FALSE),
   Msg("sender", 0, "sender", 1, FALSE), Msg("sender", 0, "new", 1, TRUE)}

\* One that calls a contract with value.
CallMessages == {Msg("sender", 0, "contract", 1, FALSE)}

=============================================================================

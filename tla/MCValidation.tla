--------------------------- MODULE MCValidation ---------------------------
(* Instances of Validation for TLC. *)
EXTENDS Validation

CONSTANTS c1, c2

MCConns == {c1, c2}

Single(part) == [form |-> "single", parts |-> <<part>>]
Batch(parts) == [form |-> "batch", parts |-> parts]

\* Every verdict on one statement; batches admitted, refused at either end, too short, or failing to parse again.
MCTexts ==
  {Single(part) : part \in PartVerdicts} \union
  {Batch(<<"ok", "ok">>), Batch(<<"ok", "ok", "ok">>), Batch(<<"ok", "forbidden">>), Batch(<<"unsupported", "ok">>),
   Batch(<<"ok", "ok", "forbidden">>), Batch(<<"ok">>), Batch(<<"ok", "fatal">>), [form |-> "policy", parts |-> <<>>]}

Symmetry == Permutations(Conns)
=============================================================================

---------------------------- MODULE MCChainRules -----------------------------
(* ChainRules with short windows, small blocks and a small supply.          *)
EXTENDS ChainRules

\* Heights whose difficulty is written into the code
MCFixed == {<<2, 2, 6>>}

\* A large block with a transaction, and a small one dated before its parent that pays too much
MCTemplates ==
    {[step |-> 4, size |-> 5, fee |-> 2, extra |-> 0, luck |-> 0],
     [step |-> -1, size |-> 1, fee |-> 0, extra |-> 1, luck |-> 3]}

MCClocks == {6, 20}
=============================================================================

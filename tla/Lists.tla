-------------------------------- MODULE Lists --------------------------------
(* The linked lists of the VM, as sequences with the head first.           *)
EXTENDS Naturals, Sequences

In(s) == {s[i] : i \in DOMAIN s}

Injective(s) == \A i, j \in DOMAIN s : s[i] = s[j] => i = j

\* s with its element i unlinked.
Omit(s, i) == [j \in 1 .. Len(s) - 1 |-> IF j < i THEN s[j] ELSE s[j + 1]]

=============================================================================

------------------------------ MODULE Records ------------------------------
(* What JavaScript does to maps and to records. *)

\* Map.set.
Put(map, key, value) ==
    [k \in DOMAIN map \cup {key} |-> IF k = key THEN value ELSE map[k]]

\* { ...record, ...fields }.
Over(record, fields) ==
    [f \in DOMAIN record \cup DOMAIN fields |->
        IF f \in DOMAIN fields THEN fields[f] ELSE record[f]]

Without(record, fields) == [f \in DOMAIN record \ fields |-> record[f]]

=============================================================================

----------------------------- MODULE MCBmsCodec -----------------------------
(* One signal at an edge of its width, the others all zeros or all ones.   *)
EXTENDS BmsCodec

EdgeValues(len) ==
    {{}, {0}, {len - 1}, 0 .. len - 2, 1 .. len - 1, 0 .. len - 1}

Fill(m, k, edge, ones) ==
    [j \in DOMAIN Messages[m].signals |->
        IF j = k THEN edge
        ELSE IF ones THEN 0 .. Messages[m].signals[j].len - 1 ELSE {}]

EdgePayloads(m) ==
    UNION {{Fill(m, k, edge, ones) : edge \in EdgeValues(Messages[m].signals[k].len),
                                     ones \in BOOLEAN}
           : k \in DOMAIN Messages[m].signals}
=============================================================================

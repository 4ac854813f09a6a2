----------------------------- MODULE MCEncoding -----------------------------
(* Bytes at the borders of what is well-formed, and files with every mark. *)
EXTENDS Encoding

MCBytes == {26, 65, 128, 159, 160, 190, 191, 193, 194, 224, 237, 239, 240}

MCFiles ==
    {<<65, 66>>, <<194, 160>>, <<65, 191>>, <<65, 0>>,
     MarkLE \o <<65, 0>>, MarkLE \o <<61, 216, 0, 222>>, MarkBE \o <<0, 65, 0, 66>>, Mark8 \o <<65, 66, 66, 66>>}

=============================================================================

--------------------------- MODULE MCChatBilling ---------------------------
(***************************************************************************)
(* Instances of ChatBilling for TLC.                                       *)
(***************************************************************************)
EXTENDS ChatBilling, TLC

CONSTANTS r1, r2, r3, c1, c2, p1, k1

\* c1 may spend 4 tokens, c2 has no limit.
MCLimit == (c1 :> 4) @@ (c2 :> 0)

Job(kind, cid, key, est) == [kind |-> kind, cid |-> cid, key |-> key, est |-> est]

\* Limited and unlimited accounts, with and without a key, every kind, a zero
\* estimate, and estimates of which two, but not three, fit the limit.
MCJobs ==
    {Job("blockingChat", c1, k1, 2), Job("blockingChat", c2, k1, 1),
     Job("streamChat", c1, NoKey, 2), Job("streamChat", c1, k1, 2),
     Job("embeddings", c1, NoKey, 1), Job("embeddings", c1, NoKey, 0)}

\* Only retries of one key.
MCRetries == {Job("blockingChat", c1, k1, 2)}

\* Retries of one key next to a request without one, on a limited account.
MCRetryMix == MCRetries \cup {Job("embeddings", c1, NoKey, 1)}

MCSymmetry == Permutations(Requests)

=============================================================================

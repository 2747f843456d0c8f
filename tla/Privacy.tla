------------------------------ MODULE Privacy ------------------------------
(***************************************************************************)
(* Privacy modes and tiers.  A mode stands for itself and every more       *)
(* public tier; a list of tiers is a set here, since its order only        *)
(* matters to readers.  An input may hold any words: where the code        *)
(* returns an error the result is the empty set, which no valid input has. *)
(***************************************************************************)

Tiers == {"private", "community", "public"}

Invalid == {}

NormalizeTier(t) == IF t = "" THEN "private" ELSE t

TiersForMode(mode) ==
    CASE mode \in {"", "private"} -> Tiers
      [] mode = "community"       -> {"community", "public"}
      [] mode = "public"          -> {"public"}
      [] OTHER                    -> Invalid

NormalizeTiers(words) ==
    LET out == {NormalizeTier(t) : t \in words}
    IN  IF words = {} THEN TiersForMode("private")
        ELSE IF out \subseteq Tiers THEN out
        ELSE Invalid

ModeForTiers(tiers) ==
    CASE "private" \in tiers   -> "private"
      [] "community" \in tiers -> "community"
      [] "public" \in tiers    -> "public"
      [] OTHER                 -> ""

Accepts(tiers, t) == NormalizeTier(t) \in tiers

\* What an agent or an operator asks for: a list of tiers, or else a mode.
requestedPrivacy(ask) ==
    IF ask.tiers # {} THEN NormalizeTiers(ask.tiers) ELSE TiersForMode(ask.mode)

=============================================================================

-------------------------------- MODULE Periods --------------------------------
(***************************************************************************)
(* Half-open periods [from, to), as the daterange and tstzrange columns of  *)
(* the reservation tables, and the exclusion constraint over them.          *)
(***************************************************************************)
EXTENDS Integers

Covers(s, n) == s.from <= n /\ n < s.to
Meets(s, t)  == s.from < t.to /\ t.from < s.to

(* EXCLUDE USING gist (... stay WITH &&) WHERE (status IN kept).            *)
Apart(rows, kept) ==
    \A r, s \in DOMAIN rows :
        r # s /\ {rows[r].status, rows[s].status} \subseteq kept => ~Meets(rows[r], rows[s])
=============================================================================

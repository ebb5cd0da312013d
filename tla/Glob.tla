-------------------------------- MODULE Glob --------------------------------
(***************************************************************************)
(* The pattern matcher of src/src/util/glob.c.  Characters are their codes;   *)
(* a string ends where its sequence does, and what is read there is a NUL.    *)
(* What the code makes of the characters behind the NUL of a string is         *)
(* "past".                                                                  *)
(***************************************************************************)
EXTENDS Integers, Sequences, SequencesExt

LOCAL NUL == 0
LOCAL Star == 42
LOCAL One == 63
LOCAL Open == 91
LOCAL Close == 93
LOCAL Dash == 45
LOCAL Bang == 33

Chars == 0..127

At(str, i) == IF i <= Len(str) THEN str[i] ELSE NUL

char_match(ch, match_set) == ch \in match_set

\* The characters of a bracket and where it ends; a span without an end is skipped.
parse_range_def(pat, open) ==
    LET invert == At(pat, open + 1) = Bang
        step(st, k) ==
          LET ch == At(pat, st.at)
              to == At(pat, st.at + 2)
          IN  CASE st.done \/ ch \in {NUL, Close} -> [st EXCEPT !.done = TRUE]
                [] At(pat, st.at + 1) = Dash /\ to \in {NUL, Close} -> [st EXCEPT !.at = @ + 2, !.done = TRUE]
                [] At(pat, st.at + 1) = Dash -> [st EXCEPT !.at = @ + 3, !.set = @ \cup (ch..to)]
                [] OTHER -> [st EXCEPT !.at = @ + 1, !.set = @ \cup {ch}]
        read == FoldLeft(step, [at |-> open + (IF invert THEN 2 ELSE 1), set |-> {}, done |-> FALSE], pat)
    IN  [end |-> read.at, set |-> IF invert THEN Chars \ read.set ELSE read.set]

\* The loop of glob_match: the positions in both strings, and those to go back to.
RECURSIVE Matching(_, _, _, _)
Matching(pat, str, seps, st) ==
    LET p_ch  == At(pat, st.pat)
        s_ch  == At(str, st.str)
        range == parse_range_def(pat, st.pat)
        end   == IF p_ch = Open THEN range.end ELSE st.pat
        fits  == CASE p_ch = NUL  -> FALSE
                   [] p_ch = One  -> s_ch # NUL /\ ~char_match(s_ch, seps)
                   [] p_ch = Open -> s_ch \in range.set
                   [] OTHER       -> s_ch = p_ch
        back  == st.pat_star # 0 /\ s_ch # NUL /\ ~char_match(s_ch, seps)
    IN  IF st.str > Len(str) + 1 \/ st.pat > Len(pat) + 1 THEN "past"
        ELSE IF s_ch = NUL /\ p_ch = NUL THEN "yes"
        ELSE IF p_ch = Star
             THEN Matching(pat, str, seps, [st EXCEPT !.pat = @ + 1, !.pat_star = st.pat, !.str_star = st.str + 1])
        ELSE IF fits THEN Matching(pat, str, seps, [st EXCEPT !.pat = end + 1, !.str = @ + 1])
        ELSE IF back THEN Matching(pat, str, seps, [st EXCEPT !.pat = st.pat_star, !.str = st.str_star])
        ELSE "no"

glob_match(pattern, str, dir_separators) ==
    Matching(pattern, str, dir_separators, [str |-> 1, pat |-> 1, str_star |-> 0, pat_star |-> 0])

is_glob(str) == \E i \in DOMAIN str : str[i] \in {Star, One, Open}

----------------------------------------------------------------------------
(* What is accepted: a pattern as a sequence of items, each a star or a set.  *)
Item(text, set) == [text |-> text, set |-> set]

RECURSIVE Accepts(_, _, _)
Accepts(items, str, skipped) ==
    IF items = <<>> THEN str = <<>>
    ELSE IF Head(items).text = <<Star>>
         THEN \E k \in 0..Len(str) : /\ \A i \in 1..k : str[i] \in skipped
                                     /\ Accepts(Tail(items), SubSeq(str, k + 1, Len(str)), skipped)
    ELSE str # <<>> /\ Head(str) \in Head(items).set /\ Accepts(Tail(items), Tail(str), skipped)

\* A match is a match of the items; a star that need not skip a separator finds it.  A
\* bracket that takes the NUL reads past the string, and one that takes a separator may
\* end the search too early, so those only never match what they should not.
GlobAgrees(items, str, seps) ==
    LET pattern == FlattenSeq([i \in DOMAIN items |-> items[i].text])
        asked   == [i \in DOMAIN items |-> IF items[i].text = <<One>> THEN Item(<<One>>, Chars \ (seps \cup {NUL}))
                                           ELSE items[i]]
        plain   == \A i \in DOMAIN items : Head(items[i].text) = Open => items[i].set \cap (seps \cup {NUL}) = {}
        got     == glob_match(pattern, str, seps)
    IN  /\ got = "yes" => Accepts(asked, str, Chars)
        /\ plain => /\ got # "past"
                    /\ Accepts(asked, str, Chars \ seps) => got = "yes"
        /\ ~is_glob(pattern) => (got = "yes" <=> pattern = str)

=============================================================================

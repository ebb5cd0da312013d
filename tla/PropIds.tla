------------------------------- MODULE PropIds -------------------------------
(***************************************************************************)
(* Property identifiers, their names and their namespaces:                   *)
(* src/src/prop_id.c and src/include/cstone/prop_id.h.  An identifier is its *)
(* four fields, a byte each; the text of a name is a sequence of tokens.  A   *)
(* mask has whole bytes.  Below, the sets of flags of src/src/prop_flags.c.   *)
(***************************************************************************)
EXTENDS Integers, Sequences, SequencesExt, TLC

Levels == 1..4
NoProp == <<0, 0, 0, 0>>

\* What the upper bit of a field says; the last field is never an array.
IsArray(prop, level) == level \in 1..3 /\ prop[level] >= 128

PROP_GET_MASK(prop) == [i \in Levels |-> IF prop[i] = 255 THEN 0 ELSE 255]

Masked(prop, mask) == [i \in Levels |-> IF mask[i] = 255 THEN prop[i] ELSE 0]

PROP_SET_INDEX(prop, level, index) == IF level < 4 THEN [prop EXCEPT ![level + 1] = index % 256] ELSE prop

----------------------------------------------------------------------------
(* Namespaces: a list, the one with all properties at its end.  A definition *)
(* is a level, the value of a field there and its name.                     *)
Rank(mask) == FoldLeft(LAMBDA r, b : 2 * r + (b \div 255), 0, mask)

\* The mask of a namespace that comes without one is what its prefix does not mask.
prop_init_namespace(ns) ==
    LET mask == PROP_GET_MASK(ns.prefix)
    IN  IF ns.mask = NoProp /\ ns.prefix # NoProp
        THEN [ns EXCEPT !.mask = mask, !.prefix = Masked(ns.prefix, mask)] ELSE ns

\* Put in the order of the masks, but the mask may only be found out afterwards.
prop_add_namespace(list, ns) ==
    LET at == {i \in DOMAIN list : Rank(list[i].mask) <= Rank(ns.mask)}
    IN  IF at = {} THEN list
        ELSE InsertAt(list, CHOOSE i \in at : \A j \in at : i <= j, prop_init_namespace(ns))

\* The first that covers the property without taking the field of this level.
prop__get_namespace(list, level, prop) ==
    LET fits == {i \in DOMAIN list : \/ list[i].prefix = NoProp
                                     \/ /\ Masked(prop, list[i].mask) = list[i].prefix
                                        /\ list[i].mask[level] = 0}
    IN  list[CHOOSE i \in fits : \A j \in fits : i <= j]

LOCAL DefsIn(list, level, prop, Wanted(_)) ==
    LET own(ns) == {d \in ns.defs : d.level = level /\ Wanted(d)}
        ns == prop__get_namespace(list, level, prop)
    IN  IF own(ns) # {} THEN own(ns) ELSE own(Last(list))

\* The name of a field, in the property's namespace or in the one for all.
find_field_def(list, level, prop, field) == DefsIn(list, level, prop, LAMBDA d : d.value = field)

\* The value of a name; zero if there is none.
prop__get_field_id(list, level, prop, name) ==
    LET found == DefsIn(list, level, prop, LAMBDA d : d.name = name)
    IN  IF found = {} THEN 0 ELSE (CHOOSE d \in found : TRUE).value

----------------------------------------------------------------------------
(* Names.                                                                  *)
\* The upper bit is taken off every field but the last, an index included.
append_field(list, prop, level) ==
    LET array == IsArray(prop, level)
        field == IF array THEN prop[level] - 128 ELSE prop[level]
        def   == find_field_def(list, level, prop, field)
        dot   == IF level # 4 THEN <<".">> ELSE <<>>
        name  == IF def # {} THEN <<(CHOOSE d \in def : TRUE).name>> ELSE <<"<", ToString(field), ">">>
    IN  IF IsArray(prop, level - 1) THEN <<ToString(field), "]">> \o dot
        ELSE name \o IF array THEN <<"[">> ELSE dot

prop_get_name(list, prop) ==
    append_field(list, prop, 1) \o append_field(list, prop, 2) \o append_field(list, prop, 3)
    \o append_field(list, prop, 4)

LOCAL Hex == <<"0", "1", "2", "3", "4", "5", "6", "7", "8", "9", "A", "B", "C", "D", "E", "F">>

\* A P and eight hexadecimal digits, with something else or nothing after them.
prop_parse_id(text) ==
    LET value(i) == (CHOOSE k \in DOMAIN Hex : Hex[k] = text[i]) - 1
        digits   == 2..9
    IN  IF /\ Len(text) >= 9 /\ text[1] \in {"P", "p"}
           /\ \A i \in digits : text[i] \in Range(Hex)
           /\ Len(text) > 9 => text[10] \notin Range(Hex)
        THEN [b \in Levels |-> 16 * value(2 * b) + value(2 * b + 1)] ELSE NoProp

LOCAL Number(token) ==
    LET n == {k \in 0..999 : ToString(k) = token} IN IF n = {} THEN 0 ELSE CHOOSE k \in n : TRUE

LOCAL Split(text, delim) ==
    SelectSeq(FoldLeft(LAMBDA s, t : IF t \in delim THEN Append(s, <<>>)
                                     ELSE [s EXCEPT ![Len(s)] = Append(@, t)], <<<<>>>>, text),
              LAMBDA part : part # <<>>)

LOCAL Failed == [level |-> 0, prop |-> NoProp]

\* One dotted part: a field, by name or by number, and the index of an array.
ParseField(list, st, part) ==
    LET array == \E i \in DOMAIN part : part[i] = "["
        subs  == Split(part, {"[", "]"})
        name  == IF array THEN subs[1] ELSE part
        known == Head(name) # "<" \/ Last(name) # ">"
        n     == IF known THEN 0 ELSE Number(name[2])
        bad   == ~known /\ IF array THEN n \notin 1..126 ELSE n >= 255
        field == IF ~known /\ n # 0 THEN n
                 ELSE IF Len(name) = 1 THEN prop__get_field_id(list, st.level, st.prop, name[1]) ELSE 0
        index == IF Len(subs) > 1 THEN Number(subs[2][1]) ELSE 0
        value == IF array /\ field < 128 THEN field + 128 ELSE field
        set   == IF st.level \in Levels THEN [st.prop EXCEPT ![st.level] = value] ELSE st.prop
    IN  IF bad \/ field = 0 \/ (array /\ index > 254) THEN Failed
        ELSE IF array THEN [level |-> st.level + 2, prop |-> PROP_SET_INDEX(set, st.level, index)]
        ELSE [level |-> st.level + 1, prop |-> set]

\* Four fields, two for each array; a part that does not parse ends it.
prop_parse_name(list, text) ==
    LET step(st, part) == IF st.level = 0 \/ st.level > 5 THEN st
                          ELSE IF st.level = 5 THEN Failed ELSE ParseField(list, st, part)
        done == FoldLeft(step, [level |-> 1, prop |-> NoProp], Split(text, {"."}))
    IN  IF done.level = 5 THEN done.prop ELSE NoProp

prop_parse_any(list, text) ==
    IF prop_parse_id(text) # NoProp THEN prop_parse_id(text) ELSE prop_parse_name(list, text)

----------------------------------------------------------------------------
(* Checks and masks.                                                       *)
\* Fields go from 1 to 126, indexes from 0 to 254, and 255 is a mask.
prop_is_valid(prop, allow_mask) ==
    LET step(st, field) ==
          LET array == field >= 128 /\ field # 255
              plain == IF array THEN field - 128 ELSE field
              good  == CASE field = 255 -> allow_mask
                         [] st.prev -> TRUE
                         [] field < 128 /\ ~st.prev -> field \notin {0, 127}
                         [] array /\ ~st.prev -> plain # 0
          IN  [ok |-> st.ok /\ good, prev |-> array /\ ~st.prev]
    IN  FoldLeft(step, [ok |-> TRUE, prev |-> FALSE], prop).ok

prop_has_mask(prop) == \E i \in Levels : prop[i] = 255

prop_match(prop, masked_prop) ==
    LET mask == PROP_GET_MASK(masked_prop) IN Masked(prop, mask) = Masked(masked_prop, mask)

----------------------------------------------------------------------------
(* Properties.                                                             *)
\* The name of a valid property is parsed back to it, whichever namespaces know its fields.
\* An index of 128 and more in the second or third field loses its upper bit and makes the
\* field after it another index, so only smaller ones are asked for, although the header
\* allows 254; 255 in any field is a mask.
NameReadsBack(list, prop) ==
    (/\ prop_is_valid(prop, FALSE)
     /\ \A l \in {2, 3} : ~(IsArray(prop, l - 1) /\ ~IsArray(prop, l - 2) /\ prop[l] >= 128))
    => prop_parse_any(list, prop_get_name(list, prop)) = prop

\* The hexadecimal form reads back, and is told from a name.
IdReadsBack(list, prop) ==
    LET digit(i) == Hex[IF i % 2 = 0 THEN (prop[i \div 2] \div 16) + 1 ELSE (prop[i \div 2] % 16) + 1]
        text == <<"P">> \o [k \in 1..8 |-> digit(k + 1)]
    IN  /\ prop_parse_any(list, text) = prop
        /\ prop # NoProp => prop_parse_id(text \o <<".">>) = prop
        /\ prop_parse_id(Front(text)) = NoProp

\* A masked property stands for all that agree with it outside its masks; without a mask it
\* stands for itself, and what is valid without masks has none.
MasksAgree(prop, other) ==
    /\ prop_match(prop, other) <=> \A i \in Levels : other[i] = 255 \/ prop[i] = other[i]
    /\ ~prop_has_mask(other) => (prop_match(prop, other) <=> prop = other)
    /\ prop_is_valid(prop, FALSE) => prop_is_valid(prop, TRUE) /\ ~prop_has_mask(prop)

-----------------------------------------------------------------------------
(* Flags kept in a set of their own, src/src/prop_flags.c: the prefix is a     *)
(* property with an array in its third field, the index in the fourth is the  *)
(* flag.  The 32 bytes of the flags are the set of their bits that are 1.     *)
PROP_FIELD_IS_ARRAY(prop) == prop[3] >= 128

FLAG_MASK(prop) == [prop EXCEPT ![4] = 0]

Bit(index) == [byte |-> index \div 8, mask |-> index % 8]

\* Without an array field no property belongs to the flags, they are as after a memset.
prop_flags_init(prefix, index_names, flag_values) ==
    IF PROP_FIELD_IS_ARRAY(prefix) THEN [prefix |-> FLAG_MASK(prefix), index_names |-> index_names, flags |-> flag_values]
    ELSE [prefix |-> NoProp, index_names |-> <<>>, flags |-> {}]

prop_flags_get_all(pf) == pf.flags

valid_flag_prop(pf, prop) == PROP_FIELD_IS_ARRAY(prop) /\ FLAG_MASK(prop) = pf.prefix

prop_flags_set(pf, prop, value) ==
    IF ~valid_flag_prop(pf, prop) THEN pf
    ELSE [pf EXCEPT !.flags = IF value THEN @ \cup {Bit(prop[4])} ELSE @ \ {Bit(prop[4])}]

prop_flags_get(pf, prop) == valid_flag_prop(pf, prop) /\ Bit(prop[4]) \in pf.flags

prop_flags_lookup_name(pf, flag_name) ==
    LET found == {i \in DOMAIN pf.index_names : pf.index_names[i] = flag_name}
    IN  IF found = {} THEN -1 ELSE (CHOOSE i \in found : \A j \in found : i <= j) - 1

prop_flags_lookup_index(pf, index) ==
    IF index < Len(pf.index_names) THEN pf.index_names[index + 1] ELSE "none"

\* The upper bit of the third field is set again; it is there unless nothing is.
prop_flags_set_by_name(pf, flag_name, value) ==
    LET flag == prop_flags_lookup_name(pf, flag_name)
    IN  IF flag < 0 THEN pf
        ELSE prop_flags_set(pf, [pf.prefix EXCEPT ![3] = IF @ < 128 THEN @ + 128 ELSE @, ![4] = flag % 256], value)

\* The lines that are printed.
prop_flags_dump(pf, set_flags_only, max_flag) ==
    LET line(i) == [prop |-> [pf.prefix EXCEPT ![4] = i], name |-> prop_flags_lookup_index(pf, i),
                    flag |-> Bit(i) \in pf.flags]
        lines   == [i \in 1 .. (IF max_flag = 0 THEN 255 ELSE max_flag) + 1 |-> line(i - 1)]
    IN  SelectSeq(lines, LAMBDA l : l.flag \/ ~set_flags_only)

----------------------------------------------------------------------------
\* After any calls a flag has the value it was given last, under its name or its property,
\* and what belongs to another prefix is left out; the dump prints those that are set, and
\* flags made of all the values are the same.
FlagsAgree(prefix, other, index_names, calls) ==
    LET start  == prop_flags_init(prefix, index_names, {})
        Prop(c) == IF c.by = "other" THEN [other EXCEPT ![4] = c.index] ELSE [prefix EXCEPT ![4] = c.index]
        step(pf, c) == IF c.by = "name" THEN prop_flags_set_by_name(pf, prop_flags_lookup_index(pf, c.index), c.value)
                       ELSE prop_flags_set(pf, Prop(c), c.value)
        known(c) == c.by = "prop" \/ (c.by = "name" /\ c.index < Len(index_names))
        given(i) == SelectSeq(calls, LAMBDA c : known(c) /\ c.index = i)
        Set(i)   == PROP_FIELD_IS_ARRAY(prefix) /\ given(i) # <<>> /\ Last(given(i)).value
    IN  FLAG_MASK(other) # FLAG_MASK(prefix) =>
        \A pf \in {FoldLeft(step, start, calls)} :
           /\ \A i \in {c.index : c \in Range(calls)} \cup {0, 7, 8, 255} :
                 /\ prop_flags_get(pf, [prefix EXCEPT ![4] = i]) <=> Set(i)
                 /\ ~prop_flags_get(pf, [other EXCEPT ![4] = i])
           /\ LET dump == prop_flags_dump(pf, TRUE, 0)
              IN  /\ {dump[k].prop[4] : k \in DOMAIN dump} = {i \in {c.index : c \in Range(calls)} : Set(i)}
                  /\ \A k \in DOMAIN dump : prop_flags_get(pf, dump[k].prop)
           /\ PROP_FIELD_IS_ARRAY(prefix) => prop_flags_init(prefix, index_names, prop_flags_get_all(pf)) = pf

=============================================================================

---------------------------- MODULE MCFfiClient ----------------------------
(* FfiBoundary with a few clients, threads and jobs, and messages whose     *)
(* fields are absent, shortest, longest, or one byte too long.              *)
EXTENDS FfiBoundary

CONSTANTS h1, h2, t1, t2, o1, o2, s1

\* Messages of a type: the shortest, one with every field, one with every
\* field at its limit.
FirstArm(type) == CHOOSE f \in Fields(type) :
  f.label = "arm" /\ \A g \in Fields(type) : g.label = "arm" => f.no <= g.no

Build(type, inner, len(_), optional) ==
  [name \in {f.name : f \in Fields(type)} |->
    LET f == CHOOSE f \in Fields(type) : f.name = name IN
    IF (f.label = "arm" /\ f # FirstArm(type)) \/ (f.label = "optional" /\ ~optional)
    THEN NoValue
    ELSE IF f.label = "repeated" THEN IF optional THEN <<inner[f.type]>> ELSE <<>>
    ELSE IF f.kind = "message" THEN inner[f.type]
    ELSE IF f.kind = "empty" THEN NoBytes
    ELSE IF f.kind \in Varints THEN (IF f.kind \in {"enum", "version"} THEN 1 ELSE 0)
    ELSE Text(1, len(f))]

Shortest[type \in DOMAIN Schema] == Build(type, Shortest, LAMBDA f : 1, FALSE)
Complete[type \in DOMAIN Schema] == Build(type, Complete, LAMBDA f : 50, TRUE)
Longest(type) == Build(type, Shortest, LAMBDA f : f.limit, TRUE)

\* Lists: one, two of the same, two, as many as there may be, and one more.
Listed(f, n) ==
  LET element == Longest(f.type)
      key     == IF f.type = "section" THEN "kind" ELSE "card_id"
  IN [k \in 1 .. n |->
       [element EXCEPT ![key] = IF f.type = "section" THEN k ELSE Text(k, 128)]]

\* A snapshot with two full sections is larger than an event may be.
Full(kind) ==
  [Longest("section") EXCEPT !.kind = kind, !.cards = Listed(SectionFields[4], CardLimit)]

Lists(f) == {Listed(f, n) : n \in {0, 1, 2, f.most, f.most + 1}}
            \cup {<<Shortest[f.type], Shortest[f.type]>>}
            \cup (IF f.type = "section" THEN {<<Full(1)>>, <<Full(1), Full(2)>>} ELSE {})

Choices(f) ==
  (IF f.label \in {"optional", "arm"} THEN {NoValue} ELSE {}) \cup
  (IF f.label = "repeated" THEN Lists(f)
   ELSE IF f.kind = "message" THEN {Shortest[f.type], Complete[f.type], Longest(f.type)}
   ELSE IF f.kind = "empty" THEN {NoBytes}
   ELSE IF f.kind = "version" THEN {1, 2}
   ELSE IF f.kind \in {"enum", "bool"} THEN {f.limit - 1, f.limit}
   ELSE IF f.kind = "u32" THEN {0, 300}
   ELSE IF f.kind = "u64" THEN {300, 2097152, Huge}
   \* 371 bytes of detail are the longest next to the longest other texts
   ELSE {Text(1, n) : n \in {0, 127, 128, 371, 372, f.limit, f.limit + 1}})

\* One field of a message chosen, or one of its arms.
Variations(type, base) ==
  UNION {{[base EXCEPT ![f.name] = x] : x \in Choices(f)} :
           f \in {g \in Fields(type) : g.label # "arm"}}
  \cup UNION {{[name \in DOMAIN base |->
                  IF name = f.name THEN x
                  ELSE IF \E g \in Fields(type) : g.name = name /\ g.label = "arm" THEN NoValue
                  ELSE base[name]] : x \in Choices(f) \ {NoValue}} :
                f \in {g \in Fields(type) : g.label = "arm"}}

MCMessages ==
  UNION {{[type |-> type, value |-> value] :
            value \in UNION {Variations(type, base) :
                               base \in {Shortest[type], Complete[type], Longest(type)}}} :
           type \in DOMAIN Schema}

MCDisturbable ==
  UNION {{[type |-> type, value |-> value] :
            value \in {Shortest[type], Complete[type], Longest(type)}} :
           type \in DOMAIN Schema}

\* Bound: two jobs, an operation beside the subscription or beside the other
\* operation, whichever of the two was accepted first being called o1.
TwoJobs ==
  worker[o2] # "none" => worker[o1] # "none" /\ worker[s1] = "none"
=============================================================================

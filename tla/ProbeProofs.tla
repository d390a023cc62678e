----------------------------- MODULE ProbeProofs -----------------------------
(***************************************************************************)
(* Theorems about module Probe, for any number of versions of the file.    *)
(*                                                                         *)
(* Before the GET is answered, the size and the validator are both known   *)
(* or both not, because a plain site's HEAD names both or neither.  That   *)
(* is what keeps the GET from adding the validator of one version to the   *)
(* size of another.                                                        *)
(***************************************************************************)
EXTENDS Probe, TLAPS

Typed == site \in Sites /\ version \in Nat \ {0}

\* Nothing is known before an answer, and until the GET is answered a plain site
\* has told both size and validator or neither.
Sound ==
  /\ Typed
  /\ pc = "head" => meta = Nothing
  /\ Plain =>
       /\ meta.size \in Unknown .. version
       /\ pc # "done" => meta.tag = meta.size
       /\ meta.tag # Unknown => meta.tag = meta.size

\* While the file has its first version, an answer of a site that names
\* validators tells both.
Known(m) == m.size = 1 /\ m.tag = 1

Told ==
  /\ Typed
  /\ Plain /\ site.tag /\ version = 1 =>
       /\ IF answers > 0 THEN Known(meta) ELSE meta = Nothing
       /\ first.answers > 0 => Known(first.meta)
  /\ answers \in Nat
  /\ pc = "head" => answers = 0

LEMMA SiteTyped ==
  ASSUME Typed
  PROVE  /\ site.head \in BOOLEAN /\ site.get \in BOOLEAN /\ site.announces \in BOOLEAN
         /\ site.serves \in BOOLEAN /\ site.length \in BOOLEAN /\ site.tag \in BOOLEAN
         /\ site.total \in BOOLEAN /\ site.getTag \in BOOLEAN
         /\ site.announces => site.serves /\ site.head
BY DEF Typed, Sites

\* A plain site's answer to the GET is about the file it has then.
LEMMA PlainSize ==
  ASSUME Plain
  PROVE  GetSize = version
BY DEF Plain, GetSize, Length, Partial

LEMMA StepTyped ==
  ASSUME Typed, [Next]_vars
  PROVE  Typed' /\ site' = site /\ version' >= version /\ Plain' = Plain
<1>1. site' = site /\ version' \in Nat \ {0} /\ version' >= version
  BY DEF Typed, Next, HeadAnswered, HeadLost, GetAnswered, GetLost, ProbeAgain, FileChanges, vars
<1> QED
  BY <1>1 DEF Typed, Plain

LEMMA NextSound == Sound /\ [Next]_vars => Sound'
<1> SUFFICES ASSUME Sound, [Next]_vars PROVE Sound'
  OBVIOUS
<1>1. Typed /\ Typed' /\ site' = site /\ version' >= version /\ Plain' = Plain
  BY StepTyped DEF Sound
<1>2. Nothing.size = Unknown /\ Nothing.tag = Unknown /\ Unknown \in Unknown .. version'
  BY <1>1 DEF Nothing, Unknown, Typed
<1>3. CASE HeadAnswered
  <2>1. meta'.size = (IF ~site.length THEN Unknown ELSE IF site.head THEN version ELSE Page)
    BY <1>3 DEF HeadAnswered
  <2>2. meta'.tag = (IF site.head /\ site.tag THEN version ELSE Unknown)
    BY <1>3 DEF HeadAnswered
  <2>3. version' = version /\ pc' # "head"
    BY <1>3 DEF HeadAnswered
  <2>4. Plain => meta'.tag = meta'.size /\ meta'.size \in {Unknown, version}
    BY <2>1, <2>2 DEF Plain
  <2> QED
    BY <1>1, <2>3, <2>4 DEF Sound, Typed, Unknown
<1>4. CASE GetAnswered
  <2>1. /\ meta'.size = (IF meta.size = Unknown THEN GetSize ELSE meta.size)
        /\ meta'.tag = (IF meta.tag = Unknown /\ site.get /\ site.getTag THEN version ELSE meta.tag)
        /\ pc = "get" /\ pc' = "done" /\ version' = version
    BY <1>4 DEF GetAnswered, FillIn
  <2>2. Plain => /\ meta'.size \in {version, meta.size}
                 /\ meta'.tag # Unknown => meta'.tag = meta'.size
    BY <2>1, PlainSize DEF Sound
  <2> QED
    BY <1>1, <2>1, <2>2 DEF Sound, Typed, Unknown
<1>5. CASE ProbeAgain
  <2>1. meta' = Nothing
    BY <1>5 DEF ProbeAgain
  <2> QED
    BY <1>1, <1>2, <2>1 DEF Sound
<1>6. CASE HeadLost \/ GetLost \/ FileChanges \/ UNCHANGED vars
  <2>1. meta' = meta /\ (pc' = pc \/ pc' \in {"get", "done"}) /\ (pc' # "done" => pc # "done")
    BY <1>6 DEF HeadLost, GetLost, FileChanges, vars
  <2>2. version \in Nat /\ version' \in Nat
    BY <1>1 DEF Typed
  <2> QED
    BY <1>1, <2>1, <2>2 DEF Sound, Unknown
<1> QED
  BY <1>3, <1>4, <1>5, <1>6 DEF Next

LEMMA NextTold == Told /\ [Next]_vars => Told'
<1> SUFFICES ASSUME Told, [Next]_vars PROVE Told'
  OBVIOUS
<1>1. Typed /\ Typed' /\ site' = site /\ version' >= version /\ Plain' = Plain
  BY StepTyped DEF Told
<1>2. version \in Nat \ {0} /\ version' \in Nat \ {0} /\ answers \in Nat
  BY <1>1 DEF Typed, Told
<1>3. CASE HeadAnswered \/ GetAnswered
  <2>1. /\ version' = version /\ first' = first /\ pc' # "head"
        /\ answers' = answers + 1
    BY <1>3 DEF HeadAnswered, GetAnswered
  <2>2. Plain /\ site.tag /\ version = 1 => Known(meta')
    <3> SUFFICES ASSUME Plain, site.tag, version = 1 PROVE Known(meta')
      OBVIOUS
    <3>1. CASE HeadAnswered
      BY <3>1 DEF HeadAnswered, Known, Plain
    <3>2. CASE GetAnswered
      <4>1. /\ meta'.size = (IF meta.size = Unknown THEN version ELSE meta.size)
            /\ meta'.tag = (IF meta.tag = Unknown THEN version ELSE meta.tag)
        BY <3>2, PlainSize DEF GetAnswered, FillIn, Plain
      <4>2. Known(meta) \/ (meta.size = Unknown /\ meta.tag = Unknown)
        BY DEF Told, Nothing
      <4> QED
        BY <4>1, <4>2 DEF Known, Unknown
    <3> QED
      BY <1>3, <3>1, <3>2
  <2> QED
    BY <1>1, <1>2, <2>1, <2>2 DEF Told
<1>4. CASE ProbeAgain
  <2>1. /\ version' = version /\ answers' = 0 /\ meta' = Nothing
        /\ first'.meta = meta /\ first'.answers = answers
    BY <1>4 DEF ProbeAgain
  <2> QED
    BY <1>1, <1>2, <2>1 DEF Told
<1>5. CASE HeadLost \/ GetLost \/ UNCHANGED vars
  <2>1. UNCHANGED <<version, first, answers, meta>> /\ (pc' = "head" => pc = "head")
    BY <1>5 DEF HeadLost, GetLost, vars
  <2> QED
    BY <1>1, <2>1 DEF Told
<1>6. CASE FileChanges
  <2>1. version' # 1 /\ UNCHANGED <<answers, pc>>
    BY <1>2, <1>6 DEF FileChanges
  <2> QED
    BY <1>1, <2>1 DEF Told
<1> QED
  BY <1>3, <1>4, <1>5, <1>6 DEF Next

LEMMA InitProbe == Init => Sound /\ Told
BY DEF Init, Sound, Told, Typed, Nothing, Unknown

\* The size and the validator are those of one version of the file, however
\* often it changes between the requests (http.rs:74-89, 117-142).
THEOREM OneVersionProbed == Spec => []OneVersion
<1>1. Sound => OneVersion
  BY DEF Sound, OneVersion
<1> QED
  BY <1>1, InitProbe, NextSound, PTL DEF Spec

\* Two probes of a file that has not changed agree, whichever requests were
\* lost (http.rs:117-142, plan.rs:89-98).
THEOREM ProbesAlwaysAgree == Spec => []ProbesAgree
<1>1. Told => ProbesAgree
  BY DEF Told, ProbesAgree, Known
<1> QED
  BY <1>1, InitProbe, NextTold, PTL DEF Spec
=============================================================================

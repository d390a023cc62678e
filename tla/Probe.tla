-------------------------------- MODULE Probe --------------------------------
(***************************************************************************)
(* The probe of a server before a download                                 *)
(* (crates/arkama_core/src/http.rs): a HEAD request and, unless its answer *)
(* announces ranges, a GET of the first byte.  Either may be lost.  One    *)
(* download probes the server, and the download that resumes it does.      *)
(*                                                                         *)
(* A version of the file stands for its size and for its validators; the   *)
(* validator kept here stands for etag, last_modified and mime_type, which *)
(* are filled in alike.  Names of files and redirects are left out.        *)
(***************************************************************************)
EXTENDS Integers

CONSTANT MaxVersion   \* bound: versions of the file

ASSUME ProbeAssumption == MaxVersion \in Nat \ {0}

VARIABLES
  site,      \* how the server answers
  version,   \* the version of the file it has
  pc,        \* head, get or done
  meta,      \* HttpMeta
  answers,   \* requests of this probe that have been answered
  first      \* the metadata of the first probe and its answers, if it is over

vars == <<site, version, pc, meta, answers, first>>

\* Sizes are those of versions, or unknown, or the size of something else: of the
\* one byte asked for, or of an error page.
Unknown == 0
OneByte == -1
Page    == -2

\* head, get: the status is a success.  length, tag: HEAD carries them; the GET
\* carries a Content-Length in any case.  total: the Content-Range of a partial
\* answer names the size.
Sites ==
  {s \in [head : BOOLEAN, get : BOOLEAN, announces : BOOLEAN, serves : BOOLEAN,
          length : BOOLEAN, tag : BOOLEAN, total : BOOLEAN, getTag : BOOLEAN] :
     s.announces => s.serves /\ s.head}

Nothing == [size |-> Unknown, ranges |-> FALSE, tag |-> Unknown]

Init ==
  /\ site \in Sites
  /\ version = 1
  /\ pc = "head"
  /\ meta = Nothing /\ answers = 0
  /\ first = [meta |-> Nothing, answers |-> 0, of |-> 0]

\* The status of the answer is not looked at.
HeadAnswered ==
  /\ pc = "head"
  /\ meta' = [size   |-> IF ~site.length THEN Unknown ELSE IF site.head THEN version ELSE Page,
              ranges |-> site.announces,
              tag    |-> IF site.head /\ site.tag THEN version ELSE Unknown]
  /\ answers' = answers + 1
  /\ pc' = IF site.announces THEN "done" ELSE "get"
  /\ UNCHANGED <<site, version, first>>

HeadLost ==
  pc = "head" /\ pc' = "get" /\ UNCHANGED <<site, version, meta, answers, first>>

Partial == site.get /\ site.serves

\* Content-Length of the answer to the GET.
Length == CASE ~site.get -> Page [] Partial -> OneByte [] OTHER -> version

\* Mutant: the length of the answer comes before the total of its range.
GetSize_LengthFirst == Length

\* total_from_content_range, then Content-Length.
GetSize == IF Partial /\ site.total THEN version ELSE Length

\* Mutants: the answer to the GET replaces what the HEAD has said; its headers
\* other than the size are not looked at.
FillIn_Replace ==
  [size   |-> GetSize,
   ranges |-> Partial,
   tag    |-> IF meta.tag = Unknown /\ site.get /\ site.getTag THEN version ELSE meta.tag]

FillIn_SizeOnly ==
  [size |-> IF meta.size = Unknown THEN GetSize ELSE meta.size, ranges |-> Partial, tag |-> meta.tag]

\* What the HEAD has left open is filled in.
FillIn ==
  [size   |-> IF meta.size = Unknown THEN GetSize ELSE meta.size,
   ranges |-> Partial,
   tag    |-> IF meta.tag = Unknown /\ site.get /\ site.getTag THEN version ELSE meta.tag]

GetAnswered ==
  /\ pc = "get" /\ pc' = "done"
  /\ meta' = FillIn
  /\ answers' = answers + 1
  /\ UNCHANGED <<site, version, first>>

GetLost ==
  pc = "get" /\ pc' = "done" /\ UNCHANGED <<site, version, meta, answers, first>>

\* The download that resumes.
ProbeAgain ==
  /\ pc = "done" /\ first.of = 0
  /\ first' = [meta |-> meta, answers |-> answers, of |-> version]
  /\ pc' = "head" /\ meta' = Nothing /\ answers' = 0
  /\ UNCHANGED <<site, version>>

FileChanges ==
  version < MaxVersion /\ version' = version + 1 /\ UNCHANGED <<site, pc, meta, answers, first>>

Next ==
  HeadAnswered \/ HeadLost \/ GetAnswered \/ GetLost \/ ProbeAgain \/ FileChanges

Spec == Init /\ [][Next]_vars

-----------------------------------------------------------------------------
\* A site that answers with the file, names its size where it sends a part of
\* it, and says as much of it to a HEAD as to a GET, or nothing.
Plain ==
  /\ site.head /\ site.get
  /\ site.serves => site.total
  /\ site.length = site.tag
  /\ site.tag => site.getTag

\* The size and the validator are those of one version of the file, also when it
\* changes between the two requests or one of them is lost: a download that
\* fetches by such a validator gets a file of that size, or is refused
\* (http.rs:74-89, 117-142).
OneVersion ==
  pc = "done" /\ Plain =>
    /\ meta.size \in Unknown .. version
    /\ meta.tag # Unknown /\ meta.size # Unknown => meta.tag = meta.size

\* Two probes of a file that has not changed agree on what a saved state is
\* compared by, whichever requests were lost, if each got an answer at all: the
\* download is resumed and not begun anew (http.rs:117-142, plan.rs:89-98).
ProbesAgree ==
  pc = "done" /\ Plain /\ site.tag /\ version = 1 /\ first.answers > 0 /\ answers > 0 =>
    meta.size = first.meta.size /\ meta.tag = first.meta.tag
=============================================================================

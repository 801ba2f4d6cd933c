--------------------------- MODULE BatchProperties ---------------------------
(***************************************************************************)
(* What the answer to a crawl of several URLs promises.                    *)
(***************************************************************************)
EXTENDS Batch

BatchTypeOK ==
  /\ step \in {"crawl", "extract", "strip", "forget", "done", "aborted"}
  /\ \A r \in Range(task) \cup Range(out) \cup Range(crawled) :
       r \in [url : Nat, text : Nat, wire : Nat, rich : Nat, error : States]
  /\ extracting \subseteq Index /\ at \in 0 .. Len(UrlSize)

Replaced == {i \in DOMAIN out : out[i].error = "budget"}

\* docs/ARCHITECTURE.md:147: "rich payloads are removed from the tail while result
\* cardinality and explicit errors are retained".  The answer fits, and has one
\* result per URL in the order of the request; what was replaced is the end of the
\* list, and no more of it than had to be: with one result less replaced the answer
\* would not fit, although a notice can be longer than what it replaces.
\*
\* Errors are retained only where nothing is replaced.  A replaced result whose
\* crawl failed has lost its own error: crawler.py:2220 writes the notice over it,
\* and this property allows that, against the sentence above.
TailReplaced ==
  /\ BatchTypeOK
  /\ step = "done" =>
       /\ Fits(out)
       /\ Len(out) = Len(UrlSize)
       /\ \A i \in Index :
            IF task[i].error = "failed" THEN out[i].error \in {"failed", "budget"}
                                        ELSE out[i].error \in {"none", "budget"}
       /\ \A i \in Index : out[i].url \in {0, UrlSize[i]}
       /\ \A i \in DOMAIN out \ Replaced : out[i] = crawled[i]
       /\ \A i \in Replaced, j \in DOMAIN out : i < j => j \in Replaced
       /\ Replaced # {} =>
            LET first == Min(Replaced)
            IN ~Fits([i \in DOMAIN out |-> IF i > first THEN Stripped(crawled[i]) ELSE crawled[i]])
=============================================================================

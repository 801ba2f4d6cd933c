-------------------------------- MODULE Batch --------------------------------
(***************************************************************************)
(* One answer of /crawl: crawl_urls and _apply_response_budget of          *)
(* src/app/services/crawler.py and the envelope of                         *)
(* src/app/routers/crawl.py.  The URLs are crawled at once, JSON is        *)
(* extracted from the results at once, and what does not fit into the      *)
(* response is replaced from the tail.                                     *)
(*                                                                         *)
(* A payload is its size: the length of a text, and what its encoding and  *)
(* the other fields take on the wire.                                      *)
(***************************************************************************)
EXTENDS Integers, SequencesExt

CONSTANTS
  UrlSize,      \* the sizes of the URLs of the request, in its order
  Texts,        \* bound: lengths of markdown
  Riches,       \* bound: sizes of html, links, metadata and extracted
  Escape,       \* what a character takes on the wire when it is escaped
  TextCap,      \* extract_max_text_length
  MaxOutput,        \* max_response_output_bytes
  Envelope,     \* status, total_time_ms and total_pages
  Frame,        \* the field names of one result
  Notice,       \* the text "response output budget exceeded"
  Mark          \* the text "configured text limit"

Index == DOMAIN UrlSize

\* Settings and requests are validated: 16 KiB hold the notices of 100 results.
ASSUME BatchAssumption ==
  /\ UrlSize \in Seq(Nat \ {0}) /\ UrlSize # << >>
  /\ Texts \subseteq Nat /\ Riches \subseteq Nat
  /\ {Escape, TextCap, MaxOutput, Envelope, Frame, Notice, Mark} \subseteq Nat \ {0}
  /\ MaxOutput >= Envelope + Len(UrlSize) * (Frame + Notice)

VARIABLES
  step,         \* where crawl_urls is
  task,       \* per URL: how its crawl ended
  out,        \* out
  extracting, \* the results from which extract_structured is awaited
  at,         \* the position of the loops of _apply_response_budget
  crawled     \* history: the results before the budget is applied

batchVars == <<step, task, out, extracting, at, crawled>>

Result(url, text, wire, rich, error) ==
  [url |-> url, text |-> text, wire |-> wire, rich |-> rich, error |-> error]

Empty(url, error) == Result(url, 0, 0, 0, error)

States == {"running", "cancelled", "none", "failed", "budget"}
Ending(state) == {i \in Index : task[i].error = state}

BatchInit ==
  /\ step = "crawl" /\ task = [i \in Index |-> Empty(UrlSize[i], "running")]
  /\ out = << >> /\ extracting = {} /\ at = 0 /\ crawled = << >>

\* _crawl_single_url returns a result.
CrawlEnds(i) ==
  /\ step = "crawl" /\ task[i].error = "running"
  /\ \E t \in Texts, r \in Riches, e \in {1, Escape} :
       task' = [task EXCEPT ![i] = Result(UrlSize[i], t, t * e, r, "none")]
  /\ UNCHANGED <<step, out, extracting, at, crawled>>

\* It returns an error, or raises one.
CrawlFails(i) ==
  /\ step = "crawl" /\ task[i].error = "running"
  /\ \E r \in Riches : task' = [task EXCEPT ![i] = Result(UrlSize[i], 0, 0, r, "failed")]
  /\ UNCHANGED <<step, out, extracting, at, crawled>>

\* Its flight was cancelled.
CrawlCancelled(i) ==
  /\ step = "crawl" /\ task[i].error = "running"
  /\ task' = [task EXCEPT ![i] = Empty(UrlSize[i], "cancelled")]
  /\ UNCHANGED <<step, out, extracting, at, crawled>>

Ended == Ending("running") = {}

\* gather waits for all; a cancellation of one is raised after that.
Abort ==
  /\ step = "crawl" /\ Ended /\ Ending("cancelled") # {}
  /\ step' = "aborted"
  /\ UNCHANGED <<task, out, extracting, at, crawled>>

\* An exception has become a result with an error, in its place.  JSON may have
\* been asked for; there is nothing to extract from an error.
Collect ==
  /\ step = "crawl" /\ Ended /\ Ending("cancelled") = {}
  /\ out' = task
  /\ \E wanted \in BOOLEAN :
       extracting' = {i \in DOMAIN out' : wanted /\ out'[i].error = "none" /\ out'[i].text > 0}
  /\ step' = "extract"
  /\ UNCHANGED <<task, at, crawled>>

\* extract_structured answers, if only with the error it met.
Extracted(i) ==
  /\ step = "extract" /\ i \in extracting
  /\ \E x \in Riches : out' = [out EXCEPT ![i].rich = @ + x]
  /\ extracting' = extracting \ {i}
  /\ UNCHANGED <<step, task, at, crawled>>

(* _apply_response_budget **************************************************)

\* _cap_text: what is cut off takes its share of the wire with it, and the
\* metadata say so.
Capped(r) ==
  IF r.text <= TextCap THEN r
  ELSE [r EXCEPT !.text = TextCap, !.wire = (r.wire \div r.text) * TextCap, !.rich = @ + Mark]

Size(r) == Frame + r.url + r.wire + r.rich + (IF r.error = "budget" THEN Notice ELSE 0)

Sum(results) == SumFunctionOnSet([i \in DOMAIN results |-> Size(results[i])], DOMAIN results)

\* serialized_size
SerializedSize(results) == Envelope + Sum(results)

Fits(results) == SerializedSize(results) <= MaxOutput

CapTexts ==
  LET capped == [i \in DOMAIN out |-> Capped(out[i])]
  IN /\ step = "extract" /\ extracting = {}
     /\ out' = capped /\ crawled' = capped
     /\ IF Fits(capped) THEN step' = "done" /\ UNCHANGED at
                        ELSE step' = "strip" /\ at' = Len(capped)
     /\ UNCHANGED <<task, extracting>>

\* Mutant: the largest results go first.
LargestLeft ==
  CHOOSE i \in DOMAIN out :
    /\ out[i].error # "budget"
    /\ \A j \in DOMAIN out : out[j].error # "budget" => Size(out[j]) <= Size(out[i])
\* The loop goes from the tail to the head.
Victim == at

Stripped(r) == [r EXCEPT !.text = 0, !.wire = 0, !.rich = 0, !.error = "budget"]

\* One turn of a loop: after it the answer fits, or the loop goes on, or ends.
Turn(results, next) ==
  /\ out' = results
  /\ IF Fits(results) THEN step' = "done" /\ UNCHANGED at
     ELSE IF at > 1 THEN at' = at - 1 /\ UNCHANGED step
     ELSE step' = next /\ at' = Len(out)
  /\ UNCHANGED <<task, extracting, crawled>>

Strip == step = "strip" /\ Turn([out EXCEPT ![Victim] = Stripped(@)], "forget")

Forget == step = "forget" /\ Turn([out EXCEPT ![at].url = 0], "done")

BatchNext ==
  \/ \E i \in Index : CrawlEnds(i) \/ CrawlFails(i) \/ CrawlCancelled(i) \/ Extracted(i)
  \/ Abort \/ Collect \/ CapTexts \/ Strip \/ Forget

BatchSpec == BatchInit /\ [][BatchNext]_batchVars
=============================================================================

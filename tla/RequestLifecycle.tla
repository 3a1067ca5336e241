-------------------------- MODULE RequestLifecycle --------------------------
(***************************************************************************)
(* What a crawl request promises to whoever reads its row, whichever       *)
(* pipeline (StandardCrawl or WebsiteCrawl) processes it:                  *)
(*                                                                         *)
(*  - processing starts at most once, and only from "pending";             *)
(*  - the pipeline decides at most once: it imports the documentation or   *)
(*    it records a failure, never both, never twice;                       *)
(*  - an import and the status "completed" are one transaction;            *)
(*  - "cancelled" may be written over any status, and a decision of the    *)
(*    pipeline may be written over "cancelled": CrawlRequest checks        *)
(*    terminal? on the record in memory and saves afterwards.              *)
(*                                                                         *)
(* The concrete modules implement this specification.                      *)
(***************************************************************************)

VARIABLES
    status,     \* crawl_requests.status
    outcome     \* what the pipeline decided: "none", "imported", "failed"

vars == <<status, outcome>>

Statuses == {"pending", "processing", "completed", "failed", "cancelled"}

TypeOK == /\ status \in Statuses
          /\ outcome \in {"none", "imported", "failed"}

Init == /\ status = "pending"
        /\ outcome = "none"

\* CrawlRequest#begin_processing!
Begin == /\ status = "pending"
         /\ status' = "processing"
         /\ UNCHANGED outcome

\* CrawlRequest#mark_completed, in the transaction of the import
Complete == /\ outcome = "none"
            /\ status \in {"processing", "cancelled"}
            /\ status' = "completed"
            /\ outcome' = "imported"

\* CrawlRequest#mark_failed
Fail == /\ outcome = "none"
        /\ status \in {"pending", "processing", "cancelled"}
        /\ status' = "failed"
        /\ outcome' = "failed"

\* CrawlRequest#mark_cancelled
Cancel == /\ status' = "cancelled"
          /\ UNCHANGED outcome

Next == Begin \/ Complete \/ Fail \/ Cancel

Spec == Init /\ [][Next]_vars
=============================================================================

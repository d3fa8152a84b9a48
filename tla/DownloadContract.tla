-------------------------- MODULE DownloadContract --------------------------
(***************************************************************************)
(* What the download engine promises to the rest of the terminal, and what *)
(* it does not.  A caller of startDownload hands over a url and a callback *)
(* (OnDownload) and later sees two things: the file on the flash, and the  *)
(* call onDownloadFinished.  The promise is about how they relate: the     *)
(* call is made only while the whole file is there, and a file that is     *)
(* whole is never damaged by later work on the same url.  That the call    *)
(* comes at all, or comes once, is not promised.                           *)
(***************************************************************************)
CONSTANTS
  Urls,      (* the urls, one file of the media directory each             *)
  Requests,  (* the calls of startDownload, one callback object each       *)
  UrlOf      (* the url a request names                                    *)

VARIABLES
  content,   (* content[u]: how much of the file of u is right             *)
  reported   (* the requests whose onDownloadFinished has been called      *)

vars == <<content, reported>>

Contents == {"none", "part", "whole"}

TypeOK ==
  /\ content \in [Urls -> Contents]
  /\ reported \subseteq Requests

Init ==
  /\ content = [u \in Urls |-> "none"]
  /\ reported = {}

\* Bytes arrive: the file grows, and may now be whole.
Receive(u) ==
  /\ content[u] # "whole"
  /\ \E c \in {"part", "whole"} : content' = [content EXCEPT ![u] = c]
  /\ UNCHANGED reported

\* The callback of a request fires, the first time or again.
Report(r) ==
  /\ content[UrlOf[r]] = "whole"
  /\ reported' = reported \cup {r}
  /\ UNCHANGED content

Next ==
  \/ \E u \in Urls : Receive(u)
  \/ \E r \in Requests : Report(r)

Spec == Init /\ [][Next]_vars
=============================================================================

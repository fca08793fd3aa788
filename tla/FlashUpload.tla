----------------------------- MODULE FlashUpload -----------------------------
(***************************************************************************)
(* What an upload promises of the flash of a board: its pages are written  *)
(* one after the other from page 0 on and no other page is touched, it may *)
(* be given up anywhere, and it is called written only when every one of   *)
(* its pages is there.                                                     *)
(***************************************************************************)
EXTENDS Integers, Sequences

CONSTANTS
  PageNumbers,  \* the pages the flash has, counted from 0
  Pages         \* what may be in a page

VARIABLES
  flash,   \* flash[n]: the contents of page n
  upload   \* the upload: its status, its pages, and how many of them are written

uploadVars == <<flash, upload>>

NoUpload == [status |-> "none", pages |-> <<>>, done |-> 0]

Init ==
  /\ flash \in [PageNumbers -> Pages]
  /\ upload = NoUpload

Begin ==
  /\ upload.status = "none"
  /\ upload'.pages \in Seq(Pages)
  /\ upload' = [status |-> "writing", pages |-> upload'.pages, done |-> 0]
  /\ UNCHANGED flash

\* Whoever writes a page may think that this failed.
WritePage ==
  /\ upload.status = "writing"
  /\ upload.done < Len(upload.pages)
  /\ flash' = [flash EXCEPT ![upload.done] = upload.pages[upload.done + 1]]
  /\ upload' \in {[upload EXCEPT !.done = @ + 1], NoUpload}

Finish ==
  /\ upload.status = "writing"
  /\ upload.done = Len(upload.pages)
  /\ upload' = [upload EXCEPT !.status = "written"]
  /\ UNCHANGED flash

\* An upload is given up, or nobody asks for it any more.
Forget ==
  /\ upload.status # "none"
  /\ upload' = NoUpload
  /\ UNCHANGED flash

Next == Begin \/ WritePage \/ Finish \/ Forget

Spec == Init /\ [][Next]_uploadVars
=============================================================================

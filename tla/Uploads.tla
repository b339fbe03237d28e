------------------------------ MODULE Uploads ------------------------------
(***************************************************************************)
(* File uploads.  An upload locates the page it is for, has the native     *)
(* host list and digest the files, waits for the consent of the user,      *)
(* has the host copy the listed files, looks at the page once more and     *)
(* hands the copies to it.  A call for a file input names a node of one    *)
(* document; a drag names a point, and is dropped on whatever the tab then *)
(* shows there.  The copies stay on disk until the tab closes or changes   *)
(* its address, a timer of the host runs out, or the host stops.           *)
(*                                                                         *)
(* Contents are numbered, and so are the documents and addresses a tab     *)
(* shows: they change by becoming the next number.                         *)
(***************************************************************************)
EXTENDS Integers, FiniteSets

CONSTANTS UploadCalls,    \* the calls that hand a file to a page
          DragCalls,      \* those that drag it; the others fill a file input
          UploadTabs,
          TabOf,          \* the tab a call is for
          QuestionLimit,  \* questions that may be open at a time
          MaxChanges      \* bounds what happens around the calls

ASSUME UploadAssumption ==
  /\ IsFiniteSet(UploadCalls) /\ DragCalls \subseteq UploadCalls /\ TabOf \in [UploadCalls -> UploadTabs]
  /\ QuestionLimit \in Nat /\ MaxChanges \in Nat

VARIABLES upload,    \* each call: its step, the page and the contents it is for
          copies,    \* what the host keeps for a call: nothing, a listing or a copy, of which contents
          holding,  \* the calls whose copies a tab is noted to hold
          given,     \* the contents and the page of what was handed over
          pages,     \* the document and the address each tab shows, none once it is closed
          strayed,   \* calls whose tab changed its address after their last look at it
          file,      \* the present contents of the file
          allowAll,  \* the setting that skips the question
          changes

uploadVars == <<upload, copies, holding, given, pages, strayed, file, allowAll, changes>>

Waiting == {"located", "described", "asked", "approved", "copied", "checked", "handed", "failed"}
Nothing == [is |-> "none", file |-> 0]
NoPage == [doc |-> 0, url |-> 0]
Fresh == [at |-> "idle", page |-> NoPage, file |-> 0]

UploadTypeOK ==
  LET Numbers == 0 .. MaxChanges + 1
      Shown == [doc : Numbers, url : Numbers]
  IN /\ upload \in [UploadCalls -> [at: Waiting \cup {"idle", "over"}, page: Shown, file: Numbers]]
     /\ copies \in [UploadCalls -> [is: {"none", "listed", "copied"}, file: Numbers]]
     /\ holding \subseteq UploadCalls /\ strayed \subseteq UploadCalls
     /\ given \in [UploadCalls -> [page: Shown, file: Numbers]]
     /\ pages \in [UploadTabs -> Shown]
     /\ file \in 1 .. MaxChanges + 1 /\ allowAll \in BOOLEAN /\ changes \in 0 .. MaxChanges

UploadInit ==
  /\ upload = [u \in UploadCalls |-> Fresh]
  /\ copies = [u \in UploadCalls |-> Nothing]
  /\ holding = {} /\ strayed = {}
  /\ given = [u \in UploadCalls |-> [page |-> NoPage, file |-> 0]]
  /\ pages = [t \in UploadTabs |-> [doc |-> 1, url |-> 1]]
  /\ file = 1
  /\ allowAll = FALSE
  /\ changes = 0

Held(u) == upload[u].at \in Waiting
Asked == {u \in UploadCalls : upload[u].at = "asked"}
To(u, step) == upload' = [upload EXCEPT ![u].at = step]

(***************************************************************************)
(* The call.  Calls for one tab wait for each other; between two steps of  *)
(* a call anything else may happen.                                        *)
(***************************************************************************)

\* The page is located; its address is what the user will be shown.
LocatePage(u) ==
  /\ upload[u].at = "idle" /\ pages[TabOf[u]] # NoPage
  /\ \A v \in UploadCalls : Held(v) => TabOf[v] # TabOf[u]
  /\ upload' = [upload EXCEPT ![u].at = "located", ![u].page = pages[TabOf[u]]]
  /\ UNCHANGED <<copies, holding, given, pages, strayed, file, allowAll, changes>>

\* The host resolves the path, digests the contents and gives out a token.
Describe(u) ==
  /\ upload[u].at = "located"
  /\ upload' = [upload EXCEPT ![u].at = "described", ![u].file = file]
  /\ copies' = [copies EXCEPT ![u] = [is |-> "listed", file |-> file]]
  /\ UNCHANGED <<holding, given, pages, strayed, file, allowAll, changes>>

\* The setting is read, and with no room for another question the call fails.
Consent(u) ==
  /\ upload[u].at = "described"
  /\ To(u, IF allowAll THEN "approved"
           ELSE IF Cardinality(Asked) >= QuestionLimit THEN "failed" ELSE "asked")
  /\ UNCHANGED <<copies, holding, given, pages, strayed, file, allowAll, changes>>

\* The user answers, closes the window or lets the question time out.
Settle(u, step) ==
  /\ upload[u].at = "asked" /\ step \in {"approved", "failed"}
  /\ To(u, step)
  /\ UNCHANGED <<copies, holding, given, pages, strayed, file, allowAll, changes>>

\* The host copies the file, once, and digests the copy.
Snapshot_Unchecked(u) ==
  /\ upload[u].at = "approved"
  /\ IF copies[u].is = "listed"
     THEN To(u, "copied") /\ copies' = [copies EXCEPT ![u] = [is |-> "copied", file |-> file]]
     ELSE To(u, "failed") /\ UNCHANGED copies
  /\ UNCHANGED <<holding, given, pages, strayed, file, allowAll, changes>>
Snapshot(u) ==
  /\ upload[u].at = "approved"
  /\ IF copies[u] = [is |-> "listed", file |-> file]
     THEN To(u, "copied") /\ copies' = [copies EXCEPT ![u].is = "copied"]
     ELSE To(u, "failed") /\ copies' = [copies EXCEPT ![u] = Nothing]
  /\ UNCHANGED <<holding, given, pages, strayed, file, allowAll, changes>>

\* After the wait the tab must still have the address that was located, and a
\* file input must still be in its document; another document may have been
\* loaded from the same address under a drag.
CheckPage(u) ==
  LET now == pages[TabOf[u]]
      same == now.url = upload[u].page.url /\ (u \in DragCalls \/ now.doc = upload[u].page.doc)
  IN /\ upload[u].at = "copied"
     /\ To(u, IF same THEN "checked" ELSE "failed")
     /\ UNCHANGED <<copies, holding, given, pages, strayed, file, allowAll, changes>>

\* The browser hands the copies to the element, which dies with its document, or
\* drops them at the point, on what is there now; the host may have dropped them
\* meanwhile.
HandOver(u) ==
  LET now == pages[TabOf[u]]
      reached == now # NoPage /\ (u \in DragCalls \/ now.doc = upload[u].page.doc)
  IN /\ upload[u].at = "checked"
     /\ IF reached /\ copies[u].is = "copied"
        THEN /\ To(u, "handed")
             /\ given' = [given EXCEPT ![u] = [page |-> now, file |-> copies[u].file]]
        ELSE To(u, "failed") /\ UNCHANGED given
     /\ UNCHANGED <<copies, holding, pages, strayed, file, allowAll, changes>>

\* The answer of the browser arrives, and the tab is noted as holding the copies.
NoteAttached(u) ==
  /\ upload[u].at = "handed"
  /\ To(u, "over") /\ holding' = holding \cup {u}
  /\ UNCHANGED <<copies, given, pages, strayed, file, allowAll, changes>>

\* A call that failed releases what the host keeps for it.
Release_Nothing(u) ==
  /\ upload[u].at = "failed" /\ To(u, "over")
  /\ UNCHANGED <<copies, holding, given, pages, strayed, file, allowAll, changes>>
Release(u) ==
  /\ upload[u].at = "failed" /\ To(u, "over")
  /\ copies' = [copies EXCEPT ![u] = Nothing]
  /\ UNCHANGED <<holding, given, pages, strayed, file, allowAll, changes>>

(***************************************************************************)
(* What happens around the calls, MaxChanges times at most.                *)
(***************************************************************************)

Change == changes < MaxChanges /\ changes' = changes + 1

\* The copies a tab is noted to hold are released.
ReleaseTab(t) ==
  LET held == {u \in holding : TabOf[u] = t}
  IN /\ holding' = holding \ held
     /\ copies' = [u \in UploadCalls |-> IF u \in held THEN Nothing ELSE copies[u]]

\* A tab is closed, goes to another address, is reloaded, or its page changes the
\* address it shows.  Chrome reports a change of the address, not a reload.
NextPages(p) ==
  {NoPage} \cup {[doc |-> p.doc + new[1], url |-> p.url + new[2]] : new \in {<<1, 1>>, <<1, 0>>, <<0, 1>>}}
LeavePage(t, page) ==
  /\ Change /\ pages[t] # NoPage
  /\ pages' = [pages EXCEPT ![t] = page]
  /\ IF page.url = pages[t].url THEN UNCHANGED <<copies, holding, strayed>>
     ELSE /\ ReleaseTab(t)
          /\ strayed' = strayed \cup {u \in UploadCalls : TabOf[u] = t /\ upload[u].at = "checked"}
  /\ UNCHANGED <<upload, given, file, allowAll>>

EditFile ==
  /\ Change /\ file' = file + 1
  /\ UNCHANGED <<upload, copies, holding, given, pages, strayed, allowAll>>

SetAllowAll ==
  /\ Change /\ allowAll' = ~ allowAll
  /\ UNCHANGED <<upload, copies, holding, given, pages, strayed, file>>

\* A timer of the host: two minutes for a listing, a day for a copy.
HostTimer(u) ==
  /\ Change /\ copies[u] # Nothing
  /\ copies' = [copies EXCEPT ![u] = Nothing]
  /\ UNCHANGED <<upload, holding, given, pages, strayed, file, allowAll>>

\* A host that exits removes everything it keeps.
HostExits ==
  /\ Change /\ copies' = [u \in UploadCalls |-> Nothing]
  /\ UNCHANGED <<upload, holding, given, pages, strayed, file, allowAll>>

UploadNext ==
  \/ \E u \in UploadCalls : \/ LocatePage(u) \/ Describe(u) \/ Consent(u)
                            \/ Settle(u, "approved") \/ Settle(u, "failed") \/ Snapshot(u)
                            \/ CheckPage(u) \/ HandOver(u) \/ NoteAttached(u) \/ Release(u)
                            \/ HostTimer(u)
  \/ \E t \in UploadTabs : \E page \in NextPages(pages[t]) : LeavePage(t, page)
  \/ EditFile \/ SetAllowAll \/ HostExits

UploadSpec == UploadInit /\ [][UploadNext]_uploadVars

(***************************************************************************)
(* Properties                                                              *)
(***************************************************************************)

\* What is handed over is what the host listed for the user.  A file input gets it
\* in the document the upload was located in; a drag at the address that was located
\* and shown to the user, unless the tab left it after the last look.
GivenAsListed ==
  \A u \in UploadCalls : given[u].file # 0 =>
    /\ given[u].file = upload[u].file
    /\ u \notin DragCalls => given[u].page.doc = upload[u].page.doc
    /\ u \in DragCalls => given[u].page.url = upload[u].page.url \/ u \in strayed

\* What the host keeps is for a call under way or noted for a tab, so that the call
\* or the tab releases it.
CopiesAccounted ==
  \A u \in UploadCalls : copies[u] # Nothing => Held(u) \/ u \in holding

\* No more questions are open than the limit, however the calls interleave.
QuestionsBounded == Cardinality(Asked) <= QuestionLimit

\* Pages get the files that were listed, files are kept for a call or a tab only, and
\* questions stay within their limit.
UploadsSound == GivenAsListed /\ CopiesAccounted /\ QuestionsBounded

\* Not true: a drag is dispatched by coordinates after the last look at the tab
\* (upload-gate.ts:42-47), so that the page dropped on may be one the user was not
\* shown, and the document may have been replaced even before the look.
DragsLandWhereLocated ==
  \A u \in DragCalls : given[u].file # 0 => given[u].page = upload[u].page

\* Not true: a page that is left between the hand-over and the note of it is noted
\* afterwards, and one that is reloaded is not reported; the copies stay until the
\* timer of a day.
CopiesFollowPages ==
  \A u \in holding : pages[TabOf[u]].doc = given[u].page.doc

\* Not true: a host that is replaced removes copies the page has not yet read, and so
\* does a page that changes the address it shows (upload-consent.ts:23).
AttachedSurvives ==
  \A u \in UploadCalls :
    upload[u].at = "over" /\ given[u].file # 0 /\ pages[TabOf[u]].doc = given[u].page.doc => copies[u].is = "copied"
=============================================================================

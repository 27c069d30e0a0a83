----------------------------- MODULE ProfilePage -----------------------------
(***************************************************************************)
(* The profile page of one tab (apps/web account/profile.tsx): a form for  *)
(* the personal details and an upload for the photo, whose answers are     *)
(* merged into the query's cache before it is fetched again.  The answer   *)
(* of the form holds the whole row as it was then, the photo included.     *)
(***************************************************************************)
CONSTANTS Details, Photos,
          Nothing

ASSUME ProfileAssumption == Nothing \notin Details \cup Photos

VARIABLES row,      \* the user's row
          view,     \* what the cache holds
          save,     \* the form's mutation: at, what it sends, what is answered
          upload,   \* the photo's mutation
          query,    \* the request: at, what it read, and whether nothing is missing from it
          doubtful  \* the row has changed unseen, or a fetch has failed, since the last fetch

profileVars == <<row, view, save, upload, query, doubtful>>

User     == [details : Details, photo : Photos]
Unseen   == [details |-> Nothing, photo |-> Nothing]
NoSave   == [at |-> "idle", sends |-> Nothing, answer |-> Unseen]
NoUpload == [at |-> "idle", sends |-> Nothing]
NoQuery  == [at |-> "none", read |-> Unseen, sure |-> FALSE]
Asked    == [NoQuery EXCEPT !.at = "asked"]

ProfileInit == /\ row \in User /\ view = Unseen
               /\ save = NoSave /\ upload = NoUpload /\ query = NoQuery
               /\ doubtful = TRUE

----------------------------------------------------------------------------
AskProfile == /\ query.at = "none" /\ query' = Asked
              /\ UNCHANGED <<row, view, save, upload, doubtful>>

ReadProfile == /\ query.at = "asked"
               /\ query' = [at |-> "read", read |-> row, sure |-> TRUE]
               /\ UNCHANGED <<row, view, save, upload, doubtful>>

ProfileRead == /\ query.at = "read"
               /\ view' = query.read /\ doubtful' = ~query.sure /\ query' = NoQuery
               /\ UNCHANGED <<row, save, upload>>

QueryFails == /\ query.at # "none"
              /\ query' = NoQuery /\ doubtful' = TRUE
              /\ UNCHANGED <<row, view, save, upload>>

\* Another tab writes the row.
OtherTabSaves(u) == /\ row' = u /\ u # row
                    /\ query' = [query EXCEPT !.sure = FALSE] /\ doubtful' = TRUE
                    /\ UNCHANGED <<view, save, upload>>

----------------------------------------------------------------------------
(* The form.                                                               *)

ClickSave(d) == /\ view # Unseen /\ save = NoSave
                /\ save' = [NoSave EXCEPT !.at = "sent", !.sends = d]
                /\ UNCHANGED <<row, view, upload, query, doubtful>>

UpdateProfile == /\ save.at = "sent"
                 /\ row' = [row EXCEPT !.details = save.sends]
                 /\ save' = [save EXCEPT !.at = "done", !.answer = row']
                 /\ UNCHANGED <<view, upload, query, doubtful>>

\* Mutant: the answer is merged, and the query not asked again.
SaveAnswered_NoRefetch == /\ save.at = "done"
                          /\ view' = save.answer /\ save' = NoSave
                          /\ UNCHANGED <<row, upload, query, doubtful>>

SaveAnswered == /\ save.at = "done"
                /\ view' = save.answer /\ save' = NoSave /\ query' = Asked
                /\ UNCHANGED <<row, upload, doubtful>>

\* An error, or an answer that is lost after the row is written.
SaveFails == /\ save # NoSave /\ save' = NoSave
             /\ IF save.at = "done"
                THEN doubtful' = TRUE /\ query' = [query EXCEPT !.sure = FALSE]
                ELSE UNCHANGED <<query, doubtful>>
             /\ UNCHANGED <<row, view, upload>>

----------------------------------------------------------------------------
(* The photo: at most 4 MB, of three types.                                *)

ChoosePhoto(p) == /\ view # Unseen /\ upload = NoUpload
                  /\ upload' = [at |-> "sent", sends |-> p]
                  /\ UNCHANGED <<row, view, save, query, doubtful>>

UpdateAvatar == /\ upload.at = "sent"
                /\ row' = [row EXCEPT !.photo = upload.sends]
                /\ upload' = [upload EXCEPT !.at = "done"]
                /\ UNCHANGED <<view, save, query, doubtful>>

UploadAnswered == /\ upload.at = "done"
                  /\ view' = [view EXCEPT !.photo = upload.sends]
                  /\ upload' = NoUpload /\ query' = Asked
                  /\ UNCHANGED <<row, save, doubtful>>

UploadFails == /\ upload # NoUpload /\ upload' = NoUpload
               /\ IF upload.at = "done"
                  THEN doubtful' = TRUE /\ query' = [query EXCEPT !.sure = FALSE]
                  ELSE UNCHANGED <<query, doubtful>>
               /\ UNCHANGED <<row, view, save>>

ProfileNext ==
    \/ AskProfile \/ ReadProfile \/ ProfileRead \/ QueryFails
    \/ \E u \in User : OtherTabSaves(u)
    \/ \E d \in Details : ClickSave(d) \/ \E p \in Photos : ChoosePhoto(p)
    \/ UpdateProfile \/ SaveAnswered \/ SaveFails
    \/ UpdateAvatar \/ UploadAnswered \/ UploadFails

ProfileSpec == ProfileInit /\ [][ProfileNext]_profileVars

----------------------------------------------------------------------------
\* Whatever order the answers of the form and of the photo come in, the page and
\* the header show the row when everything has come to rest, the older photo that
\* the form's answer held included (the onSuccess callbacks of AccountProfile).
ProfileSettles ==
    save = NoSave /\ upload = NoUpload /\ query = NoQuery /\ ~doubtful => view = row
=============================================================================

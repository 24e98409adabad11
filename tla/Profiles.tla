------------------------------ MODULE Profiles ------------------------------
(***************************************************************************)
(* The picture and the details of an account, app/modules/users, and the   *)
(* files pictures are, app/modules/media.  A file is no row: storing and   *)
(* removing one is no part of a transaction, and a request may die between *)
(* the two.  An edit of the account may name any address as its picture.   *)
(***************************************************************************)
EXTENDS Calls

CONSTANTS
    Owners,     \* accounts that are not deleted
    Uploads     \* files stored or to be stored: every upload has a fresh name

VARIABLES
    pictures,   \* users.avatar_url
    uploads,
    details     \* user_details: the row of an account, by number

profileVars == <<pictures, uploads, details>>

Elsewhere == "elsewhere"    \* an address that is no file of the storage's
Addressable == Uploads \cup {Elsewhere}

\* NULL is no address.
ASSUME AddressAssumption == None \notin Addressable /\ Elsewhere \notin Uploads

ProfileTypeOK == /\ pictures \in [Owners -> Addressable \cup {None}]
                 /\ uploads \in [Uploads -> {"unnamed", "stored", "removed"}]
                 /\ details \in [Owners -> Nat \cup {None}]

(***************************************************************************)
(* Pictures.                                                               *)
(***************************************************************************)
\* set_avatar, from the row to the file: the new one is stored first.
SetAvatar(r, o) == Begin(r, [op |-> "upload", id |-> o, old |-> pictures[o]])

\* Mutant: the old file makes room for the new one.
StoreUploadInPlace(r) ==
    /\ Doing(r, "upload")
    /\ \E u \in Uploads :
         /\ uploads[u] = "unnamed"
         /\ uploads' = [v \in Uploads |-> IF v = u THEN "stored"
                                          ELSE IF v = call[r].old THEN "removed" ELSE uploads[v]]
         /\ call' = [call EXCEPT ![r] = [op |-> "point", id |-> call[r].id,
                                         set |-> u, old |-> call[r].old]]
    /\ UNCHANGED <<load, made, pictures, details>>

\* ImageUploadService.upload; one it rejects ends the request.
StoreUpload(r) ==
    /\ Doing(r, "upload")
    /\ \E u \in Uploads :
         /\ uploads[u] = "unnamed"
         /\ uploads' = [uploads EXCEPT ![u] = "stored"]
         /\ call' = [call EXCEPT ![r] = [op |-> "point", id |-> call[r].id,
                                         set |-> u, old |-> call[r].old]]
    /\ UNCHANGED <<load, made, pictures, details>>

ClearAvatar(r, o) ==
    /\ pictures[o] # None
    /\ Begin(r, [op |-> "point", id |-> o, set |-> None, old |-> pictures[o]])

\* The row is committed; only then is the old file looked at.
PointPicture(r) ==
    /\ Doing(r, "point")
    /\ LET c == call[r]
       IN  /\ pictures' = [pictures EXCEPT ![c.id] = c.set]
           /\ call' = [call EXCEPT ![r] = [op |-> "discard", id |-> c.id, old |-> c.old]]
    /\ UNCHANGED <<load, made, uploads, details>>

\* ImageUploadService.delete: an address of another origin is left alone, a
\* file that is missing is no error.
Discard(r) ==
    /\ Doing(r, "discard")
    /\ uploads' = IF call[r].old \in Uploads THEN [uploads EXCEPT ![call[r].old] = "removed"]
                  ELSE uploads
    /\ UNCHANGED <<pictures, details>>
    /\ End(r)

\* UserUpdate.avatar_url, and the same column of a new account.
EditPicture(r, o, url) ==
    /\ url \in Uploads => uploads[url] # "unnamed"
    /\ url # pictures[o]
    /\ Begin(r, [op |-> "edit", id |-> o, set |-> url])

WritePicture(r) == /\ Doing(r, "edit")
                   /\ pictures' = [pictures EXCEPT ![call[r].id] = call[r].set]
                   /\ UNCHANGED <<uploads, details>>
                   /\ End(r)

(***************************************************************************)
(* Details: at most one row per account.                                   *)
(***************************************************************************)
CreateDetails(r, o) == /\ details[o] = None
                       /\ Begin(r, [op |-> "details", id |-> o, was |-> None, row |-> made])

\* upsert: the row that is there, or a new one.
UpdateDetails(r, o) == /\ details[o] # None
                       /\ Begin(r, [op |-> "details", id |-> o,
                                    was |-> details[o], row |-> details[o]])

DeleteDetails(r, o) == /\ details[o] # None
                       /\ Begin(r, [op |-> "details", id |-> o,
                                    was |-> details[o], row |-> None])

\* The unique index, and the UPDATE of a row that may be gone; a DELETE of
\* one that is gone does nothing.
WriteDetails(r) ==
    /\ Doing(r, "details")
    /\ LET c == call[r]
       IN  /\ c.row # None => details[c.id] = c.was
           /\ details' = IF details[c.id] = c.was THEN [details EXCEPT ![c.id] = c.row]
                         ELSE details
    /\ UNCHANGED <<pictures, uploads>>
    /\ End(r)

(***************************************************************************)
(* The specification.                                                      *)
(***************************************************************************)
ProfileInit == /\ pictures \in [Owners -> {None, Elsewhere}]
               /\ uploads = [u \in Uploads |-> "unnamed"]
               /\ details = [o \in Owners |-> None]

PictureCalls(r, o) ==
    \/ SetAvatar(r, o) \/ ClearAvatar(r, o)
    \/ \E url \in Addressable \cup {None} : EditPicture(r, o, url)

DetailCalls(r, o) == CreateDetails(r, o) \/ UpdateDetails(r, o) \/ DeleteDetails(r, o)

ProfileNext == \E r \in Requests : \/ /\ \E o \in Owners : PictureCalls(r, o) \/ DetailCalls(r, o)
                                      /\ UNCHANGED profileVars
                                   \/ StoreUpload(r) \/ PointPicture(r) \/ Discard(r)
                                   \/ WritePicture(r) \/ WriteDetails(r)
                                   \/ Die(r) /\ UNCHANGED profileVars

ProfileSpec == CallsInit /\ ProfileInit /\ [][ProfileNext]_<<callVars, profileVars>>

(***************************************************************************)
(* Properties.                                                             *)
(***************************************************************************)
Shows(o) == pictures[o] \in Uploads => uploads[pictures[o]] = "stored"

\* set_avatar: "a stale orphaned file is a much smaller problem than a user
\* record briefly pointing at nothing".  While calls do not overlap, wherever
\* an upload or a removal fails half way, the account it is for never points
\* at a file that is gone; only an edit that names an address can bring an
\* account there, or leave two accounts with one file.
PictureOutlivesPointer ==
    [][Alone => \A o \in Owners : Shows(o) /\ ~Shows(o)' =>
          \E r \in Requests : Doing(r, "edit") \/ (call[r] # None /\ call[r].id # o)
      ]_<<callVars, profileVars>>
=============================================================================

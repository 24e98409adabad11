-------------------------- MODULE SiteContentProofs --------------------------
(***************************************************************************)
(* Proofs about the parts of Site that keep what the site shows: pictures  *)
(* and their files (Profiles), records and their answers (MasterData),     *)
(* articles (Publishing), and the trees of categories and menu items       *)
(* (CategoryTree, MenuTree), for any rows and any loads; and, at the end,  *)
(* that every table of the site holds rows of its kind.                    *)
(***************************************************************************)
EXTENDS SiteOfficeProofs

-----------------------------------------------------------------------------
(* Pictures.                                                               *)

\* A file that x names was stored once.
Named(x) == x \in Uploads => uploads[x] # "unnamed"

\* What a call on pictures and details carries.
ProfileCallOK(c) ==
    /\ c.op \in {"upload", "point", "discard", "edit", "details"}
    /\ c.id \in Owners
    /\ c.op = "upload" => Named(c.old)
    /\ c.op \in {"point", "edit"} => c.set \in Addressable \cup {None} /\ Named(c.set)
    /\ c.op = "point" => c.set # c.old
    /\ c.op = "details" => c.row \in Nat \cup {None}

\* An account shows no file that was not stored once.
ProfileInv == /\ ProfileTypeOK
              /\ \A o \in Owners : Named(pictures[o])
              /\ \A r \in Requests : call[r] # None => ProfileCallOK(call[r])

\* What a call knows while no other call can write: the file it is to point at
\* is there, and the file it is to remove is the account's no more.
ProfileKnows(c) ==
    /\ c.op = "point" /\ c.set \in Uploads => uploads[c.set] = "stored"
    /\ c.op = "discard" /\ c.old \in Uploads => pictures[c.id] # c.old

ShownInv == Alone => \A r \in Requests : call[r] # None => ProfileKnows(call[r])

\* A step of one request, on files that are not unnamed again and rows of their
\* table: what the other requests' calls carry stays in order.
LEMMA ProfileMoves ==
    ASSUME CallsInv, ProfileInv, ShownInv, NEW r \in Requests, NEW c, Moves(r, c),
           r \in load.crowd, ProfileTypeOK', \A o \in Owners : Named(pictures[o])',
           \A u \in Uploads : uploads[u] # "unnamed" => uploads'[u] # "unnamed",
           c = None \/ (ProfileCallOK(c)' /\ (Alone => ProfileKnows(c)'))
    PROVE  CallsStep /\ ProfileInv' /\ ShownInv'
<1>1. call'[r] = c /\ (\A q \in Requests \ {r} : call'[q] = call[q]) /\ load' = load BY Moved
<1>2. ASSUME NEW q \in Requests, call'[q] # None PROVE ProfileCallOK(call[q])'
  <2>1. CASE q = r BY <1>1, <1>2, <2>1
  <2>2. CASE q # r
    <3>1. call'[q] = call[q] /\ ProfileCallOK(call[q]) BY <1>1, <1>2, <2>2 DEF ProfileInv
    <3>2. QED BY <3>1 DEF ProfileCallOK, Named
  <2>3. QED BY <2>1, <2>2
<1>3. ProfileInv' BY <1>2 DEF ProfileInv
<1>4. ASSUME Alone, NEW q \in Requests, call'[q] # None PROVE ProfileKnows(call[q])'
  <2>1. q = r
    <3>1. IsFiniteSet(load.crowd) BY LoadsAssumption DEF CallsInv
    <3>2. PICK x : load.crowd = {x} BY <1>4, <3>1, FS_Singleton DEF Alone
    <3>3. q = r \/ q \in load.crowd BY <1>1, <1>4 DEF CallsInv
    <3>4. QED BY <3>2, <3>3
  <2>2. QED BY <2>1, <1>1, <1>4
<1>5. ShownInv' BY <1>1, <1>4 DEF ShownInv, Alone
<1>6. QED BY <1>3, <1>5 DEF CallsStep

\* A call begins: on files that were stored once.
LEMMA ProfileBegins ==
    ASSUME CallsInv, ProfileInv, ShownInv, NEW r \in Requests, NEW o \in Owners,
           PictureCalls(r, o) \/ DetailCalls(r, o), UNCHANGED profileVars
    PROVE  CallsStep /\ ProfileInv' /\ ShownInv'
<1>1. UNCHANGED <<pictures, uploads, details>> BY DEF profileVars
<1>2. ProfileTypeOK' /\ made \in Nat /\ details[o] \in Nat \cup {None}
      /\ pictures[o] \in Addressable \cup {None}
  BY <1>1 DEF ProfileInv, ProfileTypeOK, CallsInv
<1>3. \A p \in Owners : Named(pictures[p])' BY <1>1 DEF ProfileInv, Named
<1>4. ASSUME NEW c, Begin(r, c), ProfileCallOK(c), c.op # "discard",
             c.op = "point" => c.set \notin Uploads
      PROVE  CallsStep /\ ProfileInv' /\ ShownInv'
  <2>1. Moves(r, c) /\ r \in load.crowd BY <1>4, BeginMoves DEF Begin
  <2>2. ProfileCallOK(c)' BY <1>1, <1>4 DEF ProfileCallOK, Named
  <2>3. ProfileKnows(c)' BY <1>1, <1>4 DEF ProfileKnows
  <2>4. QED BY <1>1, <1>2, <1>3, <2>1, <2>2, <2>3, ProfileMoves
<1>5. Named(None) /\ None \notin Uploads BY AddressAssumption DEF Named, Addressable
<1>6. ASSUME PictureCalls(r, o) PROVE CallsStep /\ ProfileInv' /\ ShownInv'
  <2>1. CASE SetAvatar(r, o)
    <3>1. PICK c : c = [op |-> "upload", id |-> o, old |-> pictures[o]] OBVIOUS
    <3>2. Begin(r, c) BY <2>1, <3>1 DEF SetAvatar
    <3>3. ProfileCallOK(c) BY <3>1 DEF ProfileCallOK, ProfileInv
    <3>4. QED BY <1>4, <3>1, <3>2, <3>3
  <2>2. CASE ClearAvatar(r, o)
    <3>1. PICK c : c = [op |-> "point", id |-> o, set |-> None, old |-> pictures[o]] OBVIOUS
    <3>2. Begin(r, c) /\ pictures[o] # None BY <2>2, <3>1 DEF ClearAvatar
    <3>3. ProfileCallOK(c) BY <1>5, <3>1, <3>2 DEF ProfileCallOK
    <3>4. QED BY <1>4, <1>5, <3>1, <3>2, <3>3
  <2>3. ASSUME NEW url \in Addressable \cup {None}, EditPicture(r, o, url)
        PROVE  CallsStep /\ ProfileInv' /\ ShownInv'
    <3>1. PICK c : c = [op |-> "edit", id |-> o, set |-> url] OBVIOUS
    <3>2. Begin(r, c) /\ Named(url) BY <2>3, <3>1 DEF EditPicture, Named
    <3>3. ProfileCallOK(c) BY <3>1, <3>2 DEF ProfileCallOK
    <3>4. QED BY <1>4, <3>1, <3>2, <3>3
  <2>4. QED BY <1>6, <2>1, <2>2, <2>3 DEF PictureCalls
<1>7. ASSUME DetailCalls(r, o) PROVE CallsStep /\ ProfileInv' /\ ShownInv'
  <2>1. PICK was, row \in Nat \cup {None} :
              Begin(r, [op |-> "details", id |-> o, was |-> was, row |-> row])
    BY <1>2, <1>7 DEF DetailCalls, CreateDetails, UpdateDetails, DeleteDetails
  <2>2. PICK c : c = [op |-> "details", id |-> o, was |-> was, row |-> row] OBVIOUS
  <2>3. ProfileCallOK(c) BY <2>2 DEF ProfileCallOK
  <2>4. QED BY <1>4, <2>1, <2>2, <2>3
<1>8. QED BY <1>6, <1>7

\* A picture is stored: the account's old one is another file.
LEMMA StoreUploadKeeps ==
    ASSUME CallsInv, ProfileInv, ShownInv, NEW r \in Requests, StoreUpload(r)
    PROVE  /\ CallsStep /\ ProfileInv' /\ ShownInv'
           /\ \A o \in Owners : Shows(o) => Shows(o)'
<1>1. PICK u \in Uploads :
         /\ uploads[u] = "unnamed" /\ uploads' = [uploads EXCEPT ![u] = "stored"]
         /\ call' = [call EXCEPT ![r] = [op |-> "point", id |-> call[r].id,
                                         set |-> u, old |-> call[r].old]]
         /\ UNCHANGED <<load, made, pictures, details>>
  BY DEF StoreUpload
<1>2. PICK old, c : c = call[r] /\ old = c.old OBVIOUS
<1>3. PICK next : next = [op |-> "point", id |-> c.id, set |-> u, old |-> old] OBVIOUS
<1>4. c # None /\ c.op = "upload" /\ c.id \in Owners /\ Named(old) /\ r \in load.crowd
  BY <1>2 DEF StoreUpload, Doing, ProfileInv, ProfileCallOK, CallsInv
<1>5. Moves(r, next) BY <1>1, <1>2, <1>3, <1>4 DEF Moves, CallsInv
<1>6. uploads \in [Uploads -> {"unnamed", "stored", "removed"}]
  BY DEF ProfileInv, ProfileTypeOK
<1>7. ProfileTypeOK' BY <1>1, <1>6 DEF ProfileInv, ProfileTypeOK
<1>8. uploads'[u] = "stored" /\ \A v \in Uploads \ {u} : uploads'[v] = uploads[v]
  BY <1>1, <1>6
<1>9. \A o \in Owners : Named(pictures[o])' BY <1>1, <1>8 DEF ProfileInv, Named
<1>10. u # old BY <1>1, <1>4 DEF Named
<1>11. ProfileCallOK(next)' /\ ProfileKnows(next)'
  BY <1>3, <1>4, <1>8, <1>10 DEF ProfileCallOK, ProfileKnows, Named, Addressable
<1>12. \A v \in Uploads : uploads[v] # "unnamed" => uploads'[v] # "unnamed" BY <1>8
<1>13. CallsStep /\ ProfileInv' /\ ShownInv'
  BY <1>4, <1>5, <1>7, <1>9, <1>11, <1>12, ProfileMoves
<1>14. \A o \in Owners : Shows(o) => Shows(o)' BY <1>1, <1>8 DEF Shows
<1>15. QED BY <1>13, <1>14

\* The row points at it, or at nothing.
LEMMA PointPictureKeeps ==
    ASSUME CallsInv, ProfileInv, ShownInv, NEW r \in Requests, PointPicture(r)
    PROVE  /\ CallsStep /\ ProfileInv' /\ ShownInv'
           /\ Alone => \A o \in Owners : Shows(o) => Shows(o)'
<1>1. PICK c : c = call[r] OBVIOUS
<1>2. PICK next : next = [op |-> "discard", id |-> c.id, old |-> c.old] OBVIOUS
<1>3. /\ c # None /\ c.op = "point" /\ r \in load.crowd
      /\ pictures' = [pictures EXCEPT ![c.id] = c.set]
      /\ call' = [call EXCEPT ![r] = next]
      /\ UNCHANGED <<load, made, uploads, details>>
  BY <1>1, <1>2 DEF PointPicture, Doing, CallsInv
<1>4. /\ c.id \in Owners /\ c.set # c.old
      /\ c.set \in Addressable \cup {None} /\ Named(c.set)
  BY <1>1, <1>3 DEF ProfileInv, ProfileCallOK
<1>5. pictures \in [Owners -> Addressable \cup {None}] BY DEF ProfileInv, ProfileTypeOK
<1>6. pictures'[c.id] = c.set /\ \A o \in Owners \ {c.id} : pictures'[o] = pictures[o]
  BY <1>3, <1>4, <1>5
<1>7. Moves(r, next) BY <1>1, <1>3 DEF Moves, CallsInv
<1>8. ProfileTypeOK' BY <1>3, <1>4, <1>5 DEF ProfileInv, ProfileTypeOK
<1>9. \A o \in Owners : Named(pictures[o])' BY <1>3, <1>4, <1>6 DEF ProfileInv, Named
<1>10. ProfileCallOK(next)' /\ ProfileKnows(next)'
  BY <1>2, <1>4, <1>6 DEF ProfileCallOK, ProfileKnows
<1>11. CallsStep /\ ProfileInv' /\ ShownInv'
  BY <1>3, <1>7, <1>8, <1>9, <1>10, ProfileMoves
<1>12. Alone => \A o \in Owners : Shows(o) => Shows(o)'
  BY <1>1, <1>3, <1>6 DEF ShownInv, ProfileKnows, Shows
<1>13. QED BY <1>11, <1>12

\* The old file is removed, when no row of the account points at it any more.
LEMMA DiscardKeeps ==
    ASSUME CallsInv, ProfileInv, ShownInv, NEW r \in Requests, Discard(r)
    PROVE  /\ CallsStep /\ ProfileInv' /\ ShownInv'
           /\ call[r] # None
           /\ Alone => \A o \in Owners : Shows(o) /\ ~Shows(o)' => call[r].id # o
<1>1. PICK c : c = call[r] OBVIOUS
<1>2. /\ c # None /\ c.op = "discard" /\ r \in load.crowd /\ End(r)
      /\ uploads' = IF c.old \in Uploads THEN [uploads EXCEPT ![c.old] = "removed"] ELSE uploads
      /\ pictures' = pictures /\ details' = details
  BY <1>1 DEF Discard, Doing, CallsInv
<1>3. Moves(r, None) BY <1>2, EndMoves
<1>4. uploads \in [Uploads -> {"unnamed", "stored", "removed"}]
  BY DEF ProfileInv, ProfileTypeOK
<1>5. \A u \in Uploads : uploads'[u] = IF u = c.old THEN "removed" ELSE uploads[u]
  BY <1>2, <1>4
<1>6. ProfileTypeOK' BY <1>2, <1>4 DEF ProfileInv, ProfileTypeOK
<1>7. \A o \in Owners : Named(pictures[o])' BY <1>2, <1>5 DEF ProfileInv, Named
<1>8. CallsStep /\ ProfileInv' /\ ShownInv' BY <1>2, <1>3, <1>5, <1>6, <1>7, ProfileMoves
<1>9. ASSUME Alone, NEW o \in Owners, Shows(o), ~Shows(o)' PROVE c.id # o
  <2>1. pictures[o] \in Uploads /\ pictures[o] = c.old BY <1>2, <1>5, <1>9 DEF Shows
  <2>2. QED BY <2>1, <1>1, <1>2, <1>9 DEF ShownInv, ProfileKnows
<1>10. QED BY <1>1, <1>2, <1>8, <1>9

\* An edit of the account or of its details.
LEMMA WriteEditKeeps ==
    ASSUME CallsInv, ProfileInv, ShownInv, NEW r \in Requests,
           WritePicture(r) \/ WriteDetails(r)
    PROVE  CallsStep /\ ProfileInv' /\ ShownInv'
<1>1. PICK c : c = call[r] OBVIOUS
<1>2. c # None /\ End(r) /\ r \in load.crowd /\ uploads' = uploads
  BY <1>1 DEF WritePicture, WriteDetails, Doing, CallsInv
<1>3. Moves(r, None) BY <1>2, EndMoves
<1>4. ProfileTypeOK' /\ \A o \in Owners : Named(pictures[o])'
  <2>1. CASE WritePicture(r)
    <3>1. /\ c.id \in Owners /\ c.set \in Addressable \cup {None} /\ Named(c.set)
          /\ pictures' = [pictures EXCEPT ![c.id] = c.set] /\ details' = details
      BY <1>1, <2>1 DEF WritePicture, Doing, ProfileInv, ProfileCallOK
    <3>2. pictures \in [Owners -> Addressable \cup {None}] BY DEF ProfileInv, ProfileTypeOK
    <3>3. pictures'[c.id] = c.set /\ \A o \in Owners \ {c.id} : pictures'[o] = pictures[o]
      BY <3>1, <3>2
    <3>4. \A o \in Owners : Named(pictures[o])' BY <1>2, <3>1, <3>3 DEF ProfileInv, Named
    <3>5. QED BY <1>2, <3>1, <3>2, <3>4 DEF ProfileInv, ProfileTypeOK
  <2>2. CASE WriteDetails(r)
    <3>1. /\ c.id \in Owners /\ c.row \in Nat \cup {None} /\ pictures' = pictures
          /\ details' = [details EXCEPT ![c.id] = c.row] \/ details' = details
      BY <1>1, <2>2 DEF WriteDetails, Doing, ProfileInv, ProfileCallOK
    <3>2. QED BY <1>2, <3>1 DEF ProfileInv, ProfileTypeOK, Named
  <2>3. QED BY <2>1, <2>2
<1>5. QED BY <1>2, <1>3, <1>4, ProfileMoves

\* Every step of the part.
LEMMA ProfileStep ==
    ASSUME CallsInv, ProfileInv, ShownInv, ProfileNext
    PROVE  CallsStep /\ ProfileInv' /\ ShownInv'
<1>1. ASSUME NEW r \in Requests, Die(r), UNCHANGED profileVars
      PROVE  CallsStep /\ ProfileInv' /\ ShownInv'
  <2>1. UNCHANGED <<pictures, uploads, details>> BY <1>1 DEF profileVars
  <2>2. Moves(r, None) /\ r \in load.crowd BY <1>1, EndMoves DEF Die, CallsInv
  <2>3. ProfileTypeOK' /\ \A o \in Owners : Named(pictures[o])'
    BY <2>1 DEF ProfileInv, ProfileTypeOK, Named
  <2>4. QED BY <2>1, <2>2, <2>3, ProfileMoves
<1>2. QED
  BY <1>1, ProfileBegins, StoreUploadKeeps, PointPictureKeeps, DiscardKeeps, WriteEditKeeps
     DEF ProfileNext

\* A step of the site is one of the part that is on, and leaves the others alone.
LEMMA ProfilePart ==
    ASSUME [SiteNext]_siteVars
    PROVE  /\ On("profiles") => ProfileNext \/ UNCHANGED <<callVars, profileVars>>
           /\ ~On("profiles") => UNCHANGED profileVars
<1>1. CASE UNCHANGED siteVars BY <1>1 DEF siteVars, peopleVars
<1>2. CASE ContentNext /\ UNCHANGED <<peopleVars, officeVars>>
  BY <1>2 DEF ContentNext, peopleVars, On, Kinds
<1>3. CASE PeopleNext /\ UNCHANGED <<treeVars, contentVars, officeVars>>
  BY <1>3 DEF PeopleNext, On
<1>4. CASE OfficeNext /\ UNCHANGED <<treeVars, contentVars, peopleVars>>
  BY <1>4 DEF OfficeNext, peopleVars, On
<1>5. QED BY <1>1, <1>2, <1>3, <1>4 DEF SiteNext

\* The first state of the part.
LEMMA ProfileStarts == ASSUME CallsInit, ProfileInit PROVE CallsInv /\ ProfileInv /\ ShownInv
<1>1. CallsInv /\ \A r \in Requests : call[r] = None BY DEF CallsInit, CallsInv
<1>2. /\ pictures \in [Owners -> {None, Elsewhere}]
      /\ uploads = [u \in Uploads |-> "unnamed"] /\ details = [o \in Owners |-> None]
  BY DEF ProfileInit
<1>3. ProfileTypeOK BY <1>2 DEF ProfileTypeOK, Addressable
<1>4. \A o \in Owners : Named(pictures[o])
  <2>1. \A o \in Owners : pictures[o] \in {None, Elsewhere} BY <1>2
  <2>2. QED BY <2>1, AddressAssumption DEF Named, Addressable
<1>5. QED BY <1>1, <1>3, <1>4 DEF ProfileInv, ShownInv

\* On its part, the invariant holds.
ProfileSite == On("profiles") => CallsInv /\ ProfileInv /\ ShownInv

\* The invariant of the part is one of the site.
LEMMA ProfileHolds == SiteSpec => []ProfileSite
<1>1. SiteInit => ProfileSite BY ProfileStarts DEF ProfileSite, SiteInit, PeopleInit
<1>2. ProfileSite /\ [SiteNext]_siteVars => ProfileSite'
  <2> SUFFICES ASSUME ProfileSite, [SiteNext]_siteVars, On("profiles")' PROVE ProfileSite'
    BY DEF ProfileSite
  <2>1. On("profiles") BY LoadStays DEF On
  <2>2. CallsInv /\ ProfileInv /\ ShownInv BY <2>1 DEF ProfileSite
  <2>3. CASE ProfileNext
    <3>1. CallsInv' /\ ProfileInv' /\ ShownInv' BY <2>2, <2>3, ProfileStep, CallsKept
    <3>2. QED BY <3>1 DEF ProfileSite
  <2>4. CASE UNCHANGED <<callVars, profileVars>>
    <3>1. UNCHANGED <<load, call, made, pictures, uploads, details>>
      BY <2>4 DEF callVars, profileVars
    <3>2. CallsInv' BY <2>2, <3>1 DEF CallsInv
    <3>3. ProfileInv' BY <2>2, <3>1 DEF ProfileInv, ProfileTypeOK, ProfileCallOK, Named
    <3>4. ShownInv' BY <2>2, <3>1 DEF ShownInv, ProfileKnows, Alone
    <3>5. QED BY <3>2, <3>3, <3>4 DEF ProfileSite
  <2>5. QED BY <2>1, <2>3, <2>4, ProfilePart
<1>3. QED BY <1>1, <1>2, PTL DEF SiteSpec

\* While calls do not overlap, wherever an upload or a removal fails half way, the
\* account it is for never points at a file that is gone: only an edit that names
\* an address, or a call for another account with the same file, brings it there.
THEOREM PictureOutlived == SiteSpec => PictureOutlivesPointer
<1> DEFINE Outlives == Alone => \A o \in Owners : Shows(o) /\ ~Shows(o)' =>
          \E r \in Requests : Doing(r, "edit") \/ (call[r] # None /\ call[r].id # o)
<1>1. ProfileSite /\ [SiteNext]_siteVars => [Outlives]_<<callVars, profileVars>>
  <2> SUFFICES ASSUME ProfileSite, [SiteNext]_siteVars, Alone, NEW o \in Owners,
                      Shows(o), ~Shows(o)', ~UNCHANGED <<callVars, profileVars>>
      PROVE  \E r \in Requests : Doing(r, "edit") \/ (call[r] # None /\ call[r].id # o)
    OBVIOUS
  <2>1. ~UNCHANGED <<pictures, uploads>> BY DEF Shows
  <2>2. On("profiles") /\ ProfileNext BY <2>1, ProfilePart DEF profileVars
  <2>3. CallsInv /\ ProfileInv /\ ShownInv BY <2>2 DEF ProfileSite
  <2>4. PICK r \in Requests :
              StoreUpload(r) \/ PointPicture(r) \/ Discard(r) \/ WritePicture(r)
              \/ WriteDetails(r) \/ UNCHANGED profileVars
    BY <2>2 DEF ProfileNext
  <2>5. ~StoreUpload(r) BY <2>3, StoreUploadKeeps
  <2>6. ~PointPicture(r) BY <2>3, PointPictureKeeps
  <2>7. ~WriteDetails(r) /\ ~UNCHANGED profileVars BY <2>1 DEF WriteDetails, profileVars
  <2>8. CASE Discard(r) BY <2>3, <2>8, DiscardKeeps
  <2>9. CASE WritePicture(r) BY <2>9 DEF WritePicture
  <2>10. QED BY <2>4, <2>5, <2>6, <2>7, <2>8, <2>9
<1>2. QED BY <1>1, ProfileHolds, PTL DEF SiteSpec, PictureOutlivesPointer

-----------------------------------------------------------------------------
(* Master data.                                                            *)

\* A category has no two fields of one name.
NamesApart == \A f, g \in Fields : f # g /\ fields[f] # None /\ fields[g] # None =>
                  fields[f].cat # fields[g].cat \/ fields[f].name # fields[g].name

\* An answer a is one to a field as row has it, in the category c.
Fits(a, row, c) == Live(row) /\ row.cat = c /\ Reads(row.type, a.value)

\* The answer to f that the call c leaves.
AnswerAfter(c, f) ==
    IF f \in DOMAIN c.put THEN c.put[f]
    ELSE IF f \in c.drop /\ SameRow(answers[<<c.id, f>>], c.was[f]) THEN None
    ELSE answers[<<c.id, f>>]

\* What a call knows while no other call can write: the row it leaves, and that
\* the answers it leaves fit.
FieldKnows(c) ==
    /\ c.id \in Fields
    /\ Written(fields[c.id], c.set) \in FieldRow
    /\ \A x \in Records : answers[<<x, c.id>>] # None =>
          Fits(answers[<<x, c.id>>], Written(fields[c.id], c.set), records[x].cat)

RecordKnows(c) ==
    /\ c.id \in Records
    /\ Written(records[c.id], c.set) \in RecordRow
    /\ \A f \in Fields : /\ AnswerAfter(c, f) \in AnswerRow \cup {None}
                         /\ AnswerAfter(c, f) # None =>
                               Fits(AnswerAfter(c, f), fields[f], Written(records[c.id], c.set).cat)

DataKnows(c) == /\ c.op = "field" => FieldKnows(c)
                /\ c.op = "record" => RecordKnows(c)

\* The rows are of their tables, and every answer fits.
AnswersFit ==
    /\ fields \in [Fields -> FieldRow \cup {None}]
    /\ records \in [Records -> RecordRow \cup {None}]
    /\ answers \in [Records \X Fields -> AnswerRow \cup {None}]
    /\ \A x \in Records, f \in Fields : answers[<<x, f>>] # None =>
          records[x] # None /\ Fits(answers[<<x, f>>], fields[f], records[x].cat)

\* And calls know what they do.
FittingInv == Alone => AnswersFit /\ \A r \in Requests : call[r] # None => DataKnows(call[r])

DataInv == DOMAIN fields = Fields /\ NamesApart

\* Columns of a field, and what they leave in a row.
FieldColumns(set) == /\ "cat" \in DOMAIN set => set.cat \in Cats
                     /\ "name" \in DOMAIN set => set.name \in FieldNames
                     /\ "type" \in DOMAIN set => set.type \in FieldTypes
                     /\ "required" \in DOMAIN set => set.required \in BOOLEAN
                     /\ "active" \in DOMAIN set => set.active \in BOOLEAN
                     /\ "gone" \in DOMAIN set => set.gone \in BOOLEAN

\* Columns written to a field leave a field, with the columns sent and its own others.
LEMMA FieldWritten ==
    ASSUME NEW row \in FieldRow, NEW set, FieldColumns(set)
    PROVE  /\ Written(row, set) \in FieldRow
           /\ Written(row, set).cat = IF "cat" \in DOMAIN set THEN set.cat ELSE row.cat
           /\ Written(row, set).type = IF "type" \in DOMAIN set THEN set.type ELSE row.type
           /\ Written(row, set).gone = IF "gone" \in DOMAIN set THEN set.gone ELSE row.gone
<1>1. row # None BY DataNoneAssumption
<1>2. QED BY <1>1 DEF Written, FieldRow, FieldColumns

\* Columns that are sent are columns of a field, and those that change are some.
LEMMA FieldSent ==
    ASSUME NEW new \in FieldUpdates \cup [gone : BOOLEAN], NEW row
    PROVE  /\ FieldColumns(Changed(row, new))
           /\ FieldColumns(new)
<1>1. FieldColumns(new)
  <2>1. CASE new \in [cat : Cats] BY <2>1 DEF FieldColumns
  <2>2. CASE new \in [name : FieldNames] BY <2>2 DEF FieldColumns
  <2>3. CASE new \in [type : FieldTypes] BY <2>3 DEF FieldColumns
  <2>4. CASE new \in [required : BOOLEAN] BY <2>4 DEF FieldColumns
  <2>5. CASE new \in [active : BOOLEAN] BY <2>5 DEF FieldColumns
  <2>6. CASE new \in [cat : Cats, name : FieldNames] BY <2>6 DEF FieldColumns
  <2>7. CASE new \in [gone : BOOLEAN] BY <2>7 DEF FieldColumns
  <2>8. QED BY <2>1, <2>2, <2>3, <2>4, <2>5, <2>6, <2>7 DEF FieldUpdates
<1>2. /\ DOMAIN Changed(row, new) \subseteq DOMAIN new
      /\ \A f \in DOMAIN Changed(row, new) : Changed(row, new)[f] = new[f]
  BY DEF Changed
<1>3. QED BY <1>1, <1>2 DEF FieldColumns

\* A call that begins on master data.
DataBegan(r) == \E c : Begin(r, c) /\ (Alone => DataKnows(c))

\* An edit of a field that is there: one that has answers keeps its category and
\* its type, and is not deleted.
LEMMA FieldEdits ==
    ASSUME FittingInv, NEW r \in Requests, NEW f \in Fields, fields[f] # None, NEW set,
           FieldColumns(set), Begin(r, [op |-> "field", id |-> f, set |-> set]),
           ~GuardAnswered(f) => /\ "cat" \in DOMAIN set => set.cat = fields[f].cat
                                /\ "type" \in DOMAIN set => set.type = fields[f].type
                                /\ "gone" \in DOMAIN set => set.gone = FALSE
    PROVE  DataBegan(r)
<1>1. PICK c : c = [op |-> "field", id |-> f, set |-> set] OBVIOUS
<1>2. PICK row, left : row = fields[f] /\ left = Written(row, set) OBVIOUS
<1>3. ASSUME Alone PROVE DataKnows(c)
  <2>1. AnswersFit BY <1>3 DEF FittingInv
  <2>2. row \in FieldRow BY <1>2, <2>1 DEF AnswersFit
  <2>3. /\ left \in FieldRow
        /\ left.cat = IF "cat" \in DOMAIN set THEN set.cat ELSE row.cat
        /\ left.type = IF "type" \in DOMAIN set THEN set.type ELSE row.type
        /\ left.gone = IF "gone" \in DOMAIN set THEN set.gone ELSE row.gone
    BY <1>2, <2>2, FieldWritten
  <2>4. left # None BY <2>3, DataNoneAssumption
  <2>5. ASSUME NEW x \in Records, answers[<<x, f>>] # None
        PROVE  Fits(answers[<<x, f>>], left, records[x].cat)
    <3>1. Fits(answers[<<x, f>>], row, records[x].cat) BY <1>2, <2>1, <2>5 DEF AnswersFit
    <3>2. ~GuardAnswered(f) BY <2>5 DEF GuardAnswered, AnsweredBy
    <3>3. left.cat = row.cat /\ left.type = row.type BY <1>2, <2>3, <3>2
    <3>4. ~left.gone BY <1>2, <2>3, <3>1, <3>2 DEF Fits, Live
    <3>5. QED BY <2>4, <3>1, <3>3, <3>4 DEF Fits, Live
  <2>6. c.op = "field" /\ c.id = f /\ c.set = set BY <1>1
  <2>7. QED BY <1>2, <2>3, <2>5, <2>6 DEF DataKnows, FieldKnows
<1>4. Begin(r, c) BY <1>1
<1>5. QED BY <1>3, <1>4 DEF DataBegan

\* The calls on fields.
LEMMA FieldBegins ==
    ASSUME FittingInv, NEW r \in Requests, FieldCalls(r)
    PROVE  DataBegan(r)
<1>1. ASSUME NEW f \in Fields, NEW c \in Cats, NEW name \in FieldNames, NEW type \in FieldTypes,
             NEW required \in BOOLEAN, CreateField(r, f, c, name, type, required)
      PROVE  DataBegan(r)
  <2>1. PICK new : new = [cat |-> c, name |-> name, type |-> type, required |-> required,
                          active |-> TRUE, gone |-> FALSE]
    OBVIOUS
  <2>2. new \in FieldRow BY <2>1 DEF FieldRow
  <2>3. PICK k : k = [op |-> "field", id |-> f, set |-> new] OBVIOUS
  <2>4. Begin(r, k) /\ fields[f] = None BY <1>1, <2>1, <2>3 DEF CreateField
  <2>5. Written(fields[f], new) = new BY <2>4 DEF Written
  <2>6. ASSUME Alone PROVE \A x \in Records : answers[<<x, f>>] = None
    BY <2>4, <2>6 DEF FittingInv, AnswersFit, Fits, Live
  <2>7. k.op = "field" /\ k.id = f /\ k.set = new BY <2>3
  <2>8. Alone => DataKnows(k) BY <2>2, <2>5, <2>6, <2>7 DEF DataKnows, FieldKnows
  <2>9. QED BY <2>4, <2>8 DEF DataBegan
<1>2. ASSUME NEW f \in Fields, NEW new \in FieldUpdates, UpdateField(r, f, new)
      PROVE  DataBegan(r)
  <2>1. PICK set : set = Changed(fields[f], new) OBVIOUS
  <2>2. /\ fields[f] # None /\ Begin(r, [op |-> "field", id |-> f, set |-> set])
        /\ "cat" \in DOMAIN new /\ new.cat # fields[f].cat => GuardAnswered(f)
        /\ "type" \in DOMAIN new => new.type = fields[f].type \/ GuardAnswered(f)
    BY <1>2, <2>1 DEF UpdateField, Live
  <2>3. DOMAIN set \subseteq DOMAIN new /\ \A g \in DOMAIN set : set[g] = new[g]
    BY <2>1 DEF Changed
  <2>4. FieldColumns(set) BY <2>1, FieldSent
  <2>5. "gone" \notin DOMAIN new BY DEF FieldUpdates
  <2>6. QED BY <2>2, <2>3, <2>4, <2>5, FieldEdits
<1>3. ASSUME NEW f \in Fields, DeleteField(r, f) PROVE DataBegan(r)
  <2>1. PICK set : set = [gone |-> TRUE] OBVIOUS
  <2>2. /\ fields[f] # None /\ Begin(r, [op |-> "field", id |-> f, set |-> set])
        /\ GuardAnswered(f)
    BY <1>3, <2>1 DEF DeleteField, Live
  <2>3. FieldColumns(set) BY <2>1, FieldSent
  <2>4. QED BY <2>2, <2>3, FieldEdits
<1>4. ASSUME NEW f \in Fields, RestoreField(r, f) PROVE DataBegan(r)
  <2>1. PICK new, set : new = [gone |-> FALSE] /\ set = Changed(fields[f], new) OBVIOUS
  <2>2. fields[f] # None /\ Begin(r, [op |-> "field", id |-> f, set |-> set])
    BY <1>4, <2>1 DEF RestoreField
  <2>3. FieldColumns(set) BY <2>1, FieldSent
  <2>4. DOMAIN set \subseteq {"gone"} /\ ("gone" \in DOMAIN set => set.gone = FALSE)
    BY <2>1 DEF Changed
  <2>5. QED BY <2>2, <2>3, <2>4, FieldEdits
<1>5. QED BY <1>1, <1>2, <1>3, <1>4 DEF FieldCalls

\* What an edit leaves in a record.
LEMMA RecordWritten ==
    ASSUME NEW row \in RecordRow, NEW new \in [cat : Cats] \cup [gone : BOOLEAN],
           NEW set, set = Changed(row, new) \/ set = new
    PROVE  /\ Written(row, set) \in RecordRow
           /\ Written(row, set).cat = IF "cat" \in DOMAIN new THEN new.cat ELSE row.cat
<1>1. row # None BY DataNoneAssumption
<1>2. CASE new \in [cat : Cats] BY <1>1, <1>2 DEF Written, Changed, RecordRow
<1>3. CASE new \in [gone : BOOLEAN] BY <1>1, <1>3 DEF Written, Changed, RecordRow
<1>4. QED BY <1>2, <1>3

\* Texts that were sent fit the fields they are sent for.
LEMMA SentFits ==
    ASSUME NEW c, NEW form, ResolvesValues(c, form), NEW f \in DOMAIN form,
           NEW a, a.value = form[f]
    PROVE  f \in Fields /\ Fits(a, fields[f], c)
  BY DEF ResolvesValues, Form, Fits

\* A record is made.
LEMMA RecordCreated ==
    ASSUME CallsInv, FittingInv, NEW r \in Requests, NEW x \in Records, NEW c \in Cats,
           NEW form \in FilledForms, CreateRecord(r, x, c, form)
    PROVE  DataBegan(r)
<1>1. PICK asked \in SUBSET Fields : form \in [asked -> Texts] BY DEF FilledForms
<1>2. PICK new, put, was : /\ new = [cat |-> c, gone |-> FALSE]
                           /\ put = [f \in DOMAIN form |-> [row |-> made, value |-> form[f]]]
                           /\ was = [f \in Fields |-> None]
  OBVIOUS
<1>3. PICK k : k = [op |-> "record", id |-> x, set |-> new, put |-> put, drop |-> {}, was |-> was]
  OBVIOUS
<1>4. Begin(r, k) /\ records[x] = None /\ ResolvesValues(c, form)
  BY <1>2, <1>3 DEF CreateRecord
<1>5. /\ k.op = "record" /\ k.id = x /\ k.set = new /\ k.put = put /\ k.drop = {}
  BY <1>3
<1>6. new \in RecordRow /\ new.cat = c BY <1>2 DEF RecordRow
<1>7. Written(records[x], new) = new BY <1>4 DEF Written
<1>8. made \in Nat BY DEF CallsInv
<1>9. ASSUME Alone, NEW f \in Fields
      PROVE  /\ AnswerAfter(k, f) \in AnswerRow \cup {None}
             /\ AnswerAfter(k, f) # None => Fits(AnswerAfter(k, f), fields[f], c)
  <2>1. CASE f \in DOMAIN form
    <3>1. AnswerAfter(k, f) = [row |-> made, value |-> form[f]]
      BY <1>2, <1>5, <2>1 DEF AnswerAfter
    <3>2. PICK a : a = [row |-> made, value |-> form[f]] OBVIOUS
    <3>3. a \in AnswerRow /\ a.value = form[f] BY <1>1, <1>8, <2>1, <3>2 DEF AnswerRow
    <3>4. Fits(a, fields[f], c) BY <1>4, <2>1, <3>3, SentFits
    <3>5. QED BY <3>1, <3>2, <3>3, <3>4
  <2>2. CASE f \notin DOMAIN form
    <3>1. AnswerAfter(k, f) = answers[<<x, f>>] BY <1>2, <1>5, <2>2 DEF AnswerAfter
    <3>2. answers[<<x, f>>] = None BY <1>4, <1>9 DEF FittingInv, AnswersFit
    <3>3. QED BY <3>1, <3>2
  <2>3. QED BY <2>1, <2>2
<1>10. Alone => RecordKnows(k) BY <1>5, <1>6, <1>7, <1>9 DEF RecordKnows
<1>11. Alone => DataKnows(k) BY <1>5, <1>10 DEF DataKnows
<1>12. QED BY <1>4, <1>11 DEF DataBegan

\* A record is moved or filled in again: a form that was sent replaces every
\* answer, and without one a record that has answers does not move.
LEMMA RecordUpdated ==
    ASSUME CallsInv, FittingInv, NEW r \in Requests, NEW x \in Records, NEW c \in Cats,
           NEW form \in FilledForms \cup {None}, UpdateRecord(r, x, c, form)
    PROVE  DataBegan(r)
<1>1. PICK new, set, put, drop, was :
         /\ new = [cat |-> c] /\ set = Changed(records[x], new)
         /\ put = IF form = None THEN <<>> ELSE Put(x, form)
         /\ drop = IF form = None THEN {} ELSE Held(x) \ DOMAIN form
         /\ was = [f \in Fields |-> answers[<<x, f>>]]
  OBVIOUS
<1>2. PICK k : k = [op |-> "record", id |-> x, set |-> set, put |-> put, drop |-> drop, was |-> was]
  OBVIOUS
<1>3. /\ Begin(r, k) /\ records[x] # None
      /\ c # records[x].cat /\ form = None => Held(x) = {}
      /\ form # None => ResolvesValues(c, form)
  BY <1>1, <1>2 DEF UpdateRecord, Live
<1>4. k.op = "record" /\ k.id = x /\ k.set = set /\ k.put = put /\ k.drop = drop /\ k.was = was
  BY <1>2
<1>5. made \in Nat BY DEF CallsInv
<1>6. ASSUME Alone PROVE RecordKnows(k)
  <2>1. AnswersFit BY <1>6 DEF FittingInv
  <2>2. records[x] \in RecordRow BY <1>3, <2>1 DEF AnswersFit
  <2>3. Written(records[x], set) \in RecordRow /\ Written(records[x], set).cat = c
    BY <1>1, <2>2, RecordWritten
  <2>4. ASSUME NEW f \in Fields
        PROVE  /\ AnswerAfter(k, f) \in AnswerRow \cup {None}
               /\ AnswerAfter(k, f) # None => Fits(AnswerAfter(k, f), fields[f], c)
    <3> PICK a : a = answers[<<x, f>>] OBVIOUS
    <3>1. a \in AnswerRow \cup {None}
          /\ (a # None => Fits(a, fields[f], records[x].cat) /\ f \in Held(x))
      BY <2>1 DEF AnswersFit, Held
    <3>2. CASE form = None
      <4>1. DOMAIN k.put = {} /\ k.drop = {} BY <1>1, <1>4, <3>2
      <4>2. AnswerAfter(k, f) = a BY <1>4, <4>1 DEF AnswerAfter
      <4>3. a # None => c = records[x].cat BY <1>3, <3>1, <3>2
      <4>4. QED BY <3>1, <4>2, <4>3
    <3>3. CASE form # None /\ f \in DOMAIN put
      <4>1. PICK asked \in SUBSET Fields : form \in [asked -> Texts] BY <3>3 DEF FilledForms
      <4>2. PICK n : n = IF a = None THEN made ELSE a.row OBVIOUS
      <4>3. n \in Nat BY <1>5, <3>1, <4>2 DEF AnswerRow
      <4>4. f \in DOMAIN form /\ put[f] = [row |-> n, value |-> form[f]]
        BY <1>1, <3>3, <4>2 DEF Put
      <4>5. put[f] \in AnswerRow /\ put[f].value = form[f]
        BY <4>1, <4>3, <4>4 DEF AnswerRow
      <4>6. Fits(put[f], fields[f], c) BY <1>3, <3>3, <4>4, <4>5, SentFits
      <4>7. AnswerAfter(k, f) = put[f] BY <1>4, <3>3 DEF AnswerAfter
      <4>8. QED BY <4>5, <4>6, <4>7
    <3>4. CASE form # None /\ f \notin DOMAIN put /\ f \in DOMAIN form
      <4>1. a # None /\ a.value = form[f] BY <1>1, <3>4 DEF Put
      <4>2. Fits(a, fields[f], c) BY <1>3, <3>4, <4>1, SentFits
      <4>3. AnswerAfter(k, f) = a BY <1>1, <1>4, <3>4 DEF AnswerAfter
      <4>4. QED BY <3>1, <4>2, <4>3
    <3>5. CASE form # None /\ f \notin DOMAIN put /\ f \notin DOMAIN form
      <4>1. a # None => f \in drop BY <1>1, <3>1, <3>5
      <4>2. SameRow(a, was[f]) BY <1>1 DEF SameRow
      <4>3. AnswerAfter(k, f) = None BY <1>4, <3>5, <4>1, <4>2 DEF AnswerAfter
      <4>4. QED BY <4>3
    <3>6. QED BY <3>2, <3>3, <3>4, <3>5
  <2>5. QED BY <1>4, <2>3, <2>4 DEF RecordKnows
<1>7. Alone => DataKnows(k) BY <1>4, <1>6 DEF DataKnows
<1>8. QED BY <1>3, <1>7 DEF DataBegan

\* The calls on records.
LEMMA RecordBegins ==
    ASSUME CallsInv, FittingInv, NEW r \in Requests, RecordCalls(r)
    PROVE  DataBegan(r)
<1>1. ASSUME NEW x \in Records, NEW new \in [gone : BOOLEAN], NEW set,
             set = Changed(records[x], new) \/ set = new, records[x] # None,
             Begin(r, [op |-> "record", id |-> x, set |-> set, put |-> <<>>, drop |-> {},
                       was |-> <<>>])
      PROVE  DataBegan(r)
  <2>1. PICK k : k = [op |-> "record", id |-> x, set |-> set, put |-> <<>>, drop |-> {},
                      was |-> <<>>]
    OBVIOUS
  <2>2. /\ Begin(r, k) /\ k.op = "record" /\ k.id = x /\ k.set = set
        /\ DOMAIN k.put = {} /\ k.drop = {}
    BY <1>1, <2>1
  <2>3. ASSUME Alone PROVE RecordKnows(k)
    <3>1. AnswersFit BY <2>3 DEF FittingInv
    <3>2. records[x] \in RecordRow BY <1>1, <3>1 DEF AnswersFit
    <3>3. "cat" \notin DOMAIN new BY <1>1
    <3>4. /\ Written(records[x], set) \in RecordRow
          /\ Written(records[x], set).cat = records[x].cat
      BY <1>1, <3>2, <3>3, RecordWritten
    <3>5. \A f \in Fields : AnswerAfter(k, f) = answers[<<x, f>>] BY <2>2 DEF AnswerAfter
    <3>6. ASSUME NEW f \in Fields
          PROVE  /\ answers[<<x, f>>] \in AnswerRow \cup {None}
                 /\ answers[<<x, f>>] # None => Fits(answers[<<x, f>>], fields[f], records[x].cat)
      BY <3>1 DEF AnswersFit
    <3>7. QED BY <2>2, <3>4, <3>5, <3>6 DEF RecordKnows
  <2>4. Alone => DataKnows(k) BY <2>2, <2>3 DEF DataKnows
  <2>5. QED BY <2>2, <2>4 DEF DataBegan
<1>2. ASSUME NEW x \in Records, DeleteRecord(r, x) PROVE DataBegan(r)
  <2>1. PICK new : new = [gone |-> TRUE] OBVIOUS
  <2>2. QED BY <1>1, <1>2, <2>1 DEF DeleteRecord, Live
<1>3. ASSUME NEW x \in Records, RestoreRecord(r, x) PROVE DataBegan(r)
  <2>1. PICK new : new = [gone |-> FALSE] OBVIOUS
  <2>2. QED BY <1>1, <1>3, <2>1 DEF RestoreRecord
<1>4. QED BY <1>2, <1>3, RecordCreated, RecordUpdated DEF RecordCalls

\* A call begins or a request dies, and no row changes.
LEMMA DataCallMoves ==
    ASSUME CallsInv, DataInv, FittingInv, NEW r \in Requests, UNCHANGED dataVars,
           DataBegan(r) \/ Die(r)
    PROVE  CallsStep /\ DataInv' /\ FittingInv'
<1>1. UNCHANGED <<fields, records, answers>> BY DEF dataVars
<1>2. DataInv' BY <1>1 DEF DataInv, NamesApart
<1>3. AnswersFit => AnswersFit' BY <1>1 DEF AnswersFit, Fits, Live
<1>4. \A c : DataKnows(c) => DataKnows(c)'
  BY <1>1 DEF DataKnows, FieldKnows, RecordKnows, AnswerAfter, Fits, Live
<1>5. CASE DataBegan(r)
  <2> PICK c : Begin(r, c) /\ (Alone => DataKnows(c)) BY <1>5 DEF DataBegan
  <2>1. Moves(r, c) BY BeginMoves
  <2>2. call'[r] = c /\ (\A q \in Requests \ {r} : call'[q] = call[q]) /\ load' = load
    BY <2>1, Moved
  <2>3. ASSUME Alone, NEW q \in Requests, call'[q] # None PROVE DataKnows(call[q])'
    <3>1. PICK k : k = call'[q] OBVIOUS
    <3>2. DataKnows(k) BY <2>2, <2>3, <3>1 DEF FittingInv
    <3>3. DataKnows(k)' BY <1>4, <3>2
    <3>4. QED BY <3>1, <3>3
  <2>4. FittingInv' BY <1>3, <2>2, <2>3 DEF FittingInv, Alone
  <2>5. QED BY <1>2, <2>1, <2>4 DEF CallsStep
<1>6. CASE Die(r)
  <2>1. CallsStep /\ Alone' = Alone BY <1>6, EndedCalls DEF Die
  <2>2. Alone => \A q \in Requests : call'[q] = None BY <1>6, EndsAlone DEF Die
  <2>3. QED BY <1>2, <1>3, <2>1, <2>2 DEF FittingInv
<1>7. QED BY <1>5, <1>6

\* A field is written, if no other of its category has the name.
LEMMA WriteFieldKeeps ==
    ASSUME CallsInv, DataInv, FittingInv, NEW r \in Requests, WriteField(r)
    PROVE  CallsStep /\ DataInv' /\ FittingInv'
<1> PICK c, row : c = call[r] /\ row = Written(fields[c.id], c.set) OBVIOUS
<1>1. /\ c # None /\ c.op = "field" /\ End(r) /\ records' = records /\ answers' = answers
      /\ NameFree(c.id, row.cat, row.name) /\ fields' = [fields EXCEPT ![c.id] = row]
  BY DEF WriteField, Doing
<1>2. CallsStep /\ Alone' = Alone BY <1>1, EndedCalls
<1>3. DOMAIN fields' = Fields BY <1>1 DEF DataInv
<1>4. /\ c.id \in Fields => fields'[c.id] = row
      /\ \A f \in Fields \ {c.id} : fields'[f] = fields[f]
  BY <1>1 DEF DataInv
<1>5. NamesApart'
  <2> SUFFICES ASSUME NEW f \in Fields, NEW g \in Fields, f # g, fields'[f] # None,
                      fields'[g] # None
               PROVE  fields'[f].cat # fields'[g].cat \/ fields'[f].name # fields'[g].name
    BY DEF NamesApart
  <2>1. CASE f = c.id BY <1>1, <1>4, <2>1 DEF NameFree
  <2>2. CASE g = c.id BY <1>1, <1>4, <2>2 DEF NameFree
  <2>3. CASE f # c.id /\ g # c.id BY <1>4, <2>3 DEF DataInv, NamesApart
  <2>4. QED BY <2>1, <2>2, <2>3
<1>6. ASSUME Alone PROVE AnswersFit'
  <2>1. AnswersFit BY <1>6 DEF FittingInv
  <2>2. FieldKnows(c) BY <1>1, <1>6 DEF FittingInv, DataKnows
  <2>3. c.id \in Fields /\ row \in FieldRow BY <2>2 DEF FieldKnows
  <2>4. fields' \in [Fields -> FieldRow \cup {None}] BY <1>1, <2>1, <2>3 DEF AnswersFit
  <2>5. ASSUME NEW x \in Records, NEW f \in Fields, answers[<<x, f>>] # None
        PROVE  records[x] # None /\ Fits(answers[<<x, f>>], fields'[f], records[x].cat)
    <3>1. CASE f = c.id BY <1>4, <2>1, <2>2, <2>5, <3>1 DEF AnswersFit, FieldKnows
    <3>2. CASE f # c.id BY <1>4, <2>1, <2>5, <3>2 DEF AnswersFit
    <3>3. QED BY <3>1, <3>2
  <2>6. records' \in [Records -> RecordRow \cup {None}]
        /\ answers' \in [Records \X Fields -> AnswerRow \cup {None}]
    BY <1>1, <2>1 DEF AnswersFit
  <2>7. QED BY <1>1, <2>4, <2>5, <2>6 DEF AnswersFit, Fits, Live
<1>7. Alone => \A q \in Requests : call'[q] = None BY <1>1, EndsAlone
<1>8. FittingInv' BY <1>2, <1>6, <1>7 DEF FittingInv
<1>9. QED BY <1>2, <1>3, <1>5, <1>8 DEF DataInv

\* A record is written, and its answers with it.
LEMMA WriteRecordKeeps ==
    ASSUME CallsInv, DataInv, FittingInv, NEW r \in Requests, WriteRecord(r)
    PROVE  CallsStep /\ DataInv' /\ FittingInv'
<1> PICK c, row : c = call[r] /\ row = Written(records[c.id], c.set) OBVIOUS
<1> DEFINE written(x, f) == IF x # c.id THEN answers[<<x, f>>]
                            ELSE IF f \in DOMAIN c.put THEN c.put[f]
                            ELSE IF f \in c.drop /\ SameRow(answers[<<x, f>>], c.was[f]) THEN None
                            ELSE answers[<<x, f>>]
<1>1. /\ c # None /\ c.op = "record" /\ End(r) /\ fields' = fields
      /\ records' = [records EXCEPT ![c.id] = row]
      /\ answers' = [y \in Records \X Fields |-> written(y[1], y[2])]
  BY DEF WriteRecord, Doing
<1>2. CallsStep /\ Alone' = Alone BY <1>1, EndedCalls
<1>3. DataInv' BY <1>1 DEF DataInv, NamesApart
<1>4. ASSUME NEW x \in Records, NEW f \in Fields
      PROVE  written(x, f) = IF x = c.id THEN AnswerAfter(c, f) ELSE answers[<<x, f>>]
  BY DEF AnswerAfter
<1> HIDE DEF written
<1>5. ASSUME Alone PROVE AnswersFit'
  <2>1. AnswersFit BY <1>5 DEF FittingInv
  <2>2. RecordKnows(c) BY <1>1, <1>5 DEF FittingInv, DataKnows
  <2>3. c.id \in Records /\ row \in RecordRow BY <2>2 DEF RecordKnows
  <2>4. row # None BY <2>3, DataNoneAssumption
  <2>5. /\ records' \in [Records -> RecordRow \cup {None}]
        /\ records'[c.id] = row /\ \A x \in Records \ {c.id} : records'[x] = records[x]
    BY <1>1, <2>1, <2>3 DEF AnswersFit
  <2>6. ASSUME NEW x \in Records, NEW f \in Fields
        PROVE  /\ written(x, f) \in AnswerRow \cup {None}
               /\ written(x, f) # None =>
                     records'[x] # None /\ Fits(written(x, f), fields[f], records'[x].cat)
    <3>1. CASE x = c.id
      <4>1. /\ AnswerAfter(c, f) \in AnswerRow \cup {None}
            /\ AnswerAfter(c, f) # None => Fits(AnswerAfter(c, f), fields[f], row.cat)
        BY <2>2 DEF RecordKnows
      <4>2. written(x, f) = AnswerAfter(c, f) /\ records'[x] = row BY <1>4, <2>5, <3>1
      <4>3. QED BY <2>4, <4>1, <4>2
    <3>2. CASE x # c.id
      <4>1. /\ answers[<<x, f>>] \in AnswerRow \cup {None}
            /\ answers[<<x, f>>] # None =>
                  records[x] # None /\ Fits(answers[<<x, f>>], fields[f], records[x].cat)
        BY <2>1 DEF AnswersFit
      <4>2. written(x, f) = answers[<<x, f>>] /\ records'[x] = records[x] BY <1>4, <2>5, <3>2
      <4>3. QED BY <4>1, <4>2
    <3>3. QED BY <3>1, <3>2
  <2>7. /\ answers' \in [Records \X Fields -> AnswerRow \cup {None}]
        /\ \A x \in Records, f \in Fields : answers'[<<x, f>>] = written(x, f)
    BY <1>1, <2>6
  <2>8. fields' \in [Fields -> FieldRow \cup {None}] BY <1>1, <2>1 DEF AnswersFit
  <2>9. QED BY <1>1, <2>5, <2>6, <2>7, <2>8 DEF AnswersFit, Fits, Live
<1>6. Alone => \A q \in Requests : call'[q] = None BY <1>1, EndsAlone
<1>7. FittingInv' BY <1>2, <1>5, <1>6 DEF FittingInv
<1>8. QED BY <1>2, <1>3, <1>7

\* Every step of the part.
LEMMA DataStep ==
    ASSUME CallsInv, DataInv, FittingInv, DataNext
    PROVE  CallsStep /\ DataInv' /\ FittingInv'
  BY FieldBegins, RecordBegins, DataCallMoves, WriteFieldKeeps, WriteRecordKeeps DEF DataNext

\* The first state of the part.
LEMMA DataStarts == ASSUME CallsInit, DataInit PROVE CallsInv /\ DataInv /\ FittingInv
<1>1. CallsInv /\ \A r \in Requests : call[r] = None BY DEF CallsInit, CallsInv
<1>2. /\ fields = [f \in Fields |-> None] /\ records = [x \in Records |-> None]
      /\ answers = [y \in Records \X Fields |-> None]
  BY DEF DataInit
<1>3. \A x \in Records, f \in Fields : answers[<<x, f>>] = None BY <1>2
<1>4. AnswersFit BY <1>2, <1>3 DEF AnswersFit
<1>5. DataInv BY <1>2 DEF DataInv, NamesApart
<1>6. QED BY <1>1, <1>4, <1>5 DEF FittingInv

\* A step of the site is one of the part that is on, and leaves the others alone.
LEMMA ContentPart ==
    ASSUME [SiteNext]_siteVars
    PROVE  /\ On("data") => DataNext \/ UNCHANGED <<callVars, fields, records, answers>>
           /\ ~On("data") => UNCHANGED <<fields, records, answers>>
           /\ load.part \in Kinds => ArticleNext \/ UNCHANGED <<callVars, articles>>
           /\ load.part \notin Kinds => UNCHANGED articles
<1>1. CASE UNCHANGED siteVars BY <1>1 DEF siteVars, contentVars
<1>2. CASE ContentNext /\ UNCHANGED <<peopleVars, officeVars>>
  BY <1>2 DEF ContentNext, contentVars, On, Kinds
<1>3. CASE PeopleNext /\ UNCHANGED <<treeVars, contentVars, officeVars>>
  BY <1>3 DEF PeopleNext, contentVars, On, Kinds
<1>4. CASE OfficeNext /\ UNCHANGED <<treeVars, contentVars, peopleVars>>
  BY <1>4 DEF OfficeNext, contentVars, On, Kinds
<1>5. QED BY <1>1, <1>2, <1>3, <1>4 DEF SiteNext

\* Off their part, there are no fields and no answers.
DataSite == /\ On("data") => CallsInv /\ DataInv /\ FittingInv
            /\ ~On("data") => fields = Nothing(Fields) /\ answers = Nothing(Records \X Fields)

\* The invariant of the part is one of the site.
LEMMA DataHolds == SiteSpec => []DataSite
<1>1. SiteInit => DataSite BY DataStarts DEF DataSite, SiteInit, ContentInit
<1>2. DataSite /\ [SiteNext]_siteVars => DataSite'
  <2> SUFFICES ASSUME DataSite, [SiteNext]_siteVars PROVE DataSite' OBVIOUS
  <2>1. On("data")' <=> On("data") BY LoadStays DEF On
  <2>2. CASE On("data")
    <3>0. CallsInv /\ DataInv /\ FittingInv BY <2>2 DEF DataSite
    <3>1. CASE DataNext
      <4>1. CallsInv' /\ DataInv' /\ FittingInv' BY <3>0, <3>1, DataStep, CallsKept
      <4>2. QED BY <2>1, <2>2, <4>1 DEF DataSite
    <3>2. CASE UNCHANGED <<callVars, fields, records, answers>>
      <4>1. UNCHANGED <<load, call, made, fields, records, answers>> BY <3>2 DEF callVars
      <4>2. CallsInv' BY <3>0, <4>1 DEF CallsInv
      <4>3. DataInv' BY <3>0, <4>1 DEF DataInv, NamesApart
      <4>4. FittingInv'
        <5>1. AnswersFit => AnswersFit' BY <4>1 DEF AnswersFit, Fits, Live
        <5>2. \A c : DataKnows(c) => DataKnows(c)'
          BY <4>1 DEF DataKnows, FieldKnows, RecordKnows, AnswerAfter, Fits, Live
        <5>3. QED BY <3>0, <4>1, <5>1, <5>2 DEF FittingInv, Alone
      <4>5. QED BY <2>1, <2>2, <4>2, <4>3, <4>4 DEF DataSite
    <3>3. QED BY <2>2, <3>1, <3>2, ContentPart
  <2>3. CASE ~On("data")
    <3>1. UNCHANGED <<fields, answers>> BY <2>3, ContentPart
    <3>2. QED BY <2>1, <2>3, <3>1 DEF DataSite
  <2>4. QED BY <2>2, <2>3
<1>3. QED BY <1>1, <1>2, PTL DEF SiteSpec

\* While calls do not overlap, every stored answer is to a live field of its record's
\* own category and reads as the field's type, those of a deleted record included; and
\* however they overlap, a category has no two fields of one name.
THEOREM AnswersFitted == SiteSpec => []AnswersFitTheirFields
<1>1. DataSite => AnswersFitTheirFields
  <2>1. ASSUME DataSite, On("data") PROVE AnswersFitTheirFields
    BY <2>1 DEF DataSite, DataInv, NamesApart, FittingInv, AnswersFit, Fits, AnswersFitTheirFields
  <2>2. ASSUME DataSite, ~On("data") PROVE AnswersFitTheirFields
    <3>1. \A f \in Fields : fields[f] = None BY <2>2 DEF DataSite, Nothing
    <3>2. \A x \in Records, f \in Fields : answers[<<x, f>>] = None
      BY <2>2 DEF DataSite, Nothing
    <3>3. QED BY <3>1, <3>2 DEF AnswersFitTheirFields
  <2>3. QED BY <2>1, <2>2
<1>2. QED BY <1>1, DataHolds, PTL

-----------------------------------------------------------------------------
(* Articles.                                                               *)

\* A row has an address, and all but consultancies a publication.
Shaped(row) ==
    /\ "slug" \in DOMAIN row
    /\ "status" \in DOMAIN row => load.part # "consultancies" /\ "date" \in DOMAIN row

\* Columns that leave an article that is out its address, and its date but for one
\* the caller names.
Holds(set, row) ==
    "status" \in DOMAIN row =>
        /\ "slug" \in DOMAIN set => row.status = "draft"
        /\ "date" \in DOMAIN set /\ row.date # None => set.date \in Moments \cup {row.date}

\* What a call knows while no other call can write: the row it inserts is whole,
\* and the columns it writes hold what the article has.
ArticleKnows(c) ==
    /\ c.id \in Articles
    /\ articles[c.id] = None => Shaped(c.set)
    /\ articles[c.id] # None => Holds(c.set, articles[c.id])

ArticleInv ==
    /\ DOMAIN articles = Articles
    /\ Alone => /\ \A a \in Articles : articles[a] # None => Shaped(articles[a])
                /\ \A r \in Requests : call[r] # None => ArticleKnows(call[r])

\* A call that begins on articles.
ArticleBegan(r) == \E c : Begin(r, c) /\ (Alone => ArticleKnows(c))

\* A whole row is inserted.
LEMMA InsertBegins ==
    ASSUME NEW r \in Requests, NEW a \in Articles, NEW row, Insert(r, a, row), Shaped(row)
    PROVE  ArticleBegan(r)
<1>1. PICK c : c = [op |-> "article", id |-> a, set |-> row] OBVIOUS
<1>2. Begin(r, c) /\ articles[a] = None BY <1>1 DEF Insert
<1>3. c.id = a /\ c.set = row BY <1>1
<1>4. QED BY <1>2, <1>3 DEF ArticleBegan, ArticleKnows

\* Columns that hold what the article has are sent.
LEMMA EditBegins ==
    ASSUME NEW r \in Requests, NEW a \in Articles, NEW new, articles[a] # None,
           Edit(r, a, new), Alone => Holds(new, articles[a])
    PROVE  ArticleBegan(r)
<1>1. PICK set : set = Changed(articles[a], new) OBVIOUS
<1>2. PICK c : c = [op |-> "article", id |-> a, was |-> articles[a], set |-> set] OBVIOUS
<1>3. Begin(r, c) BY <1>1, <1>2 DEF Edit
<1>4. c.id = a /\ c.set = set BY <1>2
<1>5. DOMAIN set \subseteq DOMAIN new /\ \A f \in DOMAIN set : set[f] = new[f]
  BY <1>1 DEF Changed
<1>6. Alone => Holds(set, articles[a]) BY <1>5 DEF Holds
<1>7. QED BY <1>3, <1>4, <1>6 DEF ArticleBegan, ArticleKnows

\* Publication and its end, deletion and its undoing.
LEMMA LifecycleBegins ==
    ASSUME ArticleInv, NEW r \in Requests, NEW a \in Articles,
           Lifecycle(r, a) \/ DeleteArticle(r, a) \/ RestoreArticle(r, a)
    PROVE  ArticleBegan(r)
<1> PICK row : row = articles[a] OBVIOUS
<1>1. ASSUME NEW when \in Moments \cup {None}, Publish(r, a, when) PROVE ArticleBegan(r)
  <2>1. PICK new : new = [status |-> "published", date |-> Moment(row, when)] OBVIOUS
  <2>2. articles[a] # None /\ Edit(r, a, new) BY <1>1, <2>1 DEF Publish, Live
  <2>3. row.date # None => Moment(row, when) \in Moments \cup {row.date} BY DEF Moment
  <2>4. Holds(new, row) BY <2>1, <2>3 DEF Holds
  <2>5. QED BY <2>2, <2>4, EditBegins
<1>2. ASSUME NEW new, new \in [status : ArticleStatuses] \cup [gone : BOOLEAN],
             articles[a] # None, Edit(r, a, new)
      PROVE  ArticleBegan(r)
  <2>1. "slug" \notin DOMAIN new /\ "date" \notin DOMAIN new BY <1>2
  <2>2. Holds(new, row) BY <2>1 DEF Holds
  <2>3. QED BY <1>2, <2>2, EditBegins
<1>3. CASE Unpublish(r, a)
  <2>1. PICK new : new = [status |-> "draft"] OBVIOUS
  <2>2. QED BY <1>2, <1>3, <2>1 DEF Unpublish, Live, ArticleStatuses
<1>4. CASE Archive(r, a)
  <2>1. PICK new : new = [status |-> "archived"] OBVIOUS
  <2>2. QED BY <1>2, <1>4, <2>1 DEF Archive, Live, ArticleStatuses
<1>5. CASE DeleteArticle(r, a)
  <2>1. PICK new : new = [gone |-> TRUE] OBVIOUS
  <2>2. QED BY <1>2, <1>5, <2>1 DEF DeleteArticle, Live
<1>6. CASE RestoreArticle(r, a)
  <2>1. PICK new : new = [gone |-> FALSE] OBVIOUS
  <2>2. QED BY <1>2, <1>6, <2>1 DEF RestoreArticle
<1>7. QED BY <1>1, <1>3, <1>4, <1>5, <1>6 DEF Lifecycle

\* Articles are made.
LEMMA Creates ==
    ASSUME NEW r \in Requests, NEW a \in Articles, NEW slug,
           \/ load.part = "pages" /\ CreatePage(r, a, slug)
           \/ load.part = "blogs" /\ \E c \in Cats, tags \in SUBSET Cats :
                                        CreateBlog(r, a, slug, c, tags)
           \/ load.part = "automations" /\ \E c \in Cats \cup {None} :
                                              CreateAutomation(r, a, slug, c)
           \/ load.part = "courses" /\ \E c \in Cats \cup {None}, code \in ArticleCodes :
                                          CreateCourse(r, a, slug, c, code)
           \/ load.part = "consultancies" /\ \E c \in Cats \cup {None}, code \in ArticleCodes :
                                                CreateConsultancy(r, a, slug, c, code)
    PROVE  ArticleBegan(r)
<1> PICK draft : draft = Draft(slug) OBVIOUS
<1>1. DOMAIN draft = {"slug", "status", "date", "gone"} BY DEF Draft
<1>2. load.part # "consultancies" => Shaped(draft) /\ \A more : Shaped(Also(draft, more))
  BY <1>1 DEF Shaped, Also
<1>3. CASE load.part = "pages" /\ CreatePage(r, a, slug)
  BY <1>2, <1>3, InsertBegins DEF CreatePage
<1>4. ASSUME load.part = "blogs", NEW c, NEW tags, CreateBlog(r, a, slug, c, tags)
      PROVE  ArticleBegan(r)
  BY <1>2, <1>4, InsertBegins DEF CreateBlog
<1>5. ASSUME load.part = "automations", NEW c, CreateAutomation(r, a, slug, c)
      PROVE  ArticleBegan(r)
  BY <1>2, <1>5, InsertBegins DEF CreateAutomation
<1>6. ASSUME load.part = "courses", NEW c, NEW code, CreateCourse(r, a, slug, c, code)
      PROVE  ArticleBegan(r)
  BY <1>2, <1>6, InsertBegins DEF CreateCourse
<1>7. ASSUME NEW c, NEW code, CreateConsultancy(r, a, slug, c, code) PROVE ArticleBegan(r)
  <2>1. PICK row : row = [slug |-> slug, gone |-> FALSE, cat |-> c, code |-> code] OBVIOUS
  <2>2. Insert(r, a, row) BY <1>7, <2>1 DEF CreateConsultancy
  <2>3. Shaped(row) BY <2>1 DEF Shaped
  <2>4. QED BY <2>2, <2>3, InsertBegins
<1>8. QED BY <1>3, <1>4, <1>5, <1>6, <1>7

\* Articles are edited: only a draft, or a consultancy, changes its address.
LEMMA Updates ==
    ASSUME ArticleInv, NEW r \in Requests, NEW a \in Articles,
           NEW new, "date" \notin DOMAIN new,
           \/ UpdatePage(r, a, new) \/ UpdateBlog(r, a, new) \/ UpdateAutomation(r, a, new)
           \/ UpdateCourse(r, a, new)
           \/ load.part = "consultancies" /\ UpdateConsultancy(r, a, new)
    PROVE  ArticleBegan(r)
<1>1. articles[a] # None /\ Edit(r, a, new)
  BY DEF UpdatePage, UpdateBlog, UpdateAutomation, UpdateCourse, UpdateConsultancy, Live
<1>2. CASE MayReslug(a, new)
  <2>1. Holds(new, articles[a]) BY <1>2 DEF MayReslug, Holds
  <2>2. QED BY <1>1, <2>1, EditBegins
<1>3. CASE load.part = "consultancies"
  <2>1. Alone => Shaped(articles[a]) BY <1>1 DEF ArticleInv
  <2>2. Alone => Holds(new, articles[a]) BY <1>3, <2>1 DEF Holds, Shaped
  <2>3. QED BY <1>1, <2>2, EditBegins
<1>4. QED BY <1>2, <1>3 DEF UpdatePage, UpdateBlog, UpdateAutomation, UpdateCourse

\* The calls on articles.
LEMMA ArticleBegins ==
    ASSUME ArticleInv, NEW r \in Requests, ArticleLoad(r)
    PROVE  ArticleBegan(r)
<1>1. PICK a \in Articles :
         \/ load.part = "pages" /\ PageCalls(r, a)
         \/ load.part = "blogs" /\ BlogCalls(r, a)
         \/ load.part = "automations" /\ AutomationCalls(r, a)
         \/ load.part = "courses" /\ CourseCalls(r, a)
         \/ load.part = "consultancies" /\ ConsultancyCalls(r, a)
  BY DEF ArticleLoad
<1>2. ASSUME NEW new \in [slug : Slugs] \cup [cat : Cats \cup {None}] \cup [cat : Cats]
                          \cup [tags : SUBSET Cats] \cup [code : ArticleCodes]
      PROVE  "date" \notin DOMAIN new
  OBVIOUS
<1>3. CASE load.part = "pages" /\ PageCalls(r, a)
  BY <1>2, <1>3, Creates, Updates, LifecycleBegins DEF PageCalls
<1>4. CASE load.part = "blogs" /\ BlogCalls(r, a)
  BY <1>2, <1>4, Creates, Updates, LifecycleBegins DEF BlogCalls
<1>5. CASE load.part = "automations" /\ AutomationCalls(r, a)
  BY <1>2, <1>5, Creates, Updates, LifecycleBegins DEF AutomationCalls
<1>6. CASE load.part = "courses" /\ CourseCalls(r, a)
  BY <1>2, <1>6, Creates, Updates, LifecycleBegins DEF CourseCalls
<1>7. CASE load.part = "consultancies" /\ ConsultancyCalls(r, a)
  BY <1>2, <1>7, Creates, Updates, LifecycleBegins DEF ConsultancyCalls
<1>8. QED BY <1>1, <1>3, <1>4, <1>5, <1>6, <1>7

\* A call begins or a request dies, and no row changes.
LEMMA ArticleCallMoves ==
    ASSUME CallsInv, ArticleInv, NEW r \in Requests, UNCHANGED articles,
           ArticleBegan(r) \/ Die(r)
    PROVE  CallsStep /\ ArticleInv'
<1>1. CASE ArticleBegan(r)
  <2> PICK c : Begin(r, c) /\ (Alone => ArticleKnows(c)) BY <1>1 DEF ArticleBegan
  <2>1. Moves(r, c) BY BeginMoves
  <2>2. call'[r] = c /\ (\A q \in Requests \ {r} : call'[q] = call[q]) /\ load' = load
    BY <2>1, Moved
  <2>3. \A k : ArticleKnows(k) => ArticleKnows(k)'
    BY <2>2 DEF ArticleKnows, Shaped, Holds, Moments
  <2>4. ASSUME Alone, NEW q \in Requests, call'[q] # None PROVE ArticleKnows(call[q])'
    <3>1. PICK k : k = call'[q] OBVIOUS
    <3>2. ArticleKnows(k) BY <2>2, <2>4, <3>1 DEF ArticleInv
    <3>3. ArticleKnows(k)' BY <2>3, <3>2
    <3>4. QED BY <3>1, <3>3
  <2>5. \A a \in Articles : Shaped(articles[a]) => Shaped(articles[a])' BY <2>2 DEF Shaped
  <2>6. ArticleInv' BY <2>2, <2>4, <2>5 DEF ArticleInv, Alone
  <2>7. QED BY <2>1, <2>6 DEF CallsStep
<1>2. CASE Die(r)
  <2>1. CallsStep /\ Alone' = Alone /\ load' = load BY <1>2, EndedCalls DEF Die
  <2>2. Alone => \A q \in Requests : call'[q] = None BY <1>2, EndsAlone DEF Die
  <2>3. \A a \in Articles : Shaped(articles[a]) => Shaped(articles[a])' BY <2>1 DEF Shaped
  <2>4. QED BY <2>1, <2>2, <2>3 DEF ArticleInv
<1>3. QED BY <1>1, <1>2

\* What an article keeps of its publication.
KeepsPlace(a) ==
    /\ articles[a].status # "draft" => articles'[a].slug = articles[a].slug
    /\ articles[a].date # None => articles'[a].date \in Moments \cup {articles[a].date}

\* An article is written.
LEMMA WriteArticleKeeps ==
    ASSUME CallsInv, ArticleInv, NEW r \in Requests, WriteArticle(r)
    PROVE  /\ CallsStep /\ ArticleInv'
           /\ Alone => \A a \in Articles :
                 articles[a] # None /\ "status" \in DOMAIN articles[a] => KeepsPlace(a)
<1> PICK c : c = call[r] OBVIOUS
<1> PICK now : now = articles[c.id] OBVIOUS
<1> PICK plain : plain = Written(now, c.set) OBVIOUS
<1> PICK row : row = IF now # None /\ "tags" \in DOMAIN c.set
                     THEN [plain EXCEPT !["tags"] = Retagged(now.tags, c.was.tags, c.set.tags)]
                     ELSE plain
  OBVIOUS
<1>1. c # None /\ End(r) /\ articles' = [articles EXCEPT ![c.id] = row]
  BY DEF WriteArticle, Doing
<1>2. CallsStep /\ Alone' = Alone /\ load' = load BY <1>1, EndedCalls
<1>3. DOMAIN articles' = Articles BY <1>1 DEF ArticleInv
<1>4. /\ c.id \in Articles => articles'[c.id] = row
      /\ \A a \in Articles \ {c.id} : articles'[a] = articles[a]
  BY <1>1 DEF ArticleInv
<1>5. ASSUME now # None
      PROVE  /\ DOMAIN row = DOMAIN now
             /\ \A f \in DOMAIN now \ {"tags"} :
                   row[f] = IF f \in DOMAIN c.set THEN c.set[f] ELSE now[f]
  <2>1. /\ DOMAIN plain = DOMAIN now
        /\ \A f \in DOMAIN now : plain[f] = IF f \in DOMAIN c.set THEN c.set[f] ELSE now[f]
    BY <1>5 DEF Written
  <2>2. QED BY <2>1
<1>6. now = None => row = c.set BY DEF Written
<1>7. ASSUME Alone PROVE ArticleKnows(c) BY <1>1, <1>7 DEF ArticleInv
<1>8. ASSUME Alone, NEW a \in Articles, articles'[a] # None PROVE Shaped(articles[a])'
  <2>1. CASE a # c.id BY <1>2, <1>4, <1>8, <2>1 DEF ArticleInv, Shaped
  <2>2. CASE a = c.id
    <3>1. Shaped(row)
      <4>1. CASE now = None BY <1>6, <1>7, <1>8, <4>1 DEF ArticleKnows
      <4>2. CASE now # None BY <1>5, <1>8, <2>2, <4>2 DEF ArticleInv, Shaped
      <4>3. QED BY <4>1, <4>2
    <3>2. articles'[a] = row BY <1>4, <2>2
    <3>3. QED BY <1>2, <3>1, <3>2 DEF Shaped
  <2>3. QED BY <2>1, <2>2
<1>9. Alone => \A q \in Requests : call'[q] = None BY <1>1, EndsAlone
<1>10. ArticleInv' BY <1>2, <1>3, <1>8, <1>9 DEF ArticleInv
<1>11. ASSUME Alone, NEW a \in Articles, articles[a] # None, "status" \in DOMAIN articles[a]
       PROVE  KeepsPlace(a)
  <2>1. CASE a # c.id BY <1>4, <2>1 DEF KeepsPlace
  <2>2. CASE a = c.id
    <3>1. Shaped(now) /\ Holds(c.set, now) BY <1>7, <1>11, <2>2 DEF ArticleInv, ArticleKnows
    <3>2. "slug" \in DOMAIN now /\ "date" \in DOMAIN now BY <1>11, <2>2, <3>1 DEF Shaped
    <3>3. /\ row.slug = IF "slug" \in DOMAIN c.set THEN c.set.slug ELSE now.slug
          /\ row.date = IF "date" \in DOMAIN c.set THEN c.set.date ELSE now.date
      BY <1>5, <1>11, <2>2, <3>2
    <3>4. articles'[a] = row BY <1>4, <2>2
    <3>5. QED BY <1>11, <2>2, <3>1, <3>3, <3>4 DEF Holds, KeepsPlace
  <2>3. QED BY <2>1, <2>2
<1>12. QED BY <1>2, <1>10, <1>11

\* Every step of the part.
LEMMA ArticleStep ==
    ASSUME CallsInv, ArticleInv, ArticleNext
    PROVE  CallsStep /\ ArticleInv'
  BY ArticleBegins, ArticleCallMoves, WriteArticleKeeps DEF ArticleNext, articleVars

\* Off its part, the table is empty.
ArticleSite == /\ load.part \in Kinds => CallsInv /\ ArticleInv
               /\ load.part \notin Kinds => articles = Nothing(Articles)

\* The first state of the part.
LEMMA ArticleStarts == ASSUME CallsInit, ArticleInit PROVE CallsInv /\ ArticleInv
<1>1. CallsInv /\ \A r \in Requests : call[r] = None BY DEF CallsInit, CallsInv
<1>2. articles = [a \in Articles |-> None] BY DEF ArticleInit
<1>3. QED BY <1>1, <1>2 DEF ArticleInv

\* The invariant of the part is one of the site.
LEMMA ArticleHolds == SiteSpec => []ArticleSite
<1>1. SiteInit => ArticleSite BY ArticleStarts DEF ArticleSite, SiteInit, ContentInit
<1>2. ArticleSite /\ [SiteNext]_siteVars => ArticleSite'
  <2> SUFFICES ASSUME ArticleSite, [SiteNext]_siteVars PROVE ArticleSite' OBVIOUS
  <2>1. load' = load BY LoadStays
  <2>2. CASE load.part \in Kinds
    <3>0. CallsInv /\ ArticleInv BY <2>2 DEF ArticleSite
    <3>1. CASE ArticleNext
      <4>1. CallsInv' /\ ArticleInv' BY <3>0, <3>1, ArticleStep, CallsKept
      <4>2. QED BY <2>1, <2>2, <4>1 DEF ArticleSite, Kinds
    <3>2. CASE UNCHANGED <<callVars, articles>>
      <4>1. UNCHANGED <<load, call, made, articles>> BY <3>2 DEF callVars
      <4>2. CallsInv' BY <3>0, <4>1 DEF CallsInv
      <4>3. ArticleInv'
        BY <3>0, <4>1 DEF ArticleInv, ArticleKnows, Shaped, Holds, Moments, Alone
      <4>4. QED BY <2>1, <2>2, <4>2, <4>3 DEF ArticleSite, Kinds
    <3>3. QED BY <2>2, <3>1, <3>2, ContentPart
  <2>3. CASE load.part \notin Kinds
    <3>1. articles' = articles BY <2>3, ContentPart
    <3>2. QED BY <2>1, <2>3, <3>1 DEF ArticleSite, Kinds
  <2>4. QED BY <2>2, <2>3
<1>3. QED BY <1>1, <1>2, PTL DEF SiteSpec

\* While calls do not overlap, an article keeps its address while it is published or
\* archived, and its date, once it has one, until a call names another: no sequence of
\* unpublishing, archiving, deleting and restoring makes an old article new.
THEOREM PublicationHeld == SiteSpec => PublicationHolds
<1> DEFINE Placed == Alone => \A a \in Articles :
          articles[a] # None /\ "status" \in DOMAIN articles[a] =>
             /\ articles[a].status # "draft" => articles'[a].slug = articles[a].slug
             /\ articles[a].date # None =>
                   articles'[a].date \in Moments \cup {articles[a].date}
<1>1. ArticleSite /\ [SiteNext]_siteVars => [Placed]_<<callVars, articleVars>>
  <2> SUFFICES ASSUME ArticleSite, [SiteNext]_siteVars, Alone, NEW a \in Articles,
                      articles[a] # None, "status" \in DOMAIN articles[a]
               PROVE  KeepsPlace(a)
    BY DEF KeepsPlace
  <2>1. CASE articles' = articles BY <2>1 DEF KeepsPlace
  <2>2. CASE articles' # articles
    <3>1. CallsInv /\ ArticleInv /\ ArticleNext
      BY <2>2, ContentPart DEF ArticleSite
    <3>2. PICK r \in Requests : WriteArticle(r) BY <2>2, <3>1 DEF ArticleNext, articleVars
    <3>3. QED BY <3>1, <3>2, WriteArticleKeeps
  <2>3. QED BY <2>1, <2>2
<1>2. QED BY <1>1, ArticleHolds, PTL DEF SiteSpec, PublicationHolds

-----------------------------------------------------------------------------
(* Walking down a tree.  What the walk finds is the least set that holds   *)
(* the live rows under x and under its own members, which is all that the  *)
(* proofs below use of it.                                                 *)

\* The live rows one level below some, and those.
Deeper(rows, x, seen) ==
    seen \cup {y \in DOMAIN rows : Live(rows[y]) /\ rows[y].parent \in seen \cup {x}}

\* The walk down is well defined.
LEMMA LevelsWalk ==
    ASSUME NEW rows, NEW x, IsFiniteSet(DOMAIN rows), NEW N, N = Cardinality(DOMAIN rows)
    PROVE  /\ N \in Nat
           /\ Levels(rows, x)[0] = {}
           /\ \A n \in 1..N : Levels(rows, x)[n] = Deeper(rows, x, Levels(rows, x)[n - 1])
<1>1. N \in Nat BY FS_CardinalityType
<1> DEFINE step(f, n) == IF n = 0 THEN {} ELSE Deeper(rows, x, f[n - 1])
           T == {k \in 0..N : \E f : f = [n \in 0..k |-> step(f, n)]}
<1>2. 0 \in T
  <2>1. PICK f : f = [n \in 0..0 |-> {}] OBVIOUS
  <2>2. f = [n \in 0..0 |-> step(f, n)] BY <2>1
  <2>3. \E h : h = [n \in 0..0 |-> step(h, n)] BY <2>2
  <2>4. QED BY <1>1, <2>3
<1>3. ASSUME NEW k \in 0..N, k < N, k \in T PROVE k + 1 \in T
  <2>1. PICK f : f = [n \in 0..k |-> step(f, n)] BY <1>3
  <2>2. PICK g : g = [n \in 0..(k + 1) |-> IF n = k + 1 THEN Deeper(rows, x, f[k]) ELSE f[n]]
    OBVIOUS
  <2>3. k \in Nat /\ \A n \in 0..(k + 1) : n # 0 => n - 1 \in 0..k OBVIOUS
  <2> HIDE DEF step
  <2>8. \A n \in 0..k : f[n] = step(f, n) BY <2>1
  <2>9. \A n \in 0..k : n \in 0..(k + 1) /\ n # k + 1 BY <2>3
  <2>4. \A n \in 0..k : g[n] = f[n] /\ f[n] = step(f, n) BY <2>2, <2>8, <2>9
  <2>5. ASSUME NEW n \in 0..(k + 1) PROVE g[n] = step(g, n)
    <3>1. CASE n = 0 BY <2>3, <2>4, <3>1 DEF step
    <3>2. CASE n # 0 /\ n # k + 1
      <4>1. n \in 0..k /\ n - 1 \in 0..k BY <2>3, <3>2
      <4>2. g[n] = step(f, n) /\ g[n - 1] = f[n - 1] BY <2>4, <4>1
      <4>3. step(f, n) = Deeper(rows, x, f[n - 1]) BY <3>2 DEF step
      <4>4. step(g, n) = Deeper(rows, x, g[n - 1]) BY <3>2 DEF step
      <4>5. QED BY <4>2, <4>3, <4>4
    <3>3. CASE n = k + 1
      <4>1. n # 0 /\ n - 1 = k /\ k \in 0..k BY <2>3, <3>3
      <4>2. g[n] = Deeper(rows, x, f[k]) BY <2>2, <3>3
      <4>3. g[n - 1] = f[k] BY <2>4, <4>1
      <4>4. QED BY <4>1, <4>2, <4>3 DEF step
    <3>4. QED BY <3>1, <3>2, <3>3
  <2>6. g = [n \in 0..(k + 1) |-> step(g, n)] BY <2>2, <2>5
  <2>7. k + 1 \in 0..N BY <1>1, <1>3
  <2>10. \E h : h = [n \in 0..(k + 1) |-> step(h, n)] BY <2>6
  <2>11. QED BY <2>7, <2>10
<1>4. N \in T
  <2> HIDE DEF T
  <2>1. 0..N \subseteq T BY <1>1, <1>2, <1>3, Climb
  <2>2. QED BY <1>1, <2>1
<1>5. \E f : f = [n \in 0..N |-> step(f, n)] BY <1>4
<1>6. Levels(rows, x) = CHOOSE f : f = [n \in 0..N |-> step(f, n)]
  BY Zenon DEF Levels, Deeper
<1>7. Levels(rows, x) = [n \in 0..N |-> step(Levels(rows, x), n)]
  BY <1>5, <1>6, Zenon
<1>8. Levels(rows, x)[0] = {} BY <1>1, <1>7
<1>9. ASSUME NEW n \in 1..N
      PROVE  Levels(rows, x)[n] = Deeper(rows, x, Levels(rows, x)[n - 1])
  <2>1. n \in 0..N /\ n # 0 BY <1>1
  <2>2. Levels(rows, x)[n] = step(Levels(rows, x), n) BY <1>7, <2>1
  <2>3. QED BY <2>1, <2>2
<1>10. QED BY <1>1, <1>8, <1>9

\* A set that holds the live rows under x and under its own members.
Closed(rows, x, S) ==
    \A y \in DOMAIN rows : Live(rows[y]) /\ rows[y].parent \in S \cup {x} => y \in S

\* Whatever the walk down finds is in every set that is closed under x.
LEMMA DescendantsLeast ==
    ASSUME NEW rows, NEW x, IsFiniteSet(DOMAIN rows), NEW S, Closed(rows, x, S)
    PROVE  Descendants(rows, x) \subseteq S
<1> PICK N : N = Cardinality(DOMAIN rows) OBVIOUS
<1> PICK below : below = Levels(rows, x) OBVIOUS
<1>1. /\ N \in Nat /\ below[0] = {}
      /\ \A n \in 1..N : below[n] = Deeper(rows, x, below[n - 1])
  BY LevelsWalk
<1> DEFINE T == {n \in 0..N : below[n] \subseteq S}
<1>2. 0 \in T BY <1>1
<1>3. ASSUME NEW n \in 0..N, n < N, n \in T PROVE n + 1 \in T
  <2>1. n + 1 \in 1..N /\ n + 1 \in 0..N /\ (n + 1) - 1 = n BY <1>1, <1>3
  <2>2. below[n + 1] = Deeper(rows, x, below[n]) BY <1>1, <2>1
  <2>3. below[n + 1] \subseteq S BY <1>3, <2>2 DEF Deeper, Closed
  <2>4. QED BY <2>1, <2>3
<1>4. N \in T
  <2> HIDE DEF T
  <2>1. 0..N \subseteq T BY <1>1, <1>2, <1>3, Climb
  <2>2. QED BY <1>1, <2>1
<1>5. QED BY <1>4 DEF Descendants

\* And it finds all of them: as many steps as there are rows are enough.
LEMMA DescendantsClosed ==
    ASSUME NEW rows, NEW x, IsFiniteSet(DOMAIN rows)
    PROVE  /\ Closed(rows, x, Descendants(rows, x))
           /\ Descendants(rows, x) \subseteq DOMAIN rows
<1> PICK N : N = Cardinality(DOMAIN rows) OBVIOUS
<1> PICK below : below = Levels(rows, x) OBVIOUS
<1>1. /\ N \in Nat /\ below[0] = {}
      /\ \A n \in 1..N : below[n] = Deeper(rows, x, below[n - 1])
  BY LevelsWalk
<1> DEFINE Found(n) == /\ below[n] \subseteq DOMAIN rows
                       /\ Closed(rows, x, below[n]) \/ n <= Cardinality(below[n])
           T == {n \in 0..N : Found(n)}
<1>2. 0 \in T BY <1>1, FS_EmptySet
<1>3. ASSUME NEW n \in 0..N, n < N, n \in T PROVE n + 1 \in T
  <2>1. n \in Nat /\ n + 1 \in 1..N /\ n + 1 \in 0..N /\ (n + 1) - 1 = n BY <1>1, <1>3
  <2>2. below[n + 1] = Deeper(rows, x, below[n]) BY <1>1, <2>1
  <2>3. below[n] \subseteq DOMAIN rows /\ below[n + 1] \subseteq DOMAIN rows
    BY <1>3, <2>2 DEF Deeper
  <2>4. CASE Closed(rows, x, below[n])
    <3>1. below[n + 1] = below[n] BY <2>2, <2>4 DEF Deeper, Closed
    <3>2. QED BY <2>1, <2>3, <2>4, <3>1
  <2>5. CASE ~Closed(rows, x, below[n])
    <3>1. PICK y \in DOMAIN rows :
                 Live(rows[y]) /\ rows[y].parent \in below[n] \cup {x} /\ y \notin below[n]
      BY <2>5 DEF Closed
    <3>2. below[n] \cup {y} \in SUBSET below[n + 1] BY <2>2, <3>1 DEF Deeper
    <3>3. IsFiniteSet(below[n]) /\ IsFiniteSet(below[n + 1]) BY <2>3, FS_Subset
    <3>4. Cardinality(below[n] \cup {y}) = Cardinality(below[n]) + 1
      BY <3>1, <3>3, FS_AddElement
    <3>5. Cardinality(below[n] \cup {y}) <= Cardinality(below[n + 1])
      BY <3>2, <3>3, FS_Subset
    <3>6. /\ Cardinality(below[n]) \in Nat /\ Cardinality(below[n + 1]) \in Nat
          /\ Cardinality(below[n] \cup {y}) \in Nat
      BY <3>3, FS_CardinalityType, FS_AddElement
    <3>7. n <= Cardinality(below[n]) BY <1>3, <2>5
    <3>8. n + 1 <= Cardinality(below[n + 1]) BY <2>1, <3>4, <3>5, <3>6, <3>7
    <3>9. QED BY <2>1, <2>3, <3>8
  <2>6. QED BY <2>4, <2>5
<1>4. N \in T
  <2> HIDE DEF T
  <2>1. 0..N \subseteq T BY <1>1, <1>2, <1>3, Climb
  <2>2. QED BY <1>1, <2>1
<1>5. below[N] = Descendants(rows, x) BY DEF Descendants
<1>6. CASE N <= Cardinality(below[N])
  <2>1. below[N] \in SUBSET DOMAIN rows BY <1>4
  <2>2. Cardinality(below[N]) <= N BY <2>1, FS_Subset
  <2>3. Cardinality(below[N]) \in Nat BY <2>1, FS_Subset, FS_CardinalityType
  <2>4. Cardinality(below[N]) = N BY <1>1, <1>6, <2>2, <2>3
  <2>5. below[N] = DOMAIN rows BY <2>1, <2>4, FS_Subset
  <2>6. QED BY <1>5, <2>5 DEF Closed
<1>7. QED BY <1>4, <1>5, <1>6

-----------------------------------------------------------------------------
(* Writing one row of a forest.                                            *)

\* A live row hangs under a live row of its own type, or category.
Hangs(rows, col, x) ==
    rows[x].parent # None => /\ Live(rows[rows[x].parent])
                             /\ rows[rows[x].parent][col] = rows[x][col]

Forest(rows, col) ==
    \A x \in DOMAIN rows : Live(rows[x]) => Hangs(rows, col, x) /\ ~InRing(rows, x)

\* Parents are of the same table.
Rooted(rows) == /\ IsFiniteSet(DOMAIN rows) /\ None \notin DOMAIN rows
                /\ \A x \in DOMAIN rows :
                      rows[x] # None => rows[x].parent \in DOMAIN rows \cup {None}

\* Rows of one table, before and after the row c is written.
Rewritten(rows, new, c) ==
    /\ DOMAIN new = DOMAIN rows
    /\ \A y \in DOMAIN rows \ {c} : new[y] = rows[y]

\* Only live rows are found under a row.
LEMMA DescendantsLive ==
    ASSUME NEW rows, NEW x, IsFiniteSet(DOMAIN rows), NEW y \in Descendants(rows, x)
    PROVE  y \in DOMAIN rows /\ Live(rows[y])
<1> DEFINE alive == {z \in DOMAIN rows : Live(rows[z])}
<1>1. Closed(rows, x, alive) BY DEF Closed
<1>2. Descendants(rows, x) \subseteq alive BY <1>1, DescendantsLeast
<1>3. QED BY <1>2

\* A row that is hung under one that is not below it, with what hangs under it, if
\* anything, still of its type, leaves a forest a forest.
LEMMA HangKeepsForest ==
    ASSUME NEW rows, NEW new, NEW col, NEW c \in DOMAIN rows,
           Rooted(rows), Forest(rows, col), Rewritten(rows, new, c), Live(new[c]),
           \/ new[c].parent = None
           \/ /\ new[c].parent \in DOMAIN rows \ {c}
              /\ Live(rows[new[c].parent])
              /\ rows[new[c].parent][col] = new[c][col]
              /\ new[c].parent \notin Descendants(rows, c),
           \A y \in Children(rows, c) \ {c} : rows[y][col] = new[c][col]
    PROVE  Forest(new, col)
<1>8. IsFiniteSet(DOMAIN rows) /\ None \notin DOMAIN rows BY DEF Rooted
<1> PICK under : under = Descendants(rows, c) OBVIOUS
<1>1. Closed(rows, c, under) /\ under \subseteq DOMAIN rows BY <1>8, DescendantsClosed
<1>2. DOMAIN new = DOMAIN rows /\ IsFiniteSet(DOMAIN new) BY <1>8 DEF Rewritten
<1>3. c \notin under
  <2>1. CASE Live(rows[c]) BY <2>1 DEF Forest, InRing
  <2>2. CASE ~Live(rows[c]) BY <1>8, <2>2, DescendantsLive
  <2>3. QED BY <2>1, <2>2
<1>4. new[c].parent \notin under \cup {c} BY <1>1, <1>8
<1>5. ASSUME NEW x \in DOMAIN rows, Live(new[x]) PROVE ~InRing(new, x)
  <2>1. CASE x = c
    <3>1. Closed(new, c, under)
      <4> SUFFICES ASSUME NEW z \in DOMAIN rows, Live(new[z]), new[z].parent \in under \cup {c}
                   PROVE  z \in under
        BY <1>2 DEF Closed
      <4>1. z # c /\ new[z] = rows[z] BY <1>4 DEF Rewritten
      <4>2. QED BY <1>1, <4>1 DEF Closed
    <3>2. QED BY <1>2, <1>3, <2>1, <3>1, DescendantsLeast DEF InRing
  <2> PICK mine : mine = Descendants(rows, x) OBVIOUS
  <2>2. CASE x # c
    <3>1. Live(rows[x]) /\ x \notin mine BY <1>5, <2>2 DEF Rewritten, Forest, InRing
    <3>2. Closed(rows, x, mine) BY <1>8, DescendantsClosed
    <3>3. CASE x \in under
      <4>1. Closed(rows, x, under) BY <1>1, <3>3 DEF Closed
      <4>2. mine \subseteq under BY <1>8, <4>1, DescendantsLeast
      <4>3. Closed(new, x, mine)
        <5> SUFFICES ASSUME NEW z \in DOMAIN rows, Live(new[z]), new[z].parent \in mine \cup {x}
                     PROVE  z \in mine
          BY <1>2 DEF Closed
        <5>1. z # c /\ new[z] = rows[z] BY <1>4, <3>3, <4>2 DEF Rewritten
        <5>2. QED BY <3>2, <5>1 DEF Closed
      <4>4. QED BY <1>2, <3>1, <4>3, DescendantsLeast DEF InRing
    <3>4. CASE x \notin under
      <4>1. Closed(new, x, mine \cup under \cup {c})
        <5> SUFFICES ASSUME NEW z \in DOMAIN rows, Live(new[z]), z # c,
                            new[z].parent \in mine \cup under \cup {c} \cup {x}
                     PROVE  z \in mine \cup under
          BY <1>2 DEF Closed
        <5>1. new[z] = rows[z] BY DEF Rewritten
        <5>2. QED BY <1>1, <3>2, <5>1 DEF Closed
      <4>2. Descendants(new, x) \subseteq mine \cup under \cup {c}
        BY <1>2, <4>1, DescendantsLeast
      <4>3. QED BY <2>2, <3>1, <3>4, <4>2 DEF InRing
    <3>5. QED BY <3>3, <3>4
  <2>3. QED BY <2>1, <2>2
<1>6. ASSUME NEW x \in DOMAIN rows, Live(new[x]) PROVE Hangs(new, col, x)
  <2>1. CASE x = c BY <2>1 DEF Hangs, Rewritten
  <2>2. CASE x # c
    <3>1. new[x] = rows[x] /\ Hangs(rows, col, x) BY <1>6, <2>2 DEF Rewritten, Forest
    <3>2. CASE rows[x].parent = c
      <4>1. x \in Children(rows, c) \ {c} BY <1>6, <2>2, <3>1, <3>2 DEF Children
      <4>2. QED BY <3>1, <3>2, <4>1 DEF Hangs
    <3>3. CASE rows[x].parent # c BY <1>6, <3>1, <3>3 DEF Hangs, Rewritten, Rooted, Live
    <3>4. QED BY <3>2, <3>3
  <2>3. QED BY <2>1, <2>2
<1>7. QED BY <1>2, <1>5, <1>6 DEF Forest

\* So does a row that goes while nothing hangs under it.
LEMMA DropKeepsForest ==
    ASSUME NEW rows, NEW new, NEW col, NEW c \in DOMAIN rows, Rooted(rows),
           Forest(rows, col), Rewritten(rows, new, c), ~Live(new[c]), Children(rows, c) = {}
    PROVE  Forest(new, col)
<1>1. DOMAIN new = DOMAIN rows /\ IsFiniteSet(DOMAIN rows) BY DEF Rewritten, Rooted
<1>2. ASSUME NEW x \in DOMAIN rows, Live(new[x]) PROVE Hangs(new, col, x) /\ ~InRing(new, x)
  <2>1. x # c /\ new[x] = rows[x] /\ Live(rows[x]) BY <1>2 DEF Rewritten
  <2>2. Hangs(rows, col, x) /\ x \notin Descendants(rows, x) BY <2>1 DEF Forest, InRing
  <2>3. rows[x].parent # c BY <2>1 DEF Children
  <2>4. Hangs(new, col, x) BY <2>1, <2>2, <2>3 DEF Hangs, Rewritten, Rooted, Live
  <2>5. Closed(rows, x, Descendants(rows, x)) BY <1>1, DescendantsClosed
  <2>6. Closed(new, x, Descendants(rows, x))
    <3> SUFFICES ASSUME NEW z \in DOMAIN rows, Live(new[z]),
                        new[z].parent \in Descendants(rows, x) \cup {x}
                 PROVE  z \in Descendants(rows, x)
      BY <1>1 DEF Closed
    <3>1. new[z] = rows[z] BY <1>2 DEF Rewritten
    <3>2. QED BY <2>5, <3>1 DEF Closed
  <2>7. Descendants(new, x) \subseteq Descendants(rows, x) BY <1>1, <2>6, DescendantsLeast
  <2>8. QED BY <2>2, <2>4, <2>7 DEF InRing
<1>3. QED BY <1>1, <1>2 DEF Forest

-----------------------------------------------------------------------------
(* Categories and menu items.                                              *)

\* Columns of a category and of a menu item.
CatColumns(set) == /\ "type" \in DOMAIN set => set.type \in Types
                   /\ "parent" \in DOMAIN set => set.parent \in Cats \cup {None}
                   /\ "active" \in DOMAIN set => set.active \in BOOLEAN
                   /\ "gone" \in DOMAIN set => set.gone \in BOOLEAN

ItemColumns(set) == /\ "cat" \in DOMAIN set => set.cat \in Cats
                    /\ "parent" \in DOMAIN set => set.parent \in Items \cup {None}
                    /\ "gone" \in DOMAIN set => set.gone \in BOOLEAN

TypeColumns(set) == "gone" \in DOMAIN set => set.gone \in BOOLEAN

\* What a call on a tree carries: a whole row, if there is none yet.
TreeCallOK(c) ==
    /\ c.op = "types" => /\ c.id \in Types /\ TypeColumns(c.set)
                         /\ types[c.id] = None => c.set \in TypeRow
    /\ c.op = "cats" => /\ c.id \in Cats /\ CatColumns(c.set)
                        /\ cats[c.id] = None => c.set \in CatRow
    /\ c.op = "items" => /\ c.id \in Items /\ ItemColumns(c.set)
                         /\ items[c.id] = None => c.set \in ItemRow

TreeInv == MenuTypeOK /\ \A r \in Requests : call[r] # None => TreeCallOK(call[r])

\* A table after the call c has written its row.
After(rows, c) == [rows EXCEPT ![c.id] = Written(@, c.set)]

\* Live rows of these categories lie in live types.
TypesHold(those) == \A x \in Cats : Live(those[x]) => Live(types[those[x].type])

\* Live rows of these items lie in live categories of the menus' type.
FiledIn(those) == \A i \in Items : Live(those[i]) => /\ Live(cats[those[i].cat])
                                                     /\ cats[those[i].cat].type = MenuType

\* What a call that restores nothing knows while no other call can write: the
\* type it deletes is empty, and the trees will be as sound as they are.
TreeKnows(c) ==
    \/ c.set = [gone |-> FALSE]
    \/ DOMAIN c.set = {}
    \/ /\ c.op = "types" => \A x \in Cats : Live(cats[x]) => cats[x].type # c.id
       /\ c.op = "cats" => (TreeSound => Forest(After(cats, c), "type") /\ TypesHold(After(cats, c)))
       /\ c.op = "items" => /\ MenusSound => Forest(After(items, c), "cat")
                            /\ MenusFiled => FiledIn(After(items, c))

TreeWise == Alone => \A r \in Requests : call[r] # None => TreeKnows(call[r])

\* A call that begins on types, categories or items.
TreeBegan(r) == \E c : Begin(r, c) /\ TreeCallOK(c) /\ TreeKnows(c)

\* The rows make forests.
LEMMA Forests ==
    ASSUME MenuTypeOK
    PROVE  /\ Rooted(cats) /\ DOMAIN cats = Cats
           /\ Rooted(items) /\ DOMAIN items = Items
           /\ TreeSound <=> Forest(cats, "type") /\ TypesHold(cats)
           /\ MenusSound <=> Forest(items, "cat")
<1>1. cats \in [Cats -> CatRow \cup {None}] /\ items \in [Items -> ItemRow \cup {None}]
  BY DEF MenuTypeOK, TreeTypeOK
<1>2. Rooted(cats) BY <1>1, CatsAssumption DEF Rooted, CatRow
<1>3. Rooted(items) BY <1>1, ItemsAssumption DEF Rooted, ItemRow
<1>4. ASSUME NEW x \in Cats, Live(cats[x]) PROVE UnderItsOwn(x) <=> Hangs(cats, "type", x)
  <2>1. cats[x] \in CatRow BY <1>1, <1>4 DEF Live
  <2>2. ASSUME cats[x].parent # None, Live(cats[cats[x].parent])
        PROVE  cats[cats[x].parent] \in CatRow
    BY <1>1, <2>1, <2>2 DEF Live, CatRow
  <2>3. QED BY <2>1, <2>2 DEF UnderItsOwn, Hangs, CatRow
<1>5. TreeSound <=> Forest(cats, "type") /\ TypesHold(cats)
  BY <1>1, <1>4 DEF TreeSound, Forest, TypesHold, TypeHolds
<1>6. ASSUME NEW x \in Items, Live(items[x])
      PROVE  ItemSound(x) <=> Hangs(items, "cat", x) /\ ~InRing(items, x)
  <2>1. items[x] \in ItemRow BY <1>1, <1>6 DEF Live
  <2>2. ASSUME items[x].parent # None, Live(items[items[x].parent])
        PROVE  items[items[x].parent] \in ItemRow
    BY <1>1, <2>1, <2>2 DEF Live, ItemRow
  <2>3. QED BY <2>1, <2>2 DEF ItemSound, Hangs, ItemRow
<1>7. MenusSound <=> Forest(items, "cat") BY <1>1, <1>6 DEF MenusSound, Forest
<1>8. QED BY <1>1, <1>2, <1>3, <1>5, <1>7

\* A row that is there has, once changed, what was sent and its other columns.
LEMMA Sent ==
    ASSUME NEW row, row # None, NEW new, NEW f \in DOMAIN row
    PROVE  Written(row, Changed(row, new))[f] = IF f \in DOMAIN new THEN new[f] ELSE row[f]
  BY DEF Written, Changed

\* Columns that are sent are columns of their table, and those that change too.
LEMMA CatSent ==
    ASSUME NEW new \in CategoryUpdates \cup [gone : BOOLEAN], NEW row
    PROVE  CatColumns(Changed(row, new)) /\ CatColumns(new)
<1>1. CatColumns(new)
  <2>1. CASE new \in [type : Types] BY <2>1 DEF CatColumns
  <2>2. CASE new \in [parent : Cats \cup {None}] BY <2>2 DEF CatColumns
  <2>3. CASE new \in [active : BOOLEAN] BY <2>3 DEF CatColumns
  <2>4. CASE new \in [type : Types, parent : Cats \cup {None}] BY <2>4 DEF CatColumns
  <2>5. CASE new \in [gone : BOOLEAN] BY <2>5 DEF CatColumns
  <2>6. QED BY <2>1, <2>2, <2>3, <2>4, <2>5 DEF CategoryUpdates
<1>2. /\ DOMAIN Changed(row, new) \subseteq DOMAIN new
      /\ \A f \in DOMAIN Changed(row, new) : Changed(row, new)[f] = new[f]
  BY DEF Changed
<1>3. CatColumns(Changed(row, new))
  <2> PICK set : set = Changed(row, new) OBVIOUS
  <2>1. DOMAIN set \subseteq DOMAIN new /\ \A f \in DOMAIN set : set[f] = new[f] BY <1>2
  <2>2. CatColumns(set) BY <1>1, <2>1 DEF CatColumns
  <2>3. QED BY <2>2
<1>4. QED BY <1>1, <1>3

\* The same of items.
LEMMA ItemSent ==
    ASSUME NEW new \in ItemUpdates \cup [gone : BOOLEAN], NEW row
    PROVE  ItemColumns(Changed(row, new)) /\ ItemColumns(new)
<1>1. ItemColumns(new)
  <2>1. CASE new \in [cat : Cats] BY <2>1 DEF ItemColumns
  <2>2. CASE new \in [parent : Items \cup {None}] BY <2>2 DEF ItemColumns
  <2>3. CASE new \in [cat : Cats, parent : Items \cup {None}] BY <2>3 DEF ItemColumns
  <2>4. CASE new \in [gone : BOOLEAN] BY <2>4 DEF ItemColumns
  <2>5. QED BY <2>1, <2>2, <2>3, <2>4 DEF ItemUpdates
<1>2. PICK set : set = Changed(row, new) OBVIOUS
<1>3. DOMAIN set \subseteq DOMAIN new /\ \A f \in DOMAIN set : set[f] = new[f]
  BY <1>2 DEF Changed
<1>4. ItemColumns(set) BY <1>1, <1>3 DEF ItemColumns
<1>5. QED BY <1>1, <1>2, <1>4

\* What is written to a row of a tree leaves a row.
LEMMA RowsWritten ==
    ASSUME NEW set
    PROVE  /\ CatColumns(set) => \A row \in CatRow : Written(row, set) \in CatRow
           /\ ItemColumns(set) => \A row \in ItemRow : Written(row, set) \in ItemRow
           /\ TypeColumns(set) => \A row \in TypeRow : Written(row, set) \in TypeRow
<1>1. ASSUME CatColumns(set), NEW row \in CatRow PROVE Written(row, set) \in CatRow
  BY <1>1, CatsAssumption DEF CatColumns, CatRow, Written
<1>2. ASSUME ItemColumns(set), NEW row \in ItemRow PROVE Written(row, set) \in ItemRow
  BY <1>2, ItemsAssumption DEF ItemColumns, ItemRow, Written
<1>3. ASSUME TypeColumns(set), NEW row \in TypeRow PROVE Written(row, set) \in TypeRow
  BY <1>3, CatsAssumption DEF TypeColumns, TypeRow, Written
<1>4. QED BY <1>1, <1>2, <1>3

\* A restore writes one column, or nothing.
LEMMA Restored ==
    ASSUME NEW row, NEW set, set = Changed(row, [gone |-> FALSE])
    PROVE  /\ set = [gone |-> FALSE] \/ DOMAIN set = {}
           /\ TypeColumns(set) /\ CatColumns(set) /\ ItemColumns(set)
<1> PICK new : new = [gone |-> FALSE] OBVIOUS
<1>1. set = [f \in {g \in {"gone"} : new[g] # row[g]} |-> new[f]] BY DEF Changed
<1>2. ASSUME new["gone"] = row["gone"] PROVE DOMAIN set = {} BY <1>1, <1>2
<1>3. ASSUME new["gone"] # row["gone"] PROVE set = new
  <2>1. set = [f \in {"gone"} |-> new[f]] BY <1>1, <1>3
  <2>2. QED BY <2>1
<1>4. TypeColumns(set) /\ CatColumns(set) /\ ItemColumns(set)
  BY <1>1 DEF TypeColumns, CatColumns, ItemColumns
<1>5. QED BY <1>2, <1>3, <1>4

\* Calls on types.
LEMMA TypesBegin ==
    ASSUME TreeInv, NEW r \in Requests, TypeCalls(r)
    PROVE  TreeBegan(r)
<1> USE DEF TreeBegan
<1>1. PICK t \in Types : CreateType(r, t) \/ DeleteType(r, t) \/ RestoreType(r, t)
  BY DEF TypeCalls
<1>2. CASE CreateType(r, t)
  <2>1. PICK c : c = [op |-> "types", id |-> t, set |-> [gone |-> FALSE]] OBVIOUS
  <2>2. c.op = "types" /\ c.id = t /\ c.set = [gone |-> FALSE] BY <2>1
  <2>3. Begin(r, c) BY <1>2, <2>1 DEF CreateType
  <2>4. TreeCallOK(c) BY <2>2 DEF TreeCallOK, TypeColumns, TypeRow
  <2>5. QED BY <2>2, <2>3, <2>4 DEF TreeKnows
<1>3. CASE DeleteType(r, t)
  <2>1. PICK c : c = [op |-> "types", id |-> t, set |-> [gone |-> TRUE]] OBVIOUS
  <2>2. c.op = "types" /\ c.id = t /\ c.set = [gone |-> TRUE] BY <2>1
  <2>3. Begin(r, c) /\ \A x \in Cats : Live(cats[x]) => cats[x].type # t
    BY <1>3, <2>1 DEF DeleteType
  <2>4. TreeCallOK(c) BY <2>2 DEF TreeCallOK, TypeColumns, TypeRow
  <2>5. QED BY <2>2, <2>3, <2>4 DEF TreeKnows
<1>4. CASE RestoreType(r, t)
  <2>1. PICK set : set = Changed(types[t], [gone |-> FALSE]) OBVIOUS
  <2>2. PICK c : c = [op |-> "types", id |-> t, set |-> set] OBVIOUS
  <2>3. c.op = "types" /\ c.id = t /\ c.set = set BY <2>2
  <2>4. Begin(r, c) /\ types[t] # None BY <1>4, <2>1, <2>2 DEF RestoreType
  <2>10. PICK row : row = types[t] OBVIOUS
  <2>11. set = Changed(row, [gone |-> FALSE]) BY <2>1, <2>10
  <2>5. (DOMAIN set = {} \/ set = [gone |-> FALSE]) /\ TypeColumns(set)
    BY <2>11, Restored, Zenon
  <2>6. TreeCallOK(c) BY <2>3, <2>4, <2>5 DEF TreeCallOK
  <2>7. TreeKnows(c) BY <2>3, <2>5 DEF TreeKnows
  <2>8. QED BY <2>4, <2>6, <2>7
<1>5. QED BY <1>1, <1>2, <1>3, <1>4

\* A call that sends columns of a category which keep the tree.
LEMMA CatsBegin ==
    ASSUME NEW r \in Requests, NEW x \in Cats, NEW set, CatColumns(set),
           Begin(r, [op |-> "cats", id |-> x, set |-> set]),
           cats[x] = None => set \in CatRow,
           \/ set = [gone |-> FALSE] \/ DOMAIN set = {}
           \/ \A c : c.id = x /\ c.set = set /\ TreeSound =>
                 Forest(After(cats, c), "type") /\ TypesHold(After(cats, c))
    PROVE  TreeBegan(r)
<1>1. PICK c : c = [op |-> "cats", id |-> x, set |-> set] OBVIOUS
<1>2. c.op = "cats" /\ c.id = x /\ c.set = set /\ Begin(r, c) BY <1>1
<1>3. TreeCallOK(c) BY <1>2 DEF TreeCallOK
<1>4. TreeKnows(c) BY <1>2 DEF TreeKnows
<1>5. QED BY <1>2, <1>3, <1>4 DEF TreeBegan

\* The same of an item.
LEMMA ItemsBegin ==
    ASSUME NEW r \in Requests, NEW x \in Items, NEW set, ItemColumns(set),
           Begin(r, [op |-> "items", id |-> x, set |-> set]),
           items[x] = None => set \in ItemRow,
           \/ set = [gone |-> FALSE] \/ DOMAIN set = {}
           \/ \A c : c.id = x /\ c.set = set =>
                 /\ MenusSound => Forest(After(items, c), "cat")
                 /\ MenusFiled => FiledIn(After(items, c))
    PROVE  TreeBegan(r)
<1>1. PICK c : c = [op |-> "items", id |-> x, set |-> set] OBVIOUS
<1>2. c.op = "items" /\ c.id = x /\ c.set = set /\ Begin(r, c) BY <1>1
<1>3. TreeCallOK(c) BY <1>2 DEF TreeCallOK
<1>4. TreeKnows(c) BY <1>2 DEF TreeKnows
<1>5. QED BY <1>2, <1>3, <1>4 DEF TreeBegan

\* A row of a table is written, the others stay.
LEMMA AfterRow ==
    ASSUME NEW rows, NEW c, c.id \in DOMAIN rows
    PROVE  /\ Rewritten(rows, After(rows, c), c.id)
           /\ After(rows, c)[c.id] = Written(rows[c.id], c.set)
<1> PICK row : row = Written(rows[c.id], c.set) OBVIOUS
<1>1. After(rows, c) = [rows EXCEPT ![c.id] = row] BY DEF After
<1>2. QED BY <1>1 DEF Rewritten

\* A category that is written is in its type, and under its parent.
LEMMA PutKeepsTree ==
    ASSUME MenuTypeOK, NEW x \in Cats, NEW c, c.id = x, TreeSound,
           NEW row \in CatRow, row = Written(cats[x], c.set), ~row.gone, Live(types[row.type]),
           \/ row.parent = None
           \/ /\ row.parent \in Cats \ {x} /\ Live(cats[row.parent])
              /\ cats[row.parent].type = row.type
              /\ row.parent \notin Descendants(cats, x),
           \A y \in Children(cats, x) \ {x} : cats[y].type = row.type
    PROVE  Forest(After(cats, c), "type") /\ TypesHold(After(cats, c))
<1> PICK new : new = After(cats, c) OBVIOUS
<1>1. /\ Rooted(cats) /\ DOMAIN cats = Cats /\ Forest(cats, "type") /\ TypesHold(cats)
  BY Forests
<1>2. Rewritten(cats, new, x) /\ new[x] = row BY <1>1, AfterRow
<1>3. row # None /\ Live(new[x]) BY <1>2, CatsAssumption DEF Live
<1>4. cats \in [Cats -> CatRow \cup {None}] BY DEF MenuTypeOK, TreeTypeOK
<1>5. \A y \in Cats : Live(cats[y]) => cats[y] \in CatRow BY <1>4 DEF Live
<1>6. \A y \in CatRow : y.type = y["type"] BY DEF CatRow
<1>7. \A y \in Children(cats, x) \ {x} : cats[y]["type"] = new[x]["type"]
  BY <1>1, <1>2, <1>5, <1>6 DEF Children
<1>8. \/ new[x].parent = None
      \/ /\ new[x].parent \in DOMAIN cats \ {x} /\ Live(cats[new[x].parent])
         /\ cats[new[x].parent]["type"] = new[x]["type"]
         /\ new[x].parent \notin Descendants(cats, x)
  BY <1>1, <1>2, <1>5, <1>6
<1>9. Forest(new, "type") BY <1>1, <1>2, <1>3, <1>7, <1>8, HangKeepsForest
<1>10. TypesHold(new) BY <1>1, <1>2 DEF TypesHold, Rewritten
<1>11. QED BY <1>9, <1>10

\* Nor does one that is deleted while nothing is under it take the tree apart.
LEMMA DropKeepsTree ==
    ASSUME MenuTypeOK, NEW x \in Cats, NEW c, c.id = x, TreeSound,
           ~Live(Written(cats[x], c.set)), Children(cats, x) = {}
    PROVE  Forest(After(cats, c), "type") /\ TypesHold(After(cats, c))
<1> PICK new : new = After(cats, c) OBVIOUS
<1>1. /\ Rooted(cats) /\ DOMAIN cats = Cats /\ Forest(cats, "type") /\ TypesHold(cats)
  BY Forests
<1>2. Rewritten(cats, new, x) /\ ~Live(new[x]) BY <1>1, AfterRow
<1>3. Forest(new, "type") BY <1>1, <1>2, DropKeepsForest
<1>4. TypesHold(new) BY <1>1, <1>2 DEF TypesHold, Rewritten
<1>5. QED BY <1>3, <1>4

\* What is there is a row of its table.
LEMMA CatThere ==
    ASSUME MenuTypeOK, NEW x \in Cats, cats[x] # None
    PROVE  cats[x] \in CatRow /\ DOMAIN cats[x] = {"type", "parent", "active", "gone"}
<1>1. cats[x] \in CatRow BY DEF MenuTypeOK, TreeTypeOK
<1>2. QED BY <1>1 DEF CatRow

\* A category that is edited or moved goes where its guards looked.
LEMMA ChangeBegins ==
    ASSUME TreeInv, NEW r \in Requests, NEW x \in Cats, Live(cats[x]),
           NEW new \in CategoryUpdates, NEW t,
           t = IF "type" \in DOMAIN new THEN new.type ELSE cats[x].type,
           "type" \in DOMAIN new => Live(types[t]) /\ GuardTypeMove(x, t),
           "parent" \in DOMAIN new => GuardParent(x, new.parent, t),
           Begin(r, [op |-> "cats", id |-> x, set |-> Changed(cats[x], new)])
    PROVE  TreeBegan(r)
<1> PICK old : old = cats[x] OBVIOUS
<1> PICK set : set = Changed(old, new) OBVIOUS
<1>1. MenuTypeOK /\ old # None /\ ~old.gone BY DEF TreeInv, Live
<1>2. old \in CatRow /\ DOMAIN old = {"type", "parent", "active", "gone"} BY <1>1, CatThere
<1>3. CatColumns(set) BY CatSent
<1>4. PICK row : row = Written(old, set) OBVIOUS
<1>5. row \in CatRow BY <1>2, <1>3, <1>4, RowsWritten
<1>6. \A f \in DOMAIN old : row[f] = IF f \in DOMAIN new THEN new[f] ELSE old[f]
  BY <1>1, <1>4, Sent
<1>7. "gone" \notin DOMAIN new BY DEF CategoryUpdates
<1>8. /\ row.type = t
      /\ row.parent = IF "parent" \in DOMAIN new THEN new.parent ELSE old.parent
      /\ row.gone = FALSE
  BY <1>1, <1>2, <1>5, <1>6, <1>7 DEF CatRow
<1>9. CatColumns(new) BY CatSent
<1>10. ASSUME TreeSound
       PROVE  /\ Live(types[row.type])
              /\ \/ row.parent = None
                 \/ /\ row.parent \in Cats \ {x} /\ Live(cats[row.parent])
                    /\ cats[row.parent].type = row.type
                    /\ row.parent \notin Descendants(cats, x)
              /\ \A y \in Children(cats, x) \ {x} : cats[y].type = row.type
  <2>1. TypeHolds(x) /\ UnderItsOwn(x) /\ ~InRing(cats, x) BY <1>10 DEF TreeSound
  <2>2. Rooted(cats) /\ DOMAIN cats = Cats BY <1>1, Forests
  <2>3. Live(types[row.type]) BY <1>8, <2>1 DEF TypeHolds
  <2> DEFINE Placed == \/ row.parent = None
                       \/ /\ row.parent \in Cats \ {x} /\ Live(cats[row.parent])
                          /\ cats[row.parent].type = row.type
                          /\ row.parent \notin Descendants(cats, x)
  <2>4. ASSUME "parent" \in DOMAIN new PROVE Placed
    <3>1. row.parent \in Cats \cup {None} /\ GuardParent(x, row.parent, row.type)
      BY <1>8, <1>9, <2>4 DEF CatColumns
    <3>2. QED BY <3>1 DEF GuardParent, ParentFits
  <2>5. ASSUME "parent" \notin DOMAIN new, old.parent # None PROVE Placed
    <3>1. t = old.type BY <2>5 DEF GuardTypeMove
    <3>2. row.parent = old.parent /\ row.type = old.type BY <1>8, <2>5, <3>1
    <3>3. old.parent \in Cats BY <1>2, <2>5 DEF CatRow
    <3>4. Live(cats[old.parent]) /\ cats[old.parent].type = old.type
      BY <2>1, <2>5 DEF UnderItsOwn
    <3>5. IsFiniteSet(DOMAIN cats) /\ x \notin Descendants(cats, x)
      BY <2>1, <2>2 DEF InRing, Rooted
    <3>6. Closed(cats, x, Descendants(cats, x)) BY <3>5, DescendantsClosed
    <3>7. old.parent # x /\ old.parent \notin Descendants(cats, x)
      BY <2>2, <3>5, <3>6 DEF Closed
    <3>8. QED BY <3>2, <3>3, <3>4, <3>7
  <2>6. Placed BY <1>8, <2>4, <2>5
  <2>7. ASSUME NEW y \in Children(cats, x) \ {x} PROVE cats[y].type = row.type
    <3>1. t = old.type BY <2>7 DEF GuardTypeMove
    <3>2. y \in Cats /\ Live(cats[y]) /\ cats[y].parent = x BY <2>2, <2>7 DEF Children
    <3>3. UnderItsOwn(y) BY <1>10, <3>2 DEF TreeSound
    <3>4. x # None BY CatsAssumption
    <3>5. QED BY <1>8, <3>1, <3>2, <3>3, <3>4 DEF UnderItsOwn
  <2>8. QED BY <2>3, <2>6, <2>7
<1>11. ASSUME NEW c, c.id = x, c.set = set, TreeSound
       PROVE  Forest(After(cats, c), "type") /\ TypesHold(After(cats, c))
  <2>1. row = Written(cats[x], c.set) /\ ~row.gone BY <1>4, <1>8, <1>11
  <2>2. QED BY <1>1, <1>5, <1>10, <1>11, <2>1, PutKeepsTree
<1>12. QED BY <1>1, <1>3, <1>11, CatsBegin

\* Calls on categories.
LEMMA CategoriesBegin ==
    ASSUME TreeInv, NEW r \in Requests, CategoryCalls(r)
    PROVE  TreeBegan(r)
<1>1. MenuTypeOK BY DEF TreeInv
<1>2. ASSUME NEW x \in Cats, NEW t \in Types, NEW p \in Cats \cup {None},
             CreateCategory(r, x, t, p)
      PROVE  TreeBegan(r)
  <2>1. PICK set : set = [type |-> t, parent |-> p, active |-> TRUE, gone |-> FALSE] OBVIOUS
  <2>2. /\ cats[x] = None /\ Live(types[t]) /\ ParentFits(p, t)
        /\ Begin(r, [op |-> "cats", id |-> x, set |-> set])
    BY <1>2, <2>1 DEF CreateCategory
  <2>3. set \in CatRow /\ CatColumns(set) BY <2>1 DEF CatRow, CatColumns
  <2>4. set.type = t /\ set.parent = p /\ ~set.gone BY <2>1
  <2>5. ASSUME NEW c, c.id = x, c.set = set, TreeSound
        PROVE  Forest(After(cats, c), "type") /\ TypesHold(After(cats, c))
    <3>1. Rooted(cats) /\ DOMAIN cats = Cats /\ Forest(cats, "type") BY <1>1, <2>5, Forests
    <3>2. \A y \in Cats : Live(cats[y]) => cats[y].parent # x
      BY <2>2, <2>5, CatsAssumption DEF TreeSound, UnderItsOwn, Live
    <3>3. Children(cats, x) = {} BY <3>1, <3>2 DEF Children
    <3>4. Closed(cats, x, {}) BY <3>1, <3>2 DEF Closed
    <3>5. Descendants(cats, x) = {} BY <3>1, <3>4, DescendantsLeast DEF Rooted
    <3>6. set = Written(cats[x], c.set) BY <2>2, <2>5 DEF Written
    <3>7. p # None => p \in Cats \ {x} /\ Live(cats[p]) /\ cats[p].type = t
      BY <2>2 DEF ParentFits, Live
    <3>8. QED BY <1>1, <2>2, <2>3, <2>4, <2>5, <3>3, <3>5, <3>6, <3>7, PutKeepsTree
  <2>6. QED BY <2>2, <2>3, <2>5, CatsBegin
<1>3. ASSUME NEW x \in Cats, NEW new \in CategoryUpdates, UpdateCategory(r, x, new)
      PROVE  TreeBegan(r)
  <2>1. PICK t : t = IF "type" \in DOMAIN new THEN new.type ELSE cats[x].type OBVIOUS
  <2>2. QED BY <1>3, <2>1, ChangeBegins DEF UpdateCategory
<1>4. ASSUME NEW x \in Cats, NEW p \in Cats \cup {None}, MoveCategory(r, x, p)
      PROVE  TreeBegan(r)
  <2>1. PICK new : new = [parent |-> p] OBVIOUS
  <2>2. PICK t : t = cats[x].type OBVIOUS
  <2>3. /\ Live(cats[x]) /\ GuardParent(x, p, t)
        /\ Begin(r, [op |-> "cats", id |-> x, set |-> Changed(cats[x], new)])
    BY <1>4, <2>1, <2>2 DEF MoveCategory
  <2>4. new \in CategoryUpdates /\ "type" \notin DOMAIN new /\ new.parent = p
    BY <2>1 DEF CategoryUpdates
  <2>5. QED BY <2>2, <2>3, <2>4, ChangeBegins
<1>5. ASSUME NEW x \in Cats, DeleteCategory(r, x) PROVE TreeBegan(r)
  <2>1. PICK set : set = [gone |-> TRUE] OBVIOUS
  <2>2. /\ Live(cats[x]) /\ Children(cats, x) = {}
        /\ Begin(r, [op |-> "cats", id |-> x, set |-> set])
    BY <1>5, <2>1 DEF DeleteCategory
  <2>3. CatColumns(set) BY <2>1 DEF CatColumns
  <2>4. cats[x] # None /\ DOMAIN cats[x] = {"type", "parent", "active", "gone"}
    BY <1>1, <2>2, CatThere DEF Live
  <2>5. Written(cats[x], set).gone = TRUE BY <2>1, <2>4 DEF Written
  <2>6. ~Live(Written(cats[x], set)) BY <2>5 DEF Live
  <2>7. \A c : c.id = x /\ c.set = set /\ TreeSound =>
            Forest(After(cats, c), "type") /\ TypesHold(After(cats, c))
    BY <1>1, <2>2, <2>6, DropKeepsTree
  <2>8. QED BY <2>2, <2>3, <2>4, <2>7, CatsBegin
<1>6. ASSUME NEW x \in Cats, RestoreCategory(r, x) PROVE TreeBegan(r)
  <2>1. PICK set : set = Changed(cats[x], [gone |-> FALSE]) OBVIOUS
  <2>2. cats[x] # None /\ Begin(r, [op |-> "cats", id |-> x, set |-> set])
    BY <1>6, <2>1 DEF RestoreCategory
  <2>3. PICK row : row = cats[x] OBVIOUS
  <2>4. set = Changed(row, [gone |-> FALSE]) BY <2>1, <2>3
  <2>5. (set = [gone |-> FALSE] \/ DOMAIN set = {}) /\ CatColumns(set)
    BY <2>4, Restored, Zenon
  <2>6. QED BY <2>2, <2>5, CatsBegin
<1>7. QED BY <1>2, <1>3, <1>4, <1>5, <1>6 DEF CategoryCalls

\* What is there is a row of its table.
LEMMA ItemThere ==
    ASSUME MenuTypeOK, NEW x \in Items, items[x] # None
    PROVE  items[x] \in ItemRow /\ DOMAIN items[x] = {"cat", "parent", "gone"}
<1>1. items[x] \in ItemRow BY DEF MenuTypeOK
<1>2. QED BY <1>1 DEF ItemRow

\* An item that is written is in its navigation, and under its parent.
LEMMA PutKeepsMenus ==
    ASSUME MenuTypeOK, NEW x \in Items, NEW c, c.id = x, MenusSound,
           NEW row \in ItemRow, row = Written(items[x], c.set), ~row.gone,
           \/ row.parent = None
           \/ /\ row.parent \in Items \ {x} /\ Live(items[row.parent])
              /\ items[row.parent].cat = row.cat
              /\ row.parent \notin Descendants(items, x),
           \A y \in Children(items, x) \ {x} : items[y].cat = row.cat
    PROVE  Forest(After(items, c), "cat")
<1> PICK new : new = After(items, c) OBVIOUS
<1>1. Rooted(items) /\ DOMAIN items = Items /\ Forest(items, "cat") BY Forests
<1>2. Rewritten(items, new, x) /\ new[x] = row BY <1>1, AfterRow
<1>3. row # None /\ Live(new[x]) BY <1>2, ItemsAssumption DEF Live
<1>4. items \in [Items -> ItemRow \cup {None}] BY DEF MenuTypeOK
<1>5. \A y \in Items : Live(items[y]) => items[y] \in ItemRow BY <1>4 DEF Live
<1>6. \A y \in ItemRow : y.cat = y["cat"] BY DEF ItemRow
<1>7. \A y \in Children(items, x) \ {x} : items[y]["cat"] = new[x]["cat"]
  BY <1>1, <1>2, <1>5, <1>6 DEF Children
<1>8. \/ new[x].parent = None
      \/ /\ new[x].parent \in DOMAIN items \ {x} /\ Live(items[new[x].parent])
         /\ items[new[x].parent]["cat"] = new[x]["cat"]
         /\ new[x].parent \notin Descendants(items, x)
  BY <1>1, <1>2, <1>5, <1>6
<1>9. QED BY <1>1, <1>2, <1>3, <1>7, <1>8, HangKeepsForest

\* Items stay filed when one is written that is filed, or that is gone.
LEMMA FilingKept ==
    ASSUME MenuTypeOK, NEW x \in Items, NEW c, c.id = x, MenusFiled,
           NEW row, row = Written(items[x], c.set),
           Live(row) => Live(cats[row.cat]) /\ cats[row.cat].type = MenuType
    PROVE  FiledIn(After(items, c))
<1>1. DOMAIN items = Items BY Forests
<1>2. Rewritten(items, After(items, c), x) /\ After(items, c)[x] = row BY <1>1, AfterRow
<1>3. QED BY <1>1, <1>2 DEF FiledIn, MenusFiled, Rewritten

\* An item that is edited or moved goes where its guards looked.
LEMMA ItemChangeBegins ==
    ASSUME TreeInv, NEW r \in Requests, NEW x \in Items, Live(items[x]),
           NEW new \in ItemUpdates, NEW k,
           k = IF "cat" \in DOMAIN new THEN new.cat ELSE items[x].cat,
           k # items[x].cat => Resolves(k) /\ GuardCategoryMove(x),
           "parent" \in DOMAIN new => GuardItemParent(x, new.parent, k),
           Begin(r, [op |-> "items", id |-> x, set |-> Changed(items[x], new)])
    PROVE  TreeBegan(r)
<1> PICK old : old = items[x] OBVIOUS
<1> PICK set : set = Changed(old, new) OBVIOUS
<1>1. MenuTypeOK /\ old # None /\ ~old.gone BY DEF TreeInv, Live
<1>2. old \in ItemRow /\ DOMAIN old = {"cat", "parent", "gone"} BY <1>1, ItemThere
<1>3. ItemColumns(set) BY ItemSent
<1>4. PICK row : row = Written(old, set) OBVIOUS
<1>5. row \in ItemRow BY <1>2, <1>3, <1>4, RowsWritten
<1>6. \A f \in DOMAIN old : row[f] = IF f \in DOMAIN new THEN new[f] ELSE old[f]
  BY <1>1, <1>4, Sent
<1>7. "gone" \notin DOMAIN new BY DEF ItemUpdates
<1>8. /\ row.cat = k
      /\ row.parent = IF "parent" \in DOMAIN new THEN new.parent ELSE old.parent
      /\ row.gone = FALSE
  BY <1>1, <1>2, <1>5, <1>6, <1>7 DEF ItemRow
<1>9. ItemColumns(new) BY ItemSent
<1>10. ASSUME MenusSound
       PROVE  /\ \/ row.parent = None
                 \/ /\ row.parent \in Items \ {x} /\ Live(items[row.parent])
                    /\ items[row.parent].cat = row.cat
                    /\ row.parent \notin Descendants(items, x)
              /\ \A y \in Children(items, x) \ {x} : items[y].cat = row.cat
  <2>1. ItemSound(x) BY <1>10 DEF MenusSound
  <2>2. Rooted(items) /\ DOMAIN items = Items BY <1>1, Forests
  <2> DEFINE Placed == \/ row.parent = None
                       \/ /\ row.parent \in Items \ {x} /\ Live(items[row.parent])
                          /\ items[row.parent].cat = row.cat
                          /\ row.parent \notin Descendants(items, x)
  <2>4. ASSUME "parent" \in DOMAIN new PROVE Placed
    <3>1. row.parent \in Items \cup {None} /\ GuardItemParent(x, row.parent, row.cat)
      BY <1>8, <1>9, <2>4 DEF ItemColumns
    <3>2. QED BY <3>1 DEF GuardItemParent, ItemParentFits
  <2>5. ASSUME "parent" \notin DOMAIN new, old.parent # None PROVE Placed
    <3>1. k = old.cat BY <2>5 DEF GuardCategoryMove
    <3>2. row.parent = old.parent /\ row.cat = old.cat BY <1>8, <2>5, <3>1
    <3>3. old.parent \in Items BY <1>2, <2>5 DEF ItemRow
    <3>4. Live(items[old.parent]) /\ items[old.parent].cat = old.cat /\ ~InRing(items, x)
      BY <2>1, <2>5 DEF ItemSound
    <3>5. IsFiniteSet(DOMAIN items) /\ x \notin Descendants(items, x)
      BY <2>2, <3>4 DEF InRing, Rooted
    <3>6. Closed(items, x, Descendants(items, x)) BY <3>5, DescendantsClosed
    <3>7. old.parent # x /\ old.parent \notin Descendants(items, x)
      BY <2>2, <3>5, <3>6 DEF Closed
    <3>8. QED BY <3>2, <3>3, <3>4, <3>7
  <2>6. Placed BY <1>8, <2>4, <2>5
  <2>7. ASSUME NEW y \in Children(items, x) \ {x} PROVE items[y].cat = row.cat
    <3>1. k = old.cat BY <2>7 DEF GuardCategoryMove
    <3>2. y \in Items /\ Live(items[y]) /\ items[y].parent = x BY <2>2, <2>7 DEF Children
    <3>3. ItemSound(y) BY <1>10, <3>2 DEF MenusSound
    <3>4. x # None BY ItemsAssumption
    <3>5. QED BY <1>8, <3>1, <3>2, <3>3, <3>4 DEF ItemSound
  <2>8. QED BY <2>6, <2>7
<1>11. ASSUME NEW c, c.id = x, c.set = set, MenusSound PROVE Forest(After(items, c), "cat")
  <2>1. row = Written(items[x], c.set) /\ ~row.gone BY <1>4, <1>8, <1>11
  <2>2. QED BY <1>1, <1>5, <1>10, <1>11, <2>1, PutKeepsMenus
<1>12. ASSUME NEW c, c.id = x, c.set = set, MenusFiled PROVE FiledIn(After(items, c))
  <2>1. Live(cats[old.cat]) /\ cats[old.cat].type = MenuType BY <1>12 DEF MenusFiled
  <2>2. Live(cats[row.cat]) /\ cats[row.cat].type = MenuType BY <1>8, <2>1 DEF Resolves
  <2>3. row = Written(items[x], c.set) BY <1>4, <1>12
  <2>4. QED BY <1>1, <1>12, <2>2, <2>3, FilingKept
<1>13. QED BY <1>1, <1>3, <1>11, <1>12, ItemsBegin

\* Calls on items.
LEMMA MenuBegins ==
    ASSUME TreeInv, NEW r \in Requests, MenuLoad(r)
    PROVE  TreeBegan(r)
<1>1. MenuTypeOK BY DEF TreeInv
<1>2. ASSUME NEW x \in Items, NEW k \in Cats, NEW p \in Items \cup {None},
             CreateItem(r, x, k, p)
      PROVE  TreeBegan(r)
  <2>1. PICK set : set = [cat |-> k, parent |-> p, gone |-> FALSE] OBVIOUS
  <2>2. /\ items[x] = None /\ Resolves(k) /\ ItemParentFits(p, k)
        /\ Begin(r, [op |-> "items", id |-> x, set |-> set])
    BY <1>2, <2>1 DEF CreateItem
  <2>3. set \in ItemRow /\ ItemColumns(set) BY <2>1 DEF ItemRow, ItemColumns
  <2>4. set.cat = k /\ set.parent = p /\ ~set.gone BY <2>1
  <2>5. ASSUME NEW c, c.id = x, c.set = set, MenusSound PROVE Forest(After(items, c), "cat")
    <3>1. Rooted(items) /\ DOMAIN items = Items /\ Forest(items, "cat") BY <1>1, <2>5, Forests
    <3>2. \A y \in Items : Live(items[y]) => items[y].parent # x
      BY <2>2, <2>5, ItemsAssumption DEF MenusSound, ItemSound, Live
    <3>3. Children(items, x) = {} BY <3>1, <3>2 DEF Children
    <3>4. Closed(items, x, {}) BY <3>1, <3>2 DEF Closed
    <3>5. Descendants(items, x) = {} BY <3>1, <3>4, DescendantsLeast DEF Rooted
    <3>6. set = Written(items[x], c.set) BY <2>2, <2>5 DEF Written
    <3>7. p # None => p \in Items \ {x} /\ Live(items[p]) /\ items[p].cat = k
      BY <2>2 DEF ItemParentFits, Live
    <3>8. QED BY <1>1, <2>2, <2>3, <2>4, <2>5, <3>3, <3>5, <3>6, <3>7, PutKeepsMenus
  <2>6. ASSUME NEW c, c.id = x, c.set = set, MenusFiled PROVE FiledIn(After(items, c))
    <3>1. set = Written(items[x], c.set) BY <2>2, <2>6 DEF Written
    <3>2. QED BY <1>1, <2>2, <2>4, <2>6, <3>1, FilingKept DEF Resolves
  <2>7. QED BY <2>2, <2>3, <2>5, <2>6, ItemsBegin
<1>3. ASSUME NEW x \in Items, NEW new \in ItemUpdates, UpdateItem(r, x, new)
      PROVE  TreeBegan(r)
  <2>1. PICK k : k = IF "cat" \in DOMAIN new THEN new.cat ELSE items[x].cat OBVIOUS
  <2>2. QED BY <1>3, <2>1, ItemChangeBegins DEF UpdateItem
<1>4. ASSUME NEW x \in Items, NEW p \in Items \cup {None}, MoveItem(r, x, p)
      PROVE  TreeBegan(r)
  <2>1. PICK new : new = [parent |-> p] OBVIOUS
  <2>2. PICK k : k = items[x].cat OBVIOUS
  <2>3. /\ Live(items[x]) /\ GuardItemParent(x, p, k)
        /\ Begin(r, [op |-> "items", id |-> x, set |-> Changed(items[x], new)])
    BY <1>4, <2>1, <2>2 DEF MoveItem
  <2>4. new \in ItemUpdates /\ "cat" \notin DOMAIN new /\ new.parent = p
    BY <2>1 DEF ItemUpdates
  <2>5. QED BY <2>2, <2>3, <2>4, ItemChangeBegins
<1>5. ASSUME NEW x \in Items, DeleteItem(r, x) PROVE TreeBegan(r)
  <2>1. PICK set : set = [gone |-> TRUE] OBVIOUS
  <2>2. /\ Live(items[x]) /\ Children(items, x) = {}
        /\ Begin(r, [op |-> "items", id |-> x, set |-> set])
    BY <1>5, <2>1 DEF DeleteItem
  <2>3. ItemColumns(set) BY <2>1 DEF ItemColumns
  <2>4. items[x] # None /\ DOMAIN items[x] = {"cat", "parent", "gone"}
    BY <1>1, <2>2, ItemThere DEF Live
  <2>5. Written(items[x], set).gone = TRUE BY <2>1, <2>4 DEF Written
  <2>6. ~Live(Written(items[x], set)) BY <2>5 DEF Live
  <2>7. Rooted(items) /\ DOMAIN items = Items /\ (MenusSound => Forest(items, "cat"))
    BY <1>1, Forests
  <2>8. ASSUME NEW c, c.id = x, c.set = set
        PROVE  /\ MenusSound => Forest(After(items, c), "cat")
               /\ MenusFiled => FiledIn(After(items, c))
    <3>1. Rewritten(items, After(items, c), x) /\ ~Live(After(items, c)[x])
      BY <2>6, <2>7, <2>8, AfterRow
    <3>2. MenusSound => Forest(After(items, c), "cat") BY <2>2, <2>7, <3>1, DropKeepsForest
    <3>3. MenusFiled => FiledIn(After(items, c)) BY <1>1, <2>6, <2>8, FilingKept
    <3>4. QED BY <3>2, <3>3
  <2>9. QED BY <2>2, <2>3, <2>4, <2>8, ItemsBegin
<1>6. ASSUME NEW x \in Items, RestoreItem(r, x) PROVE TreeBegan(r)
  <2>1. PICK set : set = Changed(items[x], [gone |-> FALSE]) OBVIOUS
  <2>2. items[x] # None /\ Begin(r, [op |-> "items", id |-> x, set |-> set])
    BY <1>6, <2>1 DEF RestoreItem
  <2>3. PICK row : row = items[x] OBVIOUS
  <2>4. set = Changed(row, [gone |-> FALSE]) BY <2>1, <2>3
  <2>5. (set = [gone |-> FALSE] \/ DOMAIN set = {}) /\ ItemColumns(set)
    BY <2>4, Restored, Zenon
  <2>6. QED BY <2>2, <2>5, ItemsBegin
<1>7. QED BY <1>2, <1>3, <1>4, <1>5, <1>6 DEF MenuLoad

\* Trees of the same rows are as sound.
LEMMA SameTrees ==
    ASSUME UNCHANGED menuVars
    PROVE  /\ MenuTypeOK' = MenuTypeOK
           /\ \A c : TreeCallOK(c) => TreeCallOK(c)'
           /\ \A c : TreeKnows(c) => TreeKnows(c)'
<1>1. UNCHANGED <<types, cats, items>> BY DEF menuVars
<1>2. MenuTypeOK' = MenuTypeOK BY <1>1 DEF MenuTypeOK, TreeTypeOK
<1>3. \A c : TreeCallOK(c) => TreeCallOK(c)'
  BY <1>1 DEF TreeCallOK, TypeColumns, CatColumns, ItemColumns
<1>4. ASSUME NEW c, TreeKnows(c) PROVE TreeKnows(c)'
  <2>1. TreeSound' <=> TreeSound BY <1>1 DEF TreeSound, TypeHolds, UnderItsOwn, InRing
  <2>2. MenusSound' <=> MenusSound BY <1>1 DEF MenusSound, ItemSound, InRing
  <2>3. MenusFiled' <=> MenusFiled BY <1>1 DEF MenusFiled
  <2>4. After(cats, c)' = After(cats, c) BY <1>1 DEF After
  <2>5. After(items, c)' = After(items, c) BY <1>1 DEF After
  <2>6. QED BY <1>1, <1>4, <2>1, <2>2, <2>3, <2>4, <2>5 DEF TreeKnows, TypesHold, FiledIn
<1>5. QED BY <1>2, <1>3, <1>4

\* A step of one request on tables that lose no row: what the other requests'
\* calls carry stays in order.
LEMMA TreeMoves ==
    ASSUME CallsInv, TreeInv, TreeWise, NEW r \in Requests, NEW c, Moves(r, c),
           r \in load.crowd, MenuTypeOK',
           \A x \in Types : types[x] # None => types'[x] # None,
           \A x \in Cats : cats[x] # None => cats'[x] # None,
           \A x \in Items : items[x] # None => items'[x] # None,
           c = None \/ (TreeCallOK(c)' /\ TreeKnows(c)')
    PROVE  CallsStep /\ TreeInv' /\ TreeWise'
<1>1. call'[r] = c /\ (\A q \in Requests \ {r} : call'[q] = call[q]) /\ load' = load BY Moved
<1>2. ASSUME NEW q \in Requests, call'[q] # None PROVE TreeCallOK(call[q])'
  <2>1. CASE q = r BY <1>1, <1>2, <2>1
  <2>2. CASE q # r
    <3>1. call'[q] = call[q] /\ TreeCallOK(call[q]) BY <1>1, <1>2, <2>2 DEF TreeInv
    <3>2. QED BY <3>1 DEF TreeCallOK, TypeColumns, CatColumns, ItemColumns
  <2>3. QED BY <2>1, <2>2
<1>3. TreeInv' BY <1>2 DEF TreeInv
<1>4. ASSUME Alone, NEW q \in Requests, call'[q] # None PROVE TreeKnows(call[q])'
  <2>1. q = r
    <3>1. IsFiniteSet(load.crowd) BY LoadsAssumption DEF CallsInv
    <3>2. PICK x : load.crowd = {x} BY <1>4, <3>1, FS_Singleton DEF Alone
    <3>3. q = r \/ q \in load.crowd BY <1>1, <1>4 DEF CallsInv
    <3>4. QED BY <3>2, <3>3
  <2>2. QED BY <2>1, <1>1, <1>4
<1>5. TreeWise' BY <1>1, <1>4 DEF TreeWise, Alone
<1>6. QED BY <1>3, <1>5 DEF CallsStep

\* A call that begins, and one that is lost.
LEMMA TreeBeganKeeps ==
    ASSUME CallsInv, TreeInv, TreeWise, NEW r \in Requests, UNCHANGED menuVars,
           TreeBegan(r) \/ Die(r)
    PROVE  CallsStep /\ TreeInv' /\ TreeWise'
<1>1. UNCHANGED <<types, cats, items>> BY DEF menuVars
<1>2. MenuTypeOK' BY SameTrees DEF TreeInv
<1>3. CASE TreeBegan(r)
  <2>1. PICK c : Begin(r, c) /\ TreeCallOK(c) /\ TreeKnows(c) BY <1>3 DEF TreeBegan
  <2>2. Moves(r, c) /\ r \in load.crowd BY <2>1, BeginMoves DEF Begin
  <2>3. TreeCallOK(c)' /\ TreeKnows(c)' BY <2>1, SameTrees
  <2>4. QED BY <1>1, <1>2, <2>2, <2>3, TreeMoves
<1>4. CASE Die(r)
  <2>1. Moves(r, None) /\ r \in load.crowd BY <1>4, EndMoves DEF Die, CallsInv
  <2>2. QED BY <1>1, <1>2, <2>1, TreeMoves
<1>5. QED BY <1>3, <1>4

\* A sound tree, in any state.
LEMMA SoundTrees == MenuTypeOK => (TreeSound <=> Forest(cats, "type") /\ TypesHold(cats))
  BY Forests

\* The same of items.
LEMMA SoundMenus == MenuTypeOK => (MenusSound <=> Forest(items, "cat"))
  BY Forests

\* The table of one kind of rows after a call has written its row.
LEMMA TableWritten ==
    ASSUME NEW table, NEW Ids, NEW Rows, table \in [Ids -> Rows \cup {None}], None \notin Rows,
           NEW c, c.id \in Ids, table[c.id] = None => c.set \in Rows,
           \A row \in Rows : Written(row, c.set) \in Rows
    PROVE  /\ After(table, c) \in [Ids -> Rows \cup {None}]
           /\ \A x \in Ids : table[x] # None => After(table, c)[x] # None
<1> PICK row : row = Written(table[c.id], c.set) OBVIOUS
<1>1. After(table, c) = [table EXCEPT ![c.id] = row] BY DEF After
<1>2. row \in Rows
  <2>1. CASE table[c.id] = None BY <2>1 DEF Written
  <2>2. CASE table[c.id] # None BY <2>2
  <2>3. QED BY <2>1, <2>2
<1>3. QED BY <1>1, <1>2

\* A call that is about to write a row of a tree.
LEMMA WritesTree ==
    ASSUME CallsInv, TreeInv, NEW r \in Requests, call[r] # None
    PROVE  /\ r \in load.crowd /\ TreeCallOK(call[r])
           /\ types \in [Types -> TypeRow \cup {None}] /\ None \notin TypeRow
           /\ cats \in [Cats -> CatRow \cup {None}] /\ None \notin CatRow
           /\ items \in [Items -> ItemRow \cup {None}] /\ None \notin ItemRow
           /\ TreeWise /\ Alone => TreeKnows(call[r])
  BY CatsAssumption, ItemsAssumption
     DEF CallsInv, TreeInv, TreeWise, MenuTypeOK, TreeTypeOK

\* A type is written: it held no category, or it comes back.
LEMMA WriteTypeKeeps ==
    ASSUME CallsInv, TreeInv, TreeWise, NEW r \in Requests, WriteType(r), UNCHANGED items
    PROVE  /\ CallsStep /\ TreeInv' /\ TreeWise'
           /\ Alone => Restores(r) \/ (TreeSound => TreeSound')
<1> PICK c : c = call[r] OBVIOUS
<1>1. /\ c # None /\ c.op = "types" /\ types' = After(types, c) /\ End(r)
      /\ UNCHANGED <<cats, items>>
  BY DEF WriteType, Doing, After
<1>2. /\ types \in [Types -> TypeRow \cup {None}] /\ None \notin TypeRow
      /\ c.id \in Types /\ TypeColumns(c.set) /\ (types[c.id] = None => c.set \in TypeRow)
      /\ Alone => TreeKnows(c)
  BY <1>1, WritesTree DEF TreeCallOK
<1>3. \A row \in TypeRow : Written(row, c.set) \in TypeRow BY <1>2, RowsWritten
<1>4. /\ types' \in [Types -> TypeRow \cup {None}]
      /\ \A x \in Types : types[x] # None => types'[x] # None
  BY <1>1, <1>2, <1>3, TableWritten
<1>5. MenuTypeOK' BY <1>1, <1>4 DEF TreeInv, MenuTypeOK, TreeTypeOK
<1>6. Moves(r, None) /\ r \in load.crowd BY <1>1, EndMoves, WritesTree
<1>7. CallsStep /\ TreeInv' /\ TreeWise' BY <1>1, <1>4, <1>5, <1>6, TreeMoves
<1>8. ASSUME Alone, ~Restores(r), TreeSound PROVE TreeSound'
  <2>1. TreeKnows(c) /\ c.set # [gone |-> FALSE] BY <1>1, <1>2, <1>8 DEF Restores
  <2>2. ASSUME NEW x \in Cats, Live(cats[x]) PROVE Live(types'[cats[x].type])
    <3>1. Live(types[cats[x].type]) BY <1>8, <2>2 DEF TreeSound, TypeHolds
    <3>2. CASE DOMAIN c.set = {}
      <4>1. \A row \in TypeRow : Written(row, c.set) = row
        BY <1>2, <3>2 DEF Written, TypeRow
      <4>2. types[c.id] # None BY <1>2, <3>2 DEF TypeRow
      <4>3. types' = types BY <1>1, <1>2, <4>1, <4>2 DEF After
      <4>4. QED BY <3>1, <4>3
    <3>3. CASE cats[x].type # c.id BY <1>1, <1>2, <3>1, <3>3 DEF After
    <3>4. QED BY <1>1, <2>1, <2>2, <3>2, <3>3 DEF TreeKnows
  <2>3. QED BY <1>1, <1>8, <2>2 DEF TreeSound, TypeHolds, UnderItsOwn, InRing
<1>9. QED BY <1>7, <1>8

\* A category is written: it went where it keeps the tree, or it comes back.
LEMMA WriteCategoryKeeps ==
    ASSUME CallsInv, TreeInv, TreeWise, NEW r \in Requests, WriteCategory(r), UNCHANGED items
    PROVE  /\ CallsStep /\ TreeInv' /\ TreeWise'
           /\ Alone => Restores(r) \/ (TreeSound => TreeSound')
<1> PICK c : c = call[r] OBVIOUS
<1>1. /\ c # None /\ c.op = "cats" /\ cats' = After(cats, c) /\ End(r)
      /\ UNCHANGED <<types, items>>
  BY DEF WriteCategory, Doing, After
<1>2. /\ cats \in [Cats -> CatRow \cup {None}] /\ None \notin CatRow
      /\ c.id \in Cats /\ CatColumns(c.set) /\ (cats[c.id] = None => c.set \in CatRow)
      /\ Alone => TreeKnows(c)
  BY <1>1, WritesTree DEF TreeCallOK
<1>3. \A row \in CatRow : Written(row, c.set) \in CatRow BY <1>2, RowsWritten
<1>4. /\ cats' \in [Cats -> CatRow \cup {None}]
      /\ \A x \in Cats : cats[x] # None => cats'[x] # None
  BY <1>1, <1>2, <1>3, TableWritten
<1>5. MenuTypeOK' BY <1>1, <1>4 DEF TreeInv, MenuTypeOK, TreeTypeOK
<1>6. Moves(r, None) /\ r \in load.crowd BY <1>1, EndMoves, WritesTree
<1>7. CallsStep /\ TreeInv' /\ TreeWise' BY <1>1, <1>4, <1>5, <1>6, TreeMoves
<1>8. ASSUME Alone, ~Restores(r), TreeSound PROVE TreeSound'
  <2>1. TreeKnows(c) /\ c.set # [gone |-> FALSE] BY <1>1, <1>2, <1>8 DEF Restores
  <2>2. CASE DOMAIN c.set = {}
    <3>1. \A row \in CatRow : Written(row, c.set) = row BY <1>2, <2>2 DEF Written, CatRow
    <3>2. cats[c.id] # None BY <1>2, <2>2 DEF CatRow
    <3>3. cats' = cats BY <1>1, <1>2, <3>1, <3>2 DEF After
    <3>4. QED BY <1>1, <1>8, <3>3 DEF TreeSound, TypeHolds, UnderItsOwn, InRing
  <2>3. CASE Forest(After(cats, c), "type") /\ TypesHold(After(cats, c))
    <3>1. Forest(cats, "type")' BY <1>1, <2>3
    <3>2. TypesHold(cats)' BY <1>1, <2>3 DEF TypesHold
    <3>3. (MenuTypeOK => (TreeSound <=> Forest(cats, "type") /\ TypesHold(cats)))'
      BY SoundTrees, PTL
    <3>4. QED BY <1>5, <3>1, <3>2, <3>3
  <2>4. QED BY <1>1, <1>8, <2>1, <2>2, <2>3 DEF TreeKnows
<1>9. QED BY <1>7, <1>8

\* An item is written: it went where it keeps the menus, or it comes back.
LEMMA WriteItemKeeps ==
    ASSUME CallsInv, TreeInv, TreeWise, NEW r \in Requests, WriteItem(r)
    PROVE  /\ CallsStep /\ TreeInv' /\ TreeWise'
           /\ Alone => \/ Restores(r)
                       \/ (MenusSound => MenusSound') /\ (MenusFiled => MenusFiled')
<1> PICK c : c = call[r] OBVIOUS
<1>1. /\ c # None /\ c.op = "items" /\ items' = After(items, c) /\ End(r)
      /\ UNCHANGED <<types, cats>>
  BY DEF WriteItem, Doing, After, treeVars
<1>2. /\ items \in [Items -> ItemRow \cup {None}] /\ None \notin ItemRow
      /\ c.id \in Items /\ ItemColumns(c.set) /\ (items[c.id] = None => c.set \in ItemRow)
      /\ Alone => TreeKnows(c)
  BY <1>1, WritesTree DEF TreeCallOK
<1>3. \A row \in ItemRow : Written(row, c.set) \in ItemRow BY <1>2, RowsWritten
<1>4. /\ items' \in [Items -> ItemRow \cup {None}]
      /\ \A x \in Items : items[x] # None => items'[x] # None
  BY <1>1, <1>2, <1>3, TableWritten
<1>5. MenuTypeOK' BY <1>1, <1>4 DEF TreeInv, MenuTypeOK, TreeTypeOK
<1>6. Moves(r, None) /\ r \in load.crowd BY <1>1, EndMoves, WritesTree
<1>7. CallsStep /\ TreeInv' /\ TreeWise' BY <1>1, <1>4, <1>5, <1>6, TreeMoves
<1>8. ASSUME Alone, ~Restores(r)
      PROVE  (MenusSound => MenusSound') /\ (MenusFiled => MenusFiled')
  <2>1. TreeKnows(c) /\ c.set # [gone |-> FALSE] BY <1>1, <1>2, <1>8 DEF Restores
  <2>2. CASE DOMAIN c.set = {}
    <3>1. \A row \in ItemRow : Written(row, c.set) = row BY <1>2, <2>2 DEF Written, ItemRow
    <3>2. items[c.id] # None BY <1>2, <2>2 DEF ItemRow
    <3>3. items' = items BY <1>1, <1>2, <3>1, <3>2 DEF After
    <3>4. QED BY <1>1, <3>3 DEF MenusSound, MenusFiled, ItemSound, InRing
  <2>3. CASE /\ MenusSound => Forest(After(items, c), "cat")
             /\ MenusFiled => FiledIn(After(items, c))
    <3>1. MenusSound => Forest(items, "cat")' BY <1>1, <2>3
    <3>2. MenusFiled => MenusFiled' BY <1>1, <2>3 DEF MenusFiled, FiledIn
    <3>3. (MenuTypeOK => (MenusSound <=> Forest(items, "cat")))' BY SoundMenus, PTL
    <3>4. QED BY <1>5, <3>1, <3>2, <3>3
  <2>4. QED BY <1>1, <2>1, <2>2, <2>3 DEF TreeKnows
<1>9. QED BY <1>7, <1>8

\* What a step of the trees may do to them.
TreesKeep == Alone =>
    /\ TreeSound /\ ~TreeSound' => \E r \in Requests : Restores(r)
    /\ MenusSound /\ ~MenusSound' => \E r \in Requests : Restores(r)
    /\ MenusFiled /\ ~MenusFiled' => cats' # cats \/ \E r \in Requests : Restores(r)

\* Items that nobody wrote.
LEMMA SameItems ==
    ASSUME UNCHANGED items
    PROVE  (MenusSound => MenusSound') /\ (cats' = cats => (MenusFiled => MenusFiled'))
  BY DEF MenusSound, ItemSound, InRing, MenusFiled

\* Trees that nobody wrote.
LEMMA SameCats ==
    ASSUME UNCHANGED treeVars
    PROVE  TreeSound => TreeSound'
<1>1. UNCHANGED <<types, cats>> BY DEF treeVars
<1>2. QED BY <1>1 DEF TreeSound, TypeHolds, UnderItsOwn, InRing

\* Every step of the trees.
LEMMA TreeStep ==
    ASSUME CallsInv, TreeInv, TreeWise, MenuNext \/ (TreeNext /\ UNCHANGED items)
    PROVE  CallsStep /\ TreeInv' /\ TreeWise' /\ TreesKeep
<1>1. ASSUME NEW r \in Requests, UNCHANGED menuVars, TreeBegan(r) \/ Die(r)
      PROVE  CallsStep /\ TreeInv' /\ TreeWise' /\ TreesKeep
  <2>1. UNCHANGED treeVars /\ UNCHANGED items /\ cats' = cats
    BY <1>1 DEF menuVars, treeVars
  <2>2. TreesKeep BY <2>1, SameItems, SameCats DEF TreesKeep
  <2>3. QED BY <1>1, <2>2, TreeBeganKeeps
<1>2. ASSUME NEW r \in Requests, WriteType(r) \/ WriteCategory(r), UNCHANGED items
      PROVE  CallsStep /\ TreeInv' /\ TreeWise' /\ TreesKeep
  <2>1. /\ CallsStep /\ TreeInv' /\ TreeWise'
        /\ Alone => Restores(r) \/ (TreeSound => TreeSound')
    BY <1>2, WriteTypeKeeps, WriteCategoryKeeps
  <2>2. TreesKeep BY <1>2, <2>1, SameItems DEF TreesKeep
  <2>3. QED BY <2>1, <2>2
<1>3. ASSUME NEW r \in Requests, WriteItem(r)
      PROVE  CallsStep /\ TreeInv' /\ TreeWise' /\ TreesKeep
  <2>1. /\ CallsStep /\ TreeInv' /\ TreeWise'
        /\ Alone => \/ Restores(r)
                    \/ (MenusSound => MenusSound') /\ (MenusFiled => MenusFiled')
    BY <1>3, WriteItemKeeps
  <2>2. UNCHANGED treeVars BY <1>3 DEF WriteItem
  <2>3. TreesKeep BY <2>1, <2>2, SameCats DEF TreesKeep
  <2>4. QED BY <2>1, <2>3
<1>4. CASE TreeNext /\ UNCHANGED items
  <2>1. PICK r \in Requests : \/ (TypeCalls(r) \/ CategoryCalls(r)) /\ UNCHANGED treeVars
                              \/ WriteType(r)
                              \/ WriteCategory(r)
                              \/ Die(r) /\ UNCHANGED treeVars
    BY <1>4 DEF TreeNext
  <2>2. UNCHANGED treeVars => UNCHANGED menuVars BY <1>4 DEF treeVars, menuVars
  <2>3. QED BY <1>1, <1>2, <1>4, <2>1, <2>2, TypesBegin, CategoriesBegin
<1>5. CASE \E r \in Requests : MenuLoad(r) /\ UNCHANGED menuVars
  BY <1>1, <1>5, MenuBegins
<1>6. QED BY <1>3, <1>4, <1>5 DEF MenuNext

\* A step of the site is one of the trees, or leaves them alone.
LEMMA TreePart ==
    ASSUME [SiteNext]_siteVars
    PROVE  \/ (On("categories") \/ On("menus")) /\ (MenuNext \/ (TreeNext /\ UNCHANGED items))
           \/ UNCHANGED <<menuVars, callVars>>
           \/ ~On("categories") /\ ~On("menus") /\ UNCHANGED menuVars
<1>1. ASSUME UNCHANGED treeVars, UNCHANGED items PROVE UNCHANGED menuVars
  BY <1>1 DEF treeVars, menuVars
<1>2. CASE UNCHANGED siteVars BY <1>1, <1>2 DEF siteVars, contentVars
<1>3. CASE ContentNext /\ UNCHANGED <<peopleVars, officeVars>>
  <2>1. CASE On("categories") /\ TreeNext /\ UNCHANGED contentVars
    BY <2>1 DEF contentVars
  <2>2. CASE On("menus") /\ MenuNext BY <2>2
  <2>3. CASE load.part \in Kinds /\ ArticleNext /\ UNCHANGED items
    <3>1. UNCHANGED treeVars BY <2>3 DEF ArticleNext, articleVars, WriteArticle
    <3>2. QED BY <1>1, <2>3, <3>1 DEF On, Kinds
  <2>4. CASE On("data") /\ DataNext /\ UNCHANGED items
    <3>1. UNCHANGED treeVars BY <2>4 DEF DataNext, dataVars, WriteField, WriteRecord
    <3>2. QED BY <1>1, <2>4, <3>1 DEF On
  <2>5. QED BY <1>3, <2>1, <2>2, <2>3, <2>4 DEF ContentNext
<1>4. CASE PeopleNext /\ UNCHANGED <<treeVars, contentVars, officeVars>>
  BY <1>1, <1>4 DEF PeopleNext, contentVars, On
<1>5. CASE OfficeNext /\ UNCHANGED <<treeVars, contentVars, peopleVars>>
  BY <1>1, <1>5 DEF OfficeNext, contentVars, On
<1>6. QED BY <1>2, <1>3, <1>4, <1>5 DEF SiteNext

\* The tables the site starts from.
LEMMA TreesStart == ASSUME SiteInit PROVE MenuTypeOK /\ CallsInv /\ TreeInv /\ TreeWise
<1>1. CallsInv /\ \A r \in Requests : call[r] = None BY DEF SiteInit, CallsInit, CallsInv
<1>2. types \in [Types -> TypeRow \cup {None}] /\ cats \in [Cats -> CatRow \cup {None}]
  <2>1. {None, [gone |-> FALSE]} \subseteq TypeRow \cup {None} BY DEF TypeRow
  <2>2. [type : Types, parent : Cats \cup {None}, active : {TRUE}, gone : {FALSE}] \subseteq CatRow
    BY DEF CatRow
  <2>3. [type : Types, parent : {None}, active : BOOLEAN, gone : BOOLEAN] \subseteq CatRow
    BY DEF CatRow
  <2>4. [type : Types, parent : {None}, active : BOOLEAN, gone : {FALSE}] \subseteq CatRow
    BY DEF CatRow
  <2>5. ASSUME TreeInit PROVE TreeTypeOK BY <2>5, <2>1, <2>2 DEF TreeInit, TreeTypeOK
  <2>6. ASSUME ArticleInit PROVE TreeTypeOK BY <2>6, <2>1, <2>3 DEF ArticleInit, TreeTypeOK
  <2>7. ASSUME DataInit PROVE TreeTypeOK BY <2>7, <2>1, <2>4 DEF DataInit, TreeTypeOK
  <2>8. ASSUME types = Nothing(Types), cats = Nothing(Cats) PROVE TreeTypeOK
    BY <2>8 DEF Nothing, TreeTypeOK
  <2>9. TreeInit \/ ArticleInit \/ DataInit \/ (types = Nothing(Types) /\ cats = Nothing(Cats))
    BY DEF SiteInit, ContentInit, MenuInit, treeLoads, On
  <2>10. QED BY <2>5, <2>6, <2>7, <2>8, <2>9 DEF TreeTypeOK
<1>3. items \in [Items -> ItemRow \cup {None}]
  <2>1. ASSUME MenuInit PROVE items \in [Items -> ItemRow \cup {None}]
    BY <2>1 DEF MenuInit, ItemRow
  <2>2. ASSUME items = Nothing(Items) PROVE items \in [Items -> ItemRow \cup {None}]
    BY <2>2 DEF Nothing
  <2>3. QED BY <2>1, <2>2 DEF SiteInit, ContentInit
<1>4. MenuTypeOK BY <1>2, <1>3 DEF MenuTypeOK, TreeTypeOK
<1>5. QED BY <1>1, <1>4 DEF TreeInv, TreeWise

\* The tables are of their types; on their parts, the invariant holds.
TreeSite == /\ MenuTypeOK
            /\ On("categories") \/ On("menus") => CallsInv /\ TreeInv /\ TreeWise

\* The invariant of the trees is one of the site.
LEMMA TreesHold == SiteSpec => []TreeSite
<1>1. SiteInit => TreeSite BY TreesStart DEF TreeSite
<1>2. TreeSite /\ [SiteNext]_siteVars => TreeSite'
  <2> SUFFICES ASSUME TreeSite, [SiteNext]_siteVars PROVE TreeSite' OBVIOUS
  <2>1. On("categories")' = On("categories") /\ On("menus")' = On("menus")
    BY LoadStays DEF On
  <2>2. CASE (On("categories") \/ On("menus")) /\ (MenuNext \/ (TreeNext /\ UNCHANGED items))
    <3>1. CallsInv' /\ TreeInv' /\ TreeWise' BY <2>2, TreeStep, CallsKept DEF TreeSite
    <3>2. MenuTypeOK' BY <3>1 DEF TreeInv
    <3>3. QED BY <3>1, <3>2 DEF TreeSite
  <2>3. CASE UNCHANGED <<menuVars, callVars>>
    <3>1. UNCHANGED <<load, call, made>> /\ UNCHANGED menuVars BY <2>3 DEF callVars
    <3>2. MenuTypeOK' BY <3>1, SameTrees DEF TreeSite
    <3>3. CallsInv => CallsInv' BY <3>1 DEF CallsInv
    <3>4. TreeInv => TreeInv' BY <3>1, <3>2, SameTrees DEF TreeInv
    <3>5. TreeWise => TreeWise' BY <3>1, SameTrees DEF TreeWise, Alone
    <3>6. QED BY <2>1, <3>2, <3>3, <3>4, <3>5 DEF TreeSite
  <2>4. CASE ~On("categories") /\ ~On("menus") /\ UNCHANGED menuVars
    <3>1. MenuTypeOK' BY <2>4, SameTrees DEF TreeSite
    <3>2. QED BY <2>1, <2>4, <3>1 DEF TreeSite
  <2>5. QED BY <2>2, <2>3, <2>4, TreePart
<1>3. QED BY <1>1, <1>2, PTL DEF SiteSpec

\* While calls do not overlap, only restoring a row takes a sound tree of categories or
\* of menu items apart, at any depth and with any rows; and no call on items, other
\* than a restore, takes one out of the Menu Category type.
THEOREM TreesKept == SiteSpec => OnlyRestoreBreaksTrees
<1>1. TreeSite /\ [SiteNext]_siteVars => [TreesKeep]_<<callVars, menuVars>>
  <2> SUFFICES ASSUME TreeSite, [SiteNext]_siteVars PROVE TreesKeep OBVIOUS
  <2>1. CASE (On("categories") \/ On("menus")) /\ (MenuNext \/ (TreeNext /\ UNCHANGED items))
    BY <2>1, TreeStep DEF TreeSite
  <2>2. CASE UNCHANGED menuVars
    <3>1. UNCHANGED treeVars /\ UNCHANGED items /\ cats' = cats
      BY <2>2 DEF menuVars, treeVars
    <3>2. QED BY <3>1, SameItems, SameCats DEF TreesKeep
  <2>3. QED BY <2>1, <2>2, TreePart
<1>2. QED BY <1>1, TreesHold, PTL DEF SiteSpec, OnlyRestoreBreaksTrees, TreesKeep

-----------------------------------------------------------------------------
(* Types of master data.                                                   *)

\* Columns of a record.
RecordColumns(set) == /\ "cat" \in DOMAIN set => set.cat \in Cats
                      /\ "gone" \in DOMAIN set => set.gone \in BOOLEAN

\* What a call on master data carries, however calls overlap: columns of a
\* field or a record, all of them when it inserts one, and answers.
DataCarries(c) ==
    /\ c.op = "field" => /\ c.id \in Fields /\ FieldColumns(c.set)
                         /\ fields[c.id] = None => c.set \in FieldRow
    /\ c.op = "record" => /\ c.id \in Records /\ RecordColumns(c.set)
                          /\ records[c.id] = None => c.set \in RecordRow
                          /\ \A f \in DOMAIN c.put : c.put[f] \in AnswerRow

\* Rows are of their tables, and calls carry such rows.
DataTyped == DataTypeOK /\ \A r \in Requests : call[r] # None => DataCarries(call[r])

\* A call that begins carries what it may.
DataCallBegan(r) == \E c : Begin(r, c) /\ DataCarries(c)

\* The calls on fields carry columns of fields.
LEMMA FieldCarries ==
    ASSUME NEW r \in Requests, FieldCalls(r)
    PROVE  DataCallBegan(r)
<1>1. ASSUME NEW f \in Fields, NEW set, FieldColumns(set), fields[f] = None => set \in FieldRow,
             Begin(r, [op |-> "field", id |-> f, set |-> set])
      PROVE  DataCallBegan(r)
  <2>1. PICK k : k = [op |-> "field", id |-> f, set |-> set] OBVIOUS
  <2>2. k.op = "field" /\ k.id = f /\ k.set = set BY <2>1
  <2>3. DataCarries(k) BY <1>1, <2>2 DEF DataCarries
  <2>4. QED BY <1>1, <2>1, <2>3 DEF DataCallBegan
<1>2. ASSUME NEW f \in Fields, NEW c \in Cats, NEW name \in FieldNames, NEW type \in FieldTypes,
             NEW required \in BOOLEAN, CreateField(r, f, c, name, type, required)
      PROVE  DataCallBegan(r)
  <2>1. PICK new : new = [cat |-> c, name |-> name, type |-> type, required |-> required,
                          active |-> TRUE, gone |-> FALSE]
    OBVIOUS
  <2>2. new \in FieldRow BY <2>1 DEF FieldRow
  <2>3. FieldColumns(new) BY <2>2 DEF FieldRow, FieldColumns
  <2>4. QED BY <1>1, <1>2, <2>1, <2>2, <2>3 DEF CreateField
<1>3. ASSUME NEW f \in Fields, NEW new \in FieldUpdates, UpdateField(r, f, new)
      PROVE  DataCallBegan(r)
  <2>1. FieldColumns(Changed(fields[f], new)) BY FieldSent
  <2>2. QED BY <1>1, <1>3, <2>1 DEF UpdateField, Live
<1>4. ASSUME NEW f \in Fields, DeleteField(r, f) PROVE DataCallBegan(r)
  <2>1. PICK set : set = [gone |-> TRUE] OBVIOUS
  <2>2. FieldColumns(set) BY <2>1, FieldSent
  <2>3. QED BY <1>1, <1>4, <2>1, <2>2 DEF DeleteField, Live
<1>5. ASSUME NEW f \in Fields, RestoreField(r, f) PROVE DataCallBegan(r)
  <2>1. PICK new : new = [gone |-> FALSE] OBVIOUS
  <2>2. FieldColumns(Changed(fields[f], new)) BY <2>1, FieldSent
  <2>3. QED BY <1>1, <1>5, <2>1, <2>2 DEF RestoreField
<1>6. QED BY <1>2, <1>3, <1>4, <1>5 DEF FieldCalls

\* The calls on records carry columns of records, and answers.
LEMMA RecordCarries ==
    ASSUME CallsInv, DataTypeOK, NEW r \in Requests, RecordCalls(r)
    PROVE  DataCallBegan(r)
<1>0. made \in Nat BY DEF CallsInv
<1>1. ASSUME NEW x \in Records, NEW set, RecordColumns(set),
             records[x] = None => set \in RecordRow,
             NEW put, \A f \in DOMAIN put : put[f] \in AnswerRow, NEW drop, NEW was,
             Begin(r, [op |-> "record", id |-> x, set |-> set, put |-> put, drop |-> drop,
                       was |-> was])
      PROVE  DataCallBegan(r)
  <2>1. PICK k : k = [op |-> "record", id |-> x, set |-> set, put |-> put, drop |-> drop,
                      was |-> was]
    OBVIOUS
  <2>2. k.op = "record" /\ k.id = x /\ k.set = set /\ k.put = put BY <2>1
  <2>3. DataCarries(k) BY <1>1, <2>2 DEF DataCarries
  <2>4. QED BY <1>1, <2>1, <2>3 DEF DataCallBegan
<1>2. ASSUME NEW row, NEW new \in [cat : Cats] \cup [gone : BOOLEAN]
      PROVE  RecordColumns(Changed(row, new)) /\ RecordColumns(new)
  <2>1. RecordColumns(new)
    <3>1. CASE new \in [cat : Cats] BY <3>1 DEF RecordColumns
    <3>2. CASE new \in [gone : BOOLEAN] BY <3>2 DEF RecordColumns
    <3>3. QED BY <3>1, <3>2
  <2>2. /\ DOMAIN Changed(row, new) \subseteq DOMAIN new
        /\ \A f \in DOMAIN Changed(row, new) : Changed(row, new)[f] = new[f]
    BY DEF Changed
  <2>3. QED BY <2>1, <2>2 DEF RecordColumns
<1>3. ASSUME NEW x \in Records, NEW c \in Cats, NEW form \in FilledForms,
             CreateRecord(r, x, c, form)
      PROVE  DataCallBegan(r)
  <2>1. PICK asked \in SUBSET Fields : form \in [asked -> Texts] BY DEF FilledForms
  <2>2. PICK put : put = [f \in DOMAIN form |-> [row |-> made, value |-> form[f]]] OBVIOUS
  <2>3. \A f \in DOMAIN put : put[f] \in AnswerRow BY <1>0, <2>1, <2>2 DEF AnswerRow
  <2>4. PICK new : new = [cat |-> c, gone |-> FALSE] OBVIOUS
  <2>5. new \in RecordRow BY <2>4 DEF RecordRow
  <2>6. RecordColumns(new) BY <2>5 DEF RecordRow, RecordColumns
  <2>7. QED BY <1>1, <1>3, <2>2, <2>3, <2>4, <2>5, <2>6 DEF CreateRecord
<1>4. ASSUME NEW x \in Records, NEW c \in Cats, NEW form \in FilledForms \cup {None},
             UpdateRecord(r, x, c, form)
      PROVE  DataCallBegan(r)
  <2>1. PICK put : put = IF form = None THEN <<>> ELSE Put(x, form) OBVIOUS
  <2>2. ASSUME NEW f \in DOMAIN put PROVE put[f] \in AnswerRow
    <3>1. form # None /\ put = Put(x, form) BY <2>1, <2>2
    <3>2. PICK asked \in SUBSET Fields : form \in [asked -> Texts] BY <3>1 DEF FilledForms
    <3>3. f \in asked /\ form[f] \in Texts BY <2>2, <3>1, <3>2 DEF Put
    <3>4. answers[<<x, f>>] \in AnswerRow \cup {None} BY <3>2, <3>3 DEF DataTypeOK
    <3>5. PICK n : n = IF answers[<<x, f>>] = None THEN made ELSE answers[<<x, f>>].row OBVIOUS
    <3>6. n \in Nat BY <1>0, <3>4, <3>5 DEF AnswerRow
    <3>7. put[f] = [row |-> n, value |-> form[f]] BY <2>2, <3>1, <3>5 DEF Put
    <3>8. QED BY <3>3, <3>6, <3>7 DEF AnswerRow
  <2>3. PICK new : new = [cat |-> c] OBVIOUS
  <2>4. RecordColumns(Changed(records[x], new)) BY <1>2, <2>3
  <2>5. QED BY <1>1, <1>4, <2>1, <2>2, <2>3, <2>4 DEF UpdateRecord, Live
<1>5. PICK none : none = <<>> OBVIOUS
<1>6. \A f \in DOMAIN none : none[f] \in AnswerRow BY <1>5
<1>7. ASSUME NEW x \in Records, DeleteRecord(r, x) PROVE DataCallBegan(r)
  <2>1. PICK new : new = [gone |-> TRUE] OBVIOUS
  <2>2. RecordColumns(new) BY <1>2, <2>1
  <2>3. PICK was, drop : was = none /\ drop = {} OBVIOUS
  <2>4. /\ records[x] # None
        /\ Begin(r, [op |-> "record", id |-> x, set |-> new, put |-> none, drop |-> drop,
                     was |-> was])
    BY <1>7, <1>5, <2>1, <2>3 DEF DeleteRecord, Live
  <2>5. QED BY <1>1, <1>6, <2>2, <2>4
<1>8. ASSUME NEW x \in Records, RestoreRecord(r, x) PROVE DataCallBegan(r)
  <2>1. PICK new : new = [gone |-> FALSE] OBVIOUS
  <2>2. PICK set : set = Changed(records[x], new) OBVIOUS
  <2>3. RecordColumns(set) BY <1>2, <2>1, <2>2
  <2>4. PICK was, drop : was = none /\ drop = {} OBVIOUS
  <2>5. /\ records[x] # None
        /\ Begin(r, [op |-> "record", id |-> x, set |-> set, put |-> none, drop |-> drop,
                     was |-> was])
    BY <1>8, <1>5, <2>1, <2>2, <2>4 DEF RestoreRecord
  <2>6. QED BY <1>1, <1>6, <2>3, <2>5
<1>9. QED BY <1>3, <1>4, <1>7, <1>8 DEF RecordCalls

\* What the other calls carry stays what they may carry, as long as no row goes.
LEMMA DataCarried ==
    ASSUME CallsInv, DataTyped, NEW r \in Requests, NEW k, Moves(r, k),
           k = None \/ DataCarries(k)',
           \A f \in Fields : fields[f] # None => fields'[f] # None,
           \A x \in Records : records[x] # None => records'[x] # None
    PROVE  \A q \in Requests : call'[q] # None => DataCarries(call[q])'
<1>1. call'[r] = k /\ \A q \in Requests \ {r} : call'[q] = call[q] BY Moved
<1>2. \A c : DataCarries(c) => DataCarries(c)' BY DEF DataCarries
<1>3. ASSUME NEW q \in Requests, call'[q] # None PROVE DataCarries(call[q])'
  <2>1. PICK c : c = call'[q] OBVIOUS
  <2>2. DataCarries(c)'
    <3>1. CASE q = r BY <1>1, <1>3, <2>1, <3>1
    <3>2. CASE q # r
      <4>1. DataCarries(c) BY <1>1, <1>3, <2>1, <3>2 DEF DataTyped
      <4>2. QED BY <1>2, <4>1
    <3>3. QED BY <3>1, <3>2
  <2>3. QED BY <2>1, <2>2
<1>4. QED BY <1>3

\* A call begins or a request dies.
LEMMA DataTypedCalls ==
    ASSUME CallsInv, DataTyped, NEW r \in Requests, UNCHANGED dataVars,
           DataCallBegan(r) \/ Die(r)
    PROVE  DataTyped'
<1>1. UNCHANGED <<fields, records, answers>> BY DEF dataVars
<1>2. DataTypeOK' BY <1>1 DEF DataTyped, DataTypeOK
<1>3. \A c : DataCarries(c) => DataCarries(c)' BY <1>1 DEF DataCarries
<1>4. CASE DataCallBegan(r)
  <2> PICK c : Begin(r, c) /\ DataCarries(c) BY <1>4 DEF DataCallBegan
  <2>1. Moves(r, c) BY BeginMoves
  <2>2. DataCarries(c)' BY <1>3
  <2>3. QED BY <1>1, <1>2, <2>1, <2>2, DataCarried DEF DataTyped
<1>5. CASE Die(r)
  <2>1. Moves(r, None) BY <1>5, EndMoves DEF Die
  <2>2. QED BY <1>1, <1>2, <2>1, DataCarried DEF DataTyped
<1>6. QED BY <1>4, <1>5

\* A field is written.
LEMMA DataTypedField ==
    ASSUME CallsInv, DataTyped, NEW r \in Requests, WriteField(r)
    PROVE  DataTyped'
<1> PICK c, row : c = call[r] /\ row = Written(fields[c.id], c.set) OBVIOUS
<1>1. /\ c # None /\ c.op = "field" /\ End(r) /\ records' = records /\ answers' = answers
      /\ fields' = [fields EXCEPT ![c.id] = row]
  BY DEF WriteField, Doing
<1>2. c.id \in Fields /\ FieldColumns(c.set) /\ (fields[c.id] = None => c.set \in FieldRow)
  BY <1>1 DEF DataTyped, DataCarries
<1>3. fields \in [Fields -> FieldRow \cup {None}] BY DEF DataTyped, DataTypeOK
<1>4. row \in FieldRow
  <2>1. CASE fields[c.id] = None BY <1>2, <2>1 DEF Written
  <2>2. CASE fields[c.id] # None BY <1>2, <1>3, <2>2, FieldWritten
  <2>3. QED BY <2>1, <2>2
<1>5. fields' \in [Fields -> FieldRow \cup {None}] BY <1>1, <1>3, <1>4
<1>6. \A f \in Fields : fields[f] # None => fields'[f] # None
  BY <1>1, <1>3, <1>4, DataNoneAssumption
<1>7. DataTypeOK' BY <1>1, <1>5 DEF DataTyped, DataTypeOK
<1>8. Moves(r, None) BY <1>1, EndMoves
<1>9. QED BY <1>1, <1>6, <1>7, <1>8, DataCarried DEF DataTyped

\* A record is written, and its answers with it.
LEMMA DataTypedRecord ==
    ASSUME CallsInv, DataTyped, NEW r \in Requests, WriteRecord(r)
    PROVE  DataTyped'
<1> PICK c, row : c = call[r] /\ row = Written(records[c.id], c.set) OBVIOUS
<1> DEFINE written(x, f) == IF x # c.id THEN answers[<<x, f>>]
                            ELSE IF f \in DOMAIN c.put THEN c.put[f]
                            ELSE IF f \in c.drop /\ SameRow(answers[<<x, f>>], c.was[f]) THEN None
                            ELSE answers[<<x, f>>]
<1>1. /\ c # None /\ c.op = "record" /\ End(r) /\ fields' = fields
      /\ records' = [records EXCEPT ![c.id] = row]
      /\ answers' = [y \in Records \X Fields |-> written(y[1], y[2])]
  BY DEF WriteRecord, Doing
<1>2. /\ c.id \in Records /\ RecordColumns(c.set) /\ (records[c.id] = None => c.set \in RecordRow)
      /\ \A f \in DOMAIN c.put : c.put[f] \in AnswerRow
  BY <1>1 DEF DataTyped, DataCarries
<1>3. /\ records \in [Records -> RecordRow \cup {None}]
      /\ answers \in [Records \X Fields -> AnswerRow \cup {None}]
  BY DEF DataTyped, DataTypeOK
<1>4. row \in RecordRow
  <2>1. CASE records[c.id] = None BY <1>2, <2>1 DEF Written
  <2>2. CASE records[c.id] # None
    <3>1. records[c.id] \in RecordRow BY <1>2, <1>3, <2>2
    <3>2. QED BY <1>2, <2>2, <3>1 DEF Written, RecordRow, RecordColumns
  <2>3. QED BY <2>1, <2>2
<1>5. \A x \in Records, f \in Fields : written(x, f) \in AnswerRow \cup {None} BY <1>2, <1>3
<1> HIDE DEF written
<1>6. answers' \in [Records \X Fields -> AnswerRow \cup {None}] BY <1>1, <1>5
<1>7. records' \in [Records -> RecordRow \cup {None}] BY <1>1, <1>3, <1>4
<1>8. \A x \in Records : records[x] # None => records'[x] # None
  BY <1>1, <1>3, <1>4, DataNoneAssumption
<1>9. DataTypeOK' BY <1>1, <1>6, <1>7 DEF DataTyped, DataTypeOK
<1>10. Moves(r, None) BY <1>1, EndMoves
<1>11. QED BY <1>1, <1>8, <1>9, <1>10, DataCarried DEF DataTyped

\* Every step of the part.
LEMMA DataTypedStep ==
    ASSUME CallsInv, DataTyped, DataNext
    PROVE  DataTyped'
BY FieldCarries, RecordCarries, DataTypedCalls, DataTypedField, DataTypedRecord
   DEF DataNext, DataTyped

-----------------------------------------------------------------------------
(* Types of articles.                                                      *)

\* Categories an article can be filed under.
Filing == IF load.part = "blogs" THEN Cats ELSE Cats \cup {None}

\* Columns of an article.
ArticleColumns(set) == /\ "slug" \in DOMAIN set => set.slug \in Slugs
                       /\ "status" \in DOMAIN set => set.status \in ArticleStatuses
                       /\ "date" \in DOMAIN set => set.date \in Dates(load)
                       /\ "gone" \in DOMAIN set => set.gone \in BOOLEAN
                       /\ "cat" \in DOMAIN set => set.cat \in Filing
                       /\ "tags" \in DOMAIN set => set.tags \subseteq Cats
                       /\ "code" \in DOMAIN set => set.code \in ArticleCodes

\* What a call carries, however calls overlap: columns, all of them when it inserts.
ArticleCarries(c) == /\ c.id \in Articles
                     /\ ArticleColumns(c.set)
                     /\ articles[c.id] = None => c.set \in ArticleRow(load)

\* Rows are of their table, and calls carry such rows.
ArticleTyped == /\ load.part \in Kinds
                /\ articles \in [Articles -> ArticleRow(load) \cup {None}]
                /\ \A r \in Requests : call[r] # None => ArticleCarries(call[r])

\* A call that begins carries what it may.
ArticleCallBegan(r) == \E c : Begin(r, c) /\ ArticleCarries(c)

\* The rows of each kind.
LEMMA RowsByKind ==
    /\ load.part = "pages" => ArticleRow(load) = PageRow(load)
    /\ load.part = "blogs" => ArticleRow(load) = BlogRow(load)
    /\ load.part = "automations" => ArticleRow(load) = AutomationRow(load)
    /\ load.part = "courses" => ArticleRow(load) = CourseRow(load)
    /\ load.part = "consultancies" => ArticleRow(load) = ConsultancyRow
BY DEF ArticleRow

\* A whole row is made of columns.
LEMMA RowColumns ==
    ASSUME load.part \in Kinds, NEW row \in ArticleRow(load)
    PROVE  ArticleColumns(row)
<1>1. CASE load.part = "pages"
  <2>1. row \in PageRow(load) BY <1>1, RowsByKind
  <2>2. QED BY <1>1, <2>1 DEF PageRow, ArticleColumns, Filing
<1>2. CASE load.part = "blogs"
  <2>1. row \in BlogRow(load) BY <1>2, RowsByKind
  <2>2. QED BY <1>2, <2>1 DEF BlogRow, ArticleColumns, Filing
<1>3. CASE load.part = "automations"
  <2>1. row \in AutomationRow(load) BY <1>3, RowsByKind
  <2>2. QED BY <1>3, <2>1 DEF AutomationRow, ArticleColumns, Filing
<1>4. CASE load.part = "courses"
  <2>1. row \in CourseRow(load) BY <1>4, RowsByKind
  <2>2. QED BY <1>4, <2>1 DEF CourseRow, ArticleColumns, Filing
<1>5. CASE load.part = "consultancies"
  <2>1. row \in ConsultancyRow BY <1>5, RowsByKind
  <2>2. QED BY <1>5, <2>1 DEF ConsultancyRow, ArticleColumns, Filing
<1>6. QED BY <1>1, <1>2, <1>3, <1>4, <1>5 DEF Kinds

\* A row whose columns are rewritten is one of the table.
LEMMA ColumnsRewritten ==
    ASSUME load.part \in Kinds, NEW was \in ArticleRow(load), NEW row,
           row = [f \in DOMAIN was |-> row[f]], ArticleColumns(row)
    PROVE  row \in ArticleRow(load)
<1>1. CASE load.part = "pages"
  <2>1. was \in PageRow(load) BY <1>1, RowsByKind
  <2>2. row \in PageRow(load) BY <1>1, <2>1 DEF PageRow, ArticleColumns, Filing
  <2>3. QED BY <1>1, <2>2, RowsByKind
<1>2. CASE load.part = "blogs"
  <2>1. was \in BlogRow(load) BY <1>2, RowsByKind
  <2>2. row \in BlogRow(load) BY <1>2, <2>1 DEF BlogRow, ArticleColumns, Filing
  <2>3. QED BY <1>2, <2>2, RowsByKind
<1>3. CASE load.part = "automations"
  <2>1. was \in AutomationRow(load) BY <1>3, RowsByKind
  <2>2. row \in AutomationRow(load) BY <1>3, <2>1 DEF AutomationRow, ArticleColumns, Filing
  <2>3. QED BY <1>3, <2>2, RowsByKind
<1>4. CASE load.part = "courses"
  <2>1. was \in CourseRow(load) BY <1>4, RowsByKind
  <2>2. row \in CourseRow(load) BY <1>4, <2>1 DEF CourseRow, ArticleColumns, Filing
  <2>3. QED BY <1>4, <2>2, RowsByKind
<1>5. CASE load.part = "consultancies"
  <2>1. was \in ConsultancyRow BY <1>5, RowsByKind
  <2>2. row \in ConsultancyRow BY <1>5, <2>1 DEF ConsultancyRow, ArticleColumns, Filing
  <2>3. QED BY <1>5, <2>2, RowsByKind
<1>6. QED BY <1>1, <1>2, <1>3, <1>4, <1>5 DEF Kinds

\* A whole row is inserted.
LEMMA InsertCarries ==
    ASSUME load.part \in Kinds, NEW r \in Requests, NEW a \in Articles,
           NEW row \in ArticleRow(load), Insert(r, a, row)
    PROVE  ArticleCallBegan(r)
<1>1. PICK c : c = [op |-> "article", id |-> a, set |-> row] OBVIOUS
<1>2. Begin(r, c) BY <1>1 DEF Insert
<1>3. c.id = a /\ c.set = row BY <1>1
<1>4. ArticleCarries(c) BY <1>3, RowColumns DEF ArticleCarries
<1>5. QED BY <1>2, <1>4 DEF ArticleCallBegan

\* Columns are sent.
LEMMA EditCarries ==
    ASSUME NEW r \in Requests, NEW a \in Articles, NEW new, ArticleColumns(new),
           articles[a] # None, Edit(r, a, new)
    PROVE  ArticleCallBegan(r)
<1>1. PICK set : set = Changed(articles[a], new) OBVIOUS
<1>2. PICK c : c = [op |-> "article", id |-> a, was |-> articles[a], set |-> set] OBVIOUS
<1>3. Begin(r, c) BY <1>1, <1>2 DEF Edit
<1>4. c.id = a /\ c.set = set BY <1>2
<1>5. DOMAIN set \subseteq DOMAIN new /\ \A f \in DOMAIN set : set[f] = new[f]
  BY <1>1 DEF Changed
<1>6. ArticleColumns(set) BY <1>5 DEF ArticleColumns
<1>7. ArticleCarries(c) BY <1>4, <1>6 DEF ArticleCarries
<1>8. QED BY <1>3, <1>7 DEF ArticleCallBegan

\* Publication and its end, deletion and its undoing; a consultancy has no publication.
LEMMA LifecycleCarries ==
    ASSUME CallsInv, ArticleTyped, NEW r \in Requests, NEW a \in Articles,
           \/ load.part # "consultancies" /\ Lifecycle(r, a)
           \/ DeleteArticle(r, a) \/ RestoreArticle(r, a)
    PROVE  ArticleCallBegan(r)
<1>1. load.calls \in Nat /\ made \in Nat BY LoadsAssumption DEF CallsInv
<1>2. ASSUME load.part # "consultancies", NEW when \in Moments \cup {None}, Publish(r, a, when)
      PROVE  ArticleCallBegan(r)
  <2>1. PICK date : date = Moment(articles[a], when) OBVIOUS
  <2>2. PICK new : new = [status |-> "published", date |-> date] OBVIOUS
  <2>3. articles[a] # None /\ Edit(r, a, new) BY <1>2, <2>1, <2>2 DEF Publish, Live
  <2>4. made < load.calls BY <2>3 DEF Edit, Begin
  <2>5. articles[a] \in ArticleRow(load) BY <2>3 DEF ArticleTyped
  <2>6. articles[a].date \in Dates(load)
    <3>1. \/ articles[a] \in PageRow(load) \/ articles[a] \in BlogRow(load)
          \/ articles[a] \in AutomationRow(load) \/ articles[a] \in CourseRow(load)
      BY <1>2, <2>5, RowsByKind DEF ArticleTyped, Kinds
    <3>2. QED BY <3>1 DEF PageRow, BlogRow, AutomationRow, CourseRow
  <2>7. Now \in Dates(load) BY <1>1, <2>4 DEF Now, Dates
  <2>8. Moments \subseteq Dates(load) BY <1>1 DEF Moments, Dates
  <2>9. date \in Dates(load) BY <1>2, <2>1, <2>6, <2>7, <2>8 DEF Moment
  <2>10. ArticleColumns(new) BY <2>2, <2>9 DEF ArticleColumns, ArticleStatuses
  <2>11. QED BY <2>3, <2>10, EditCarries
<1>3. ASSUME NEW new, new \in [status : ArticleStatuses] \cup [gone : BOOLEAN],
             articles[a] # None, Edit(r, a, new)
      PROVE  ArticleCallBegan(r)
  <2>1. ArticleColumns(new)
    <3>1. CASE new \in [status : ArticleStatuses] BY <3>1 DEF ArticleColumns
    <3>2. CASE new \in [gone : BOOLEAN] BY <3>2 DEF ArticleColumns
    <3>3. QED BY <1>3, <3>1, <3>2
  <2>2. QED BY <1>3, <2>1, EditCarries
<1>4. CASE Unpublish(r, a)
  <2>1. PICK new : new = [status |-> "draft"] OBVIOUS
  <2>2. QED BY <1>3, <1>4, <2>1 DEF Unpublish, Live, ArticleStatuses
<1>5. CASE Archive(r, a)
  <2>1. PICK new : new = [status |-> "archived"] OBVIOUS
  <2>2. QED BY <1>3, <1>5, <2>1 DEF Archive, Live, ArticleStatuses
<1>6. CASE DeleteArticle(r, a)
  <2>1. PICK new : new = [gone |-> TRUE] OBVIOUS
  <2>2. QED BY <1>3, <1>6, <2>1 DEF DeleteArticle, Live
<1>7. CASE RestoreArticle(r, a)
  <2>1. PICK new : new = [gone |-> FALSE] OBVIOUS
  <2>2. QED BY <1>3, <1>7, <2>1 DEF RestoreArticle
<1>8. QED BY <1>2, <1>4, <1>5, <1>6, <1>7 DEF Lifecycle

\* Articles are made.
LEMMA CreatesCarry ==
    ASSUME load.part \in Kinds, NEW r \in Requests, NEW a \in Articles, NEW slug \in Slugs,
           \/ load.part = "pages" /\ CreatePage(r, a, slug)
           \/ load.part = "blogs" /\ \E c \in Cats, tags \in SUBSET Cats :
                                        CreateBlog(r, a, slug, c, tags)
           \/ load.part = "automations" /\ \E c \in Cats \cup {None} :
                                              CreateAutomation(r, a, slug, c)
           \/ load.part = "courses" /\ \E c \in Cats \cup {None}, code \in ArticleCodes :
                                          CreateCourse(r, a, slug, c, code)
           \/ load.part = "consultancies" /\ \E c \in Cats \cup {None}, code \in ArticleCodes :
                                                CreateConsultancy(r, a, slug, c, code)
    PROVE  ArticleCallBegan(r)
<1> PICK draft : draft = Draft(slug) OBVIOUS
<1>1. draft = [slug |-> slug, status |-> "draft", date |-> None, gone |-> FALSE] BY DEF Draft
<1>2. None \in Dates(load) /\ "draft" \in ArticleStatuses BY DEF Dates, ArticleStatuses
<1>3. CASE load.part = "pages" /\ CreatePage(r, a, slug)
  <2>1. draft \in PageRow(load) BY <1>1, <1>2 DEF PageRow
  <2>2. QED BY <1>3, <2>1, RowsByKind, InsertCarries DEF CreatePage
<1>4. ASSUME load.part = "blogs", NEW c \in Cats, NEW tags \in SUBSET Cats,
             CreateBlog(r, a, slug, c, tags)
      PROVE  ArticleCallBegan(r)
  <2>1. PICK more : more = [cat |-> c, tags |-> tags] OBVIOUS
  <2>2. PICK new : new = Also(draft, more) OBVIOUS
  <2>3. /\ new = [f \in DOMAIN new |-> new[f]]
        /\ DOMAIN new = DOMAIN draft \cup DOMAIN more
        /\ \A f \in DOMAIN new : new[f] = IF f \in DOMAIN more THEN more[f] ELSE draft[f]
    BY <2>2 DEF Also
  <2>4. DOMAIN new = {"slug", "status", "date", "gone", "cat", "tags"} BY <1>1, <2>1, <2>3
  <2>5. /\ new.slug = slug /\ new.status = "draft" /\ new.date = None /\ new.gone = FALSE
        /\ new.cat = c /\ new.tags = tags
    BY <1>1, <2>1, <2>3, <2>4
  <2>6. new \in BlogRow(load) BY <1>2, <2>3, <2>4, <2>5 DEF BlogRow
  <2>7. QED BY <1>4, <2>1, <2>2, <2>6, RowsByKind, InsertCarries DEF CreateBlog
<1>5. ASSUME load.part = "automations", NEW c \in Cats \cup {None},
             CreateAutomation(r, a, slug, c)
      PROVE  ArticleCallBegan(r)
  <2>1. PICK more : more = [cat |-> c] OBVIOUS
  <2>2. PICK new : new = Also(draft, more) OBVIOUS
  <2>3. /\ new = [f \in DOMAIN new |-> new[f]]
        /\ DOMAIN new = DOMAIN draft \cup DOMAIN more
        /\ \A f \in DOMAIN new : new[f] = IF f \in DOMAIN more THEN more[f] ELSE draft[f]
    BY <2>2 DEF Also
  <2>4. DOMAIN new = {"slug", "status", "date", "gone", "cat"} BY <1>1, <2>1, <2>3
  <2>5. /\ new.slug = slug /\ new.status = "draft" /\ new.date = None /\ new.gone = FALSE
        /\ new.cat = c
    BY <1>1, <2>1, <2>3, <2>4
  <2>6. new \in AutomationRow(load) BY <1>2, <2>3, <2>4, <2>5 DEF AutomationRow
  <2>7. QED BY <1>5, <2>1, <2>2, <2>6, RowsByKind, InsertCarries DEF CreateAutomation
<1>6. ASSUME load.part = "courses", NEW c \in Cats \cup {None}, NEW code \in ArticleCodes,
             CreateCourse(r, a, slug, c, code)
      PROVE  ArticleCallBegan(r)
  <2>1. PICK more : more = [cat |-> c, code |-> code] OBVIOUS
  <2>2. PICK new : new = Also(draft, more) OBVIOUS
  <2>3. /\ new = [f \in DOMAIN new |-> new[f]]
        /\ DOMAIN new = DOMAIN draft \cup DOMAIN more
        /\ \A f \in DOMAIN new : new[f] = IF f \in DOMAIN more THEN more[f] ELSE draft[f]
    BY <2>2 DEF Also
  <2>4. DOMAIN new = {"slug", "status", "date", "gone", "cat", "code"} BY <1>1, <2>1, <2>3
  <2>5. /\ new.slug = slug /\ new.status = "draft" /\ new.date = None /\ new.gone = FALSE
        /\ new.cat = c /\ new.code = code
    BY <1>1, <2>1, <2>3, <2>4
  <2>6. new \in CourseRow(load) BY <1>2, <2>3, <2>4, <2>5 DEF CourseRow
  <2>7. QED BY <1>6, <2>1, <2>2, <2>6, RowsByKind, InsertCarries DEF CreateCourse
<1>7. ASSUME load.part = "consultancies", NEW c \in Cats \cup {None}, NEW code \in ArticleCodes,
             CreateConsultancy(r, a, slug, c, code)
      PROVE  ArticleCallBegan(r)
  <2>1. PICK row : row = [slug |-> slug, gone |-> FALSE, cat |-> c, code |-> code] OBVIOUS
  <2>2. row \in ConsultancyRow BY <2>1 DEF ConsultancyRow
  <2>3. QED BY <1>7, <2>1, <2>2, RowsByKind, InsertCarries DEF CreateConsultancy
<1>8. QED BY <1>3, <1>4, <1>5, <1>6, <1>7

\* Articles are edited.
LEMMA UpdatesCarry ==
    ASSUME NEW r \in Requests, NEW a \in Articles, NEW new, ArticleColumns(new),
           \/ UpdatePage(r, a, new) \/ UpdateBlog(r, a, new) \/ UpdateAutomation(r, a, new)
           \/ UpdateCourse(r, a, new) \/ UpdateConsultancy(r, a, new)
    PROVE  ArticleCallBegan(r)
<1>1. articles[a] # None /\ Edit(r, a, new)
  BY DEF UpdatePage, UpdateBlog, UpdateAutomation, UpdateCourse, UpdateConsultancy, Live
<1>2. QED BY <1>1, EditCarries

\* The calls on articles carry columns of articles.
LEMMA ArticlesCarry ==
    ASSUME CallsInv, ArticleTyped, NEW r \in Requests, ArticleLoad(r)
    PROVE  ArticleCallBegan(r)
<1>0. load.part \in Kinds BY DEF ArticleTyped
<1>1. PICK a \in Articles :
         \/ load.part = "pages" /\ PageCalls(r, a)
         \/ load.part = "blogs" /\ BlogCalls(r, a)
         \/ load.part = "automations" /\ AutomationCalls(r, a)
         \/ load.part = "courses" /\ CourseCalls(r, a)
         \/ load.part = "consultancies" /\ ConsultancyCalls(r, a)
  BY DEF ArticleLoad
<1>2. /\ \A new \in [slug : Slugs] : ArticleColumns(new)
      /\ \A new \in [code : ArticleCodes] : ArticleColumns(new)
      /\ \A new \in [tags : SUBSET Cats] : ArticleColumns(new)
  BY DEF ArticleColumns
<1>3. \A new \in [cat : Filing] : ArticleColumns(new) BY DEF ArticleColumns
<1>4. load.part = "blogs" <=> Filing = Cats BY CatsAssumption DEF Filing
<1>5. load.part # "blogs" => Filing = Cats \cup {None} BY DEF Filing
<1>6. CASE load.part = "pages" /\ PageCalls(r, a)
  BY <1>0, <1>2, <1>6, CreatesCarry, UpdatesCarry, LifecycleCarries DEF PageCalls
<1>7. CASE load.part = "blogs" /\ BlogCalls(r, a)
  BY <1>0, <1>2, <1>3, <1>4, <1>7, CreatesCarry, UpdatesCarry, LifecycleCarries DEF BlogCalls
<1>8. CASE load.part = "automations" /\ AutomationCalls(r, a)
  BY <1>0, <1>2, <1>3, <1>5, <1>8, CreatesCarry, UpdatesCarry, LifecycleCarries
     DEF AutomationCalls
<1>9. CASE load.part = "courses" /\ CourseCalls(r, a)
  BY <1>0, <1>2, <1>3, <1>5, <1>9, CreatesCarry, UpdatesCarry, LifecycleCarries DEF CourseCalls
<1>10. CASE load.part = "consultancies" /\ ConsultancyCalls(r, a)
  BY <1>0, <1>2, <1>3, <1>5, <1>10, CreatesCarry, UpdatesCarry, LifecycleCarries
     DEF ConsultancyCalls
<1>11. QED BY <1>1, <1>6, <1>7, <1>8, <1>9, <1>10

\* What the other calls carry stays what they may carry, as long as no row goes.
LEMMA ArticleCarried ==
    ASSUME CallsInv, ArticleTyped, NEW r \in Requests, NEW k, Moves(r, k),
           k = None \/ ArticleCarries(k)',
           \A a \in Articles : articles[a] # None => articles'[a] # None
    PROVE  \A q \in Requests : call'[q] # None => ArticleCarries(call[q])'
<1>1. call'[r] = k /\ (\A q \in Requests \ {r} : call'[q] = call[q]) /\ load' = load BY Moved
<1>2. \A c : ArticleCarries(c) => ArticleCarries(c)'
  BY <1>1 DEF ArticleCarries, ArticleColumns, Filing
<1>3. ASSUME NEW q \in Requests, call'[q] # None PROVE ArticleCarries(call[q])'
  <2>1. PICK c : c = call'[q] OBVIOUS
  <2>2. ArticleCarries(c)'
    <3>1. CASE q = r BY <1>1, <1>3, <2>1, <3>1
    <3>2. CASE q # r
      <4>1. ArticleCarries(c) BY <1>1, <1>3, <2>1, <3>2 DEF ArticleTyped
      <4>2. QED BY <1>2, <4>1
    <3>3. QED BY <3>1, <3>2
  <2>3. QED BY <2>1, <2>2
<1>4. QED BY <1>3

\* A call begins or a request dies.
LEMMA ArticleTypedCalls ==
    ASSUME CallsInv, ArticleTyped, NEW r \in Requests, UNCHANGED articles,
           ArticleCallBegan(r) \/ Die(r)
    PROVE  ArticleTyped'
<1>1. CASE ArticleCallBegan(r)
  <2> PICK c : Begin(r, c) /\ ArticleCarries(c) BY <1>1 DEF ArticleCallBegan
  <2>1. Moves(r, c) BY BeginMoves
  <2>2. load' = load BY <2>1, Moved
  <2>3. ArticleCarries(c)' BY <2>2 DEF ArticleCarries, ArticleColumns, Filing
  <2>4. QED BY <2>1, <2>2, <2>3, ArticleCarried DEF ArticleTyped, Kinds
<1>2. CASE Die(r)
  <2>1. Moves(r, None) BY <1>2, EndMoves DEF Die
  <2>2. load' = load BY <2>1, Moved
  <2>3. QED BY <2>1, <2>2, ArticleCarried DEF ArticleTyped, Kinds
<1>3. QED BY <1>1, <1>2

\* An article is written.
LEMMA ArticleTypedWrite ==
    ASSUME CallsInv, ArticleTyped, NEW r \in Requests, WriteArticle(r)
    PROVE  ArticleTyped'
<1> PICK c : c = call[r] OBVIOUS
<1> PICK now : now = articles[c.id] OBVIOUS
<1> PICK plain : plain = Written(now, c.set) OBVIOUS
<1> PICK row : row = IF now # None /\ "tags" \in DOMAIN c.set
                     THEN [plain EXCEPT !["tags"] = Retagged(now.tags, c.was.tags, c.set.tags)]
                     ELSE plain
  OBVIOUS
<1>1. c # None /\ End(r) /\ articles' = [articles EXCEPT ![c.id] = row]
  BY DEF WriteArticle, Doing
<1>2. load.part \in Kinds /\ ArticleCarries(c) BY <1>1 DEF ArticleTyped
<1>3. now \in ArticleRow(load) \cup {None} BY <1>2 DEF ArticleTyped, ArticleCarries
<1>4. row \in ArticleRow(load)
  <2>1. CASE now = None BY <1>2, <2>1 DEF Written, ArticleCarries
  <2>2. CASE now # None
    <3>1. /\ DOMAIN plain = DOMAIN now
          /\ plain = [f \in DOMAIN plain |-> plain[f]]
          /\ \A f \in DOMAIN now : plain[f] = IF f \in DOMAIN c.set THEN c.set[f] ELSE now[f]
      BY <2>2 DEF Written
    <3>2. /\ DOMAIN row = DOMAIN now
          /\ row = [f \in DOMAIN now |-> row[f]]
          /\ \A f \in DOMAIN now \ {"tags"} : row[f] = plain[f]
      BY <2>2, <3>1
    <3>3. "tags" \in DOMAIN now =>
             row["tags"] = IF "tags" \in DOMAIN c.set
                           THEN Retagged(now.tags, c.was.tags, c.set.tags) ELSE now.tags
      BY <2>2, <3>1
    <3>4. ArticleColumns(now) BY <1>2, <1>3, <2>2, RowColumns
    <3>5. ArticleColumns(c.set) BY <1>2 DEF ArticleCarries
    <3>6. \A new : new \subseteq Cats /\ now.tags \subseteq Cats =>
             Retagged(now.tags, c.was.tags, new) \subseteq Cats
      BY DEF Retagged
    <3>7. ("tags" \in DOMAIN now => row.tags \subseteq Cats)
      BY <3>3, <3>4, <3>5, <3>6 DEF ArticleColumns
    <3>8. ArticleColumns(row) BY <3>1, <3>2, <3>4, <3>5, <3>7 DEF ArticleColumns
    <3>9. QED BY <1>2, <1>3, <2>2, <3>2, <3>8, ColumnsRewritten
  <2>3. QED BY <2>1, <2>2
<1>5. None \notin ArticleRow(load) BY <1>2, ArticleNoneAssumption DEF CallsInv
<1>6. articles' \in [Articles -> ArticleRow(load) \cup {None}] BY <1>1, <1>4 DEF ArticleTyped
<1>7. \A a \in Articles : articles[a] # None => articles'[a] # None
  BY <1>1, <1>4, <1>5 DEF ArticleTyped
<1>8. Moves(r, None) BY <1>1, EndMoves
<1>9. load' = load BY <1>8, Moved
<1>10. QED BY <1>2, <1>6, <1>7, <1>8, <1>9, ArticleCarried DEF ArticleTyped, Kinds

\* Every step of the part.
LEMMA ArticleTypedStep ==
    ASSUME CallsInv, ArticleTyped, ArticleNext
    PROVE  ArticleTyped'
BY ArticlesCarry, ArticleTypedCalls, ArticleTypedWrite DEF ArticleNext, articleVars

-----------------------------------------------------------------------------
(* Types of the site.                                                      *)

\* Rows of master data are typed, and on their part the calls as well.
DataTypedSite == DataTypeOK /\ (On("data") => DataTyped)

\* Whatever part of the site the load is on.
LEMMA DataTypedHolds == SiteSpec => []DataTypedSite
<1>1. SiteInit => DataTypedSite
  <2> SUFFICES ASSUME SiteInit PROVE DataTypedSite OBVIOUS
  <2>1. /\ fields = [f \in Fields |-> None] /\ records = [x \in Records |-> None]
        /\ answers = [y \in Records \X Fields |-> None]
    BY DEF SiteInit, ContentInit, DataInit, Nothing
  <2>2. DataTypeOK BY <2>1 DEF DataTypeOK
  <2>3. \A r \in Requests : call[r] = None BY DEF SiteInit, CallsInit
  <2>4. QED BY <2>2, <2>3 DEF DataTypedSite, DataTyped
<1>2. DataSite /\ DataTypedSite /\ [SiteNext]_siteVars => DataTypedSite'
  <2> SUFFICES ASSUME DataSite, DataTypedSite, [SiteNext]_siteVars PROVE DataTypedSite' OBVIOUS
  <2>1. On("data")' <=> On("data") BY LoadStays DEF On
  <2>2. CASE On("data") /\ DataNext
    <3>1. DataTyped' BY <2>2, DataTypedStep DEF DataSite, DataTypedSite
    <3>2. QED BY <3>1 DEF DataTyped, DataTypedSite
  <2>3. CASE On("data") /\ UNCHANGED <<callVars, fields, records, answers>>
    <3>1. UNCHANGED <<call, fields, records, answers>> BY <2>3 DEF callVars
    <3>2. \A c : DataCarries(c) => DataCarries(c)' BY <3>1 DEF DataCarries
    <3>3. DataTypeOK' BY <3>1 DEF DataTypedSite, DataTypeOK
    <3>4. QED BY <2>3, <3>1, <3>2, <3>3 DEF DataTyped, DataTypedSite
  <2>4. CASE ~On("data")
    <3>1. UNCHANGED <<fields, records, answers>> BY <2>4, ContentPart
    <3>2. DataTypeOK' BY <3>1 DEF DataTypedSite, DataTypeOK
    <3>3. QED BY <2>1, <2>4, <3>2 DEF DataTypedSite
  <2>5. QED BY <2>2, <2>3, <2>4, ContentPart
<1>3. QED BY <1>1, <1>2, DataHolds, PTL DEF SiteSpec

\* On their part, articles are typed.
ArticleTypedSite == load.part \in Kinds => ArticleTyped

\* Whatever part of the site the load is on.
LEMMA ArticleTypedHolds == SiteSpec => []ArticleTypedSite
<1>1. SiteInit => ArticleTypedSite
  <2> SUFFICES ASSUME SiteInit, load.part \in Kinds PROVE ArticleTyped
    BY DEF ArticleTypedSite
  <2>1. articles = [a \in Articles |-> None] BY DEF SiteInit, ContentInit, ArticleInit
  <2>2. \A r \in Requests : call[r] = None BY DEF SiteInit, CallsInit
  <2>3. QED BY <2>1, <2>2 DEF ArticleTyped
<1>2. ArticleSite /\ ArticleTypedSite /\ [SiteNext]_siteVars => ArticleTypedSite'
  <2> SUFFICES ASSUME ArticleSite, ArticleTypedSite, [SiteNext]_siteVars, load.part \in Kinds
               PROVE  ArticleTyped'
    BY LoadStays DEF ArticleTypedSite, Kinds
  <2>1. CASE ArticleNext BY <2>1, ArticleTypedStep DEF ArticleSite, ArticleTypedSite
  <2>2. CASE UNCHANGED <<callVars, articles>>
    <3>1. UNCHANGED <<load, call, articles>> BY <2>2 DEF callVars
    <3>2. \A c : ArticleCarries(c) => ArticleCarries(c)'
      BY <3>1 DEF ArticleCarries, ArticleColumns, Filing
    <3>3. QED BY <3>1, <3>2 DEF ArticleTypedSite, ArticleTyped, Kinds
  <2>3. QED BY <2>1, <2>2, ContentPart
<1>3. QED BY <1>1, <1>2, ArticleHolds, PTL DEF SiteSpec

\* Tables of the parts that the load is not on.
OffTyped == /\ ~On("profiles") => ProfileTypeOK
            /\ ~On("subscriptions") => SubTypeOK
            /\ ~On("notifications") => NoteTypeOK
            /\ ~On("inquiries") => InquiryTypeOK
            /\ ~On("configuration") => ConfigTypeOK

\* They stay as they were.
LEMMA OffHolds == SiteSpec => []OffTyped
<1>1. SiteInit => OffTyped
  <2> SUFFICES ASSUME SiteInit PROVE OffTyped OBVIOUS
  <2>1. ASSUME ~On("profiles") PROVE ProfileTypeOK
    BY <2>1 DEF SiteInit, PeopleInit, Nothing, ProfileTypeOK
  <2>2. SubTypeOK BY DEF SiteInit, OfficeInit, SubInit, SubTypeOK
  <2>3. NoteTypeOK BY DEF SiteInit, OfficeInit, NoteInit, NoteTypeOK
  <2>4. InquiryTypeOK BY WindowAssumption DEF SiteInit, OfficeInit, InquiryInit, InquiryTypeOK
  <2>5. ASSUME ~On("configuration") PROVE ConfigTypeOK
    BY <2>5 DEF SiteInit, OfficeInit, Nothing, ConfigTypeOK
  <2>6. QED BY <2>1, <2>2, <2>3, <2>4, <2>5 DEF OffTyped
<1>2. OffTyped /\ [SiteNext]_siteVars => OffTyped'
  <2> SUFFICES ASSUME OffTyped, [SiteNext]_siteVars PROVE OffTyped' OBVIOUS
  <2>1. \A part : On(part)' = On(part) BY LoadStays DEF On
  <2>2. ASSUME ~On("profiles") PROVE ProfileTypeOK'
    BY <2>2, ProfilePart DEF OffTyped, profileVars, ProfileTypeOK
  <2>3. ASSUME ~On("subscriptions") PROVE SubTypeOK'
    BY <2>3, OfficePart DEF OffTyped, subVars, SubTypeOK
  <2>4. ASSUME ~On("notifications") PROVE NoteTypeOK'
    BY <2>4, OfficePart DEF OffTyped, noteVars, NoteTypeOK
  <2>5. ASSUME ~On("inquiries") PROVE InquiryTypeOK'
    BY <2>5, OfficePart DEF OffTyped, inquiryVars, InquiryTypeOK
  <2>6. ASSUME ~On("configuration") PROVE ConfigTypeOK'
    BY <2>6, OfficePart DEF OffTyped, configVars, ConfigTypeOK
  <2>7. QED BY <2>1, <2>2, <2>3, <2>4, <2>5, <2>6 DEF OffTyped
<1>3. QED BY <1>1, <1>2, PTL DEF SiteSpec

\* Every row of every table has the columns and the values its table allows, whichever
\* calls meet in whatever order: what a call loaded and decided before others wrote is
\* still, column by column, what the row it writes may become.
THEOREM SiteTyped == SiteSpec => []SiteTypeOK
<1>1. /\ AcctSite /\ AccessSite /\ ProfileSite /\ SubSite /\ NoteSite /\ InquirySite
      /\ ConfigSite /\ TreeSite /\ DataTypedSite /\ ArticleTypedSite /\ OffTyped /\ MigrationInv
      => SiteTypeOK
  <2> SUFFICES ASSUME AcctSite, AccessSite, ProfileSite, SubSite, NoteSite, InquirySite,
                      ConfigSite, TreeSite, DataTypedSite, ArticleTypedSite, OffTyped,
                      MigrationInv
               PROVE  SiteTypeOK
    OBVIOUS
  <2>1. MenuTypeOK /\ DataTypeOK BY DEF TreeSite, DataTypedSite
  <2>2. ArticleTypeOK BY DEF ArticleTypedSite, ArticleTyped, ArticleTypeOK
  <2>3. AcctTypeOK
    <3>1. CASE On("accounts") BY <3>1 DEF AcctSite, AcctInv
    <3>2. CASE ~On("accounts") BY <3>2 DEF AcctSite, Nothing, AcctTypeOK
    <3>3. QED BY <3>1, <3>2
  <2>4. AccessTypeOK BY DEF AccessSite, AccessInv
  <2>5. ProfileTypeOK BY DEF ProfileSite, ProfileInv, OffTyped
  <2>6. SubTypeOK BY DEF SubSite, SubInv, OffTyped
  <2>7. NoteTypeOK BY DEF NoteSite, NoteInv, OffTyped
  <2>8. InquiryTypeOK BY DEF InquirySite, InquiryInv, OffTyped
  <2>9. ConfigTypeOK BY DEF ConfigSite, ConfigInv, OffTyped
  <2>10. MigrationTypeOK BY MigrationTyped
  <2>11. QED BY <2>1, <2>2, <2>3, <2>4, <2>5, <2>6, <2>7, <2>8, <2>9, <2>10 DEF SiteTypeOK
<1>2. QED BY <1>1, AcctHolds, AccessHolds, ProfileHolds, SubHolds, NoteHolds, InquiryHolds,
             ConfigHolds, TreesHold, DataTypedHolds, ArticleTypedHolds, OffHolds,
             MigrationHolds, PTL
=============================================================================

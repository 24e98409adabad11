-------------------------- MODULE SiteOfficeProofs --------------------------
(***************************************************************************)
(* Proofs about the parts of Site an office runs on: the contact form and  *)
(* its inbox (Inquiries), announcements and their copies (Notifications),  *)
(* the newsletter (Subscriptions), settings and translations               *)
(* (Configuration), and about the revisions of the database (Migrations),  *)
(* for any rows and any loads.                                             *)
(***************************************************************************)
EXTENDS SitePeopleProofs

-----------------------------------------------------------------------------
(* The contact form and its inbox.                                         *)

\* A set of columns that leaves an inquiry an inquiry.
InquiryPart(set) == \A row \in InquiryRow : Written(row, set) \in InquiryRow

\* What a call on inquiries carries.
InquiryCallOK(c) ==
    /\ c.op \in {"inquiry", "tell"} => c.id \in Inquiries
    /\ c.op = "inquiry" => InquiryPart(c.set)
    /\ c.op = "inquiry" /\ inquiries[c.id] = None => c.set \in InquiryRow
    /\ c.op = "tell" => inquiries[c.id] # None

\* The rows there are.
Kept == {x \in Inquiries : inquiries[x] # None}

\* Rows stay, and nobody is told of one that is not there.
InquiryInv ==
    /\ InquiryTypeOK
    /\ IsFiniteSet(Kept)
    /\ \A r \in Requests : call[r] # None => InquiryCallOK(call[r])
    /\ \A x \in told : inquiries[x] # None

\* The inquiries of an origin in the window that begins at t.
FiledFrom(origin, t) ==
    {x \in Inquiries : /\ inquiries[x] # None
                       /\ inquiries[x].origin = origin
                       /\ inquiries[x].created \in t..(t + RateWindow)}

\* What a call knows while no other call can file an inquiry: the window that
\* ends with its own has room, and an edit moves no inquiry to another window.
InquiryKnows(c) ==
    /\ c.op = "inquiry" /\ inquiries[c.id] = None =>
          (c.set.origin # None /\ MaxSubmissions > 0 =>
              Cardinality(Since(c.set.origin, c.set.created - RateWindow)) < MaxSubmissions)
    /\ c.op = "inquiry" /\ inquiries[c.id] # None => DOMAIN c.set \cap {"origin", "created"} = {}

\* No window holds more than the limit.
PacedInv ==
    Alone => /\ \A r \in Requests : call[r] # None => InquiryKnows(call[r])
             /\ MaxSubmissions > 0 =>
                   \A origin \in Origins, t \in Nat :
                      Cardinality(FiledFrom(origin, t)) <= MaxSubmissions

\* A call that begins on inquiries.
InquiryBegan(r) == \E c : Begin(r, c) /\ InquiryCallOK(c) /\ (Alone => InquiryKnows(c))

\* Columns with values of their own leave an inquiry an inquiry.
LEMMA InquiryParts ==
    ASSUME NEW set,
           DOMAIN set \subseteq {"sender", "form", "status", "notes", "read", "readAt",
                                 "reader", "gone"},
           "sender" \in DOMAIN set => set.sender \in Senders,
           "form" \in DOMAIN set => set.form \in Forms,
           "status" \in DOMAIN set => set.status \in {"new", "closed"},
           "notes" \in DOMAIN set => set.notes \in BOOLEAN,
           "read" \in DOMAIN set => set.read \in BOOLEAN,
           "readAt" \in DOMAIN set => set.readAt \in Nat,
           "reader" \in DOMAIN set => set.reader \in Desk,
           "gone" \in DOMAIN set => set.gone \in BOOLEAN
    PROVE  InquiryPart(set) /\ DOMAIN set \cap {"origin", "created"} = {}
<1> SUFFICES ASSUME NEW row \in InquiryRow PROVE Written(row, set) \in InquiryRow
  BY DEF InquiryPart
<1>1. row # None BY InquiryNoneAssumption
<1>2. QED BY <1>1 DEF Written, InquiryRow

\* An edit of a row that is there.
LEMMA InquiryEdits ==
    ASSUME InquiryInv, NEW r \in Requests, NEW x \in Inquiries, inquiries[x] # None, NEW set,
           InquiryPart(set), DOMAIN set \cap {"origin", "created"} = {},
           Begin(r, [op |-> "inquiry", id |-> x, set |-> set])
    PROVE  InquiryBegan(r)
<1> DEFINE c == [op |-> "inquiry", id |-> x, set |-> set]
<1>1. InquiryCallOK(c) BY DEF InquiryCallOK
<1>2. InquiryKnows(c) BY DEF InquiryKnows
<1>3. QED BY <1>1, <1>2 DEF InquiryBegan

\* The edits of the inbox.
LEMMA InboxBegins ==
    ASSUME InquiryInv, NEW r \in Requests, Inbox(r)
    PROVE  InquiryBegan(r)
<1>1. ASSUME NEW x \in Inquiries, NEW new, EditInquiry(r, x, new),
             InquiryPart(Changed(inquiries[x], new)),
             DOMAIN Changed(inquiries[x], new) \cap {"origin", "created"} = {}
      PROVE  InquiryBegan(r)
  <2>1. inquiries[x] # None
        /\ Begin(r, [op |-> "inquiry", id |-> x, set |-> Changed(inquiries[x], new)])
    BY <1>1 DEF EditInquiry, Live
  <2>2. QED BY <1>1, <2>1, InquiryEdits
<1>2. ASSUME NEW row, NEW new \in InquiryMoves \cup InquiryUpdates
      PROVE  InquiryPart(Changed(row, new)) /\ DOMAIN Changed(row, new) \cap {"origin", "created"} = {}
  <2> DEFINE set == Changed(row, new)
  <2>1. DOMAIN set \subseteq DOMAIN new /\ \A f \in DOMAIN set : set[f] = new[f] BY DEF Changed
  <2> HIDE DEF set
  <2>2. CASE new \in [status : {"new", "closed"}] BY <2>1, <2>2, InquiryParts DEF set
  <2>3. CASE new \in [status : {"new", "closed"}, notes : BOOLEAN]
    BY <2>1, <2>3, InquiryParts DEF set
  <2>4. CASE new \in [sender : Senders] BY <2>1, <2>4, InquiryParts DEF set
  <2>5. CASE new \in [form : Forms] BY <2>1, <2>5, InquiryParts DEF set
  <2>6. QED BY <2>2, <2>3, <2>4, <2>5 DEF InquiryMoves, InquiryUpdates
<1>3. ASSUME NEW x \in Inquiries, NEW who \in Desk, OpenInquiry(r, x, who)
      PROVE  InquiryBegan(r)
  <2> DEFINE new == IF inquiries[x] # None /\ inquiries[x].read THEN <<>>
                    ELSE [read |-> TRUE, readAt |-> clock, reader |-> who]
             set == Changed(inquiries[x], new)
  <2>1. EditInquiry(r, x, new) BY <1>3 DEF OpenInquiry
  <2>2. clock \in Nat BY WindowAssumption DEF InquiryInv, InquiryTypeOK
  <2>3. /\ DOMAIN new \subseteq {"read", "readAt", "reader"}
        /\ "read" \in DOMAIN new => new.read = TRUE
        /\ "readAt" \in DOMAIN new => new.readAt \in Nat
        /\ "reader" \in DOMAIN new => new.reader \in Desk
    BY <2>2
  <2> HIDE DEF new
  <2>4. DOMAIN set \subseteq DOMAIN new /\ \A f \in DOMAIN set : set[f] = new[f] BY DEF Changed
  <2> HIDE DEF set
  <2>5. InquiryPart(set) /\ DOMAIN set \cap {"origin", "created"} = {}
    BY <2>3, <2>4, InquiryParts
  <2>6. QED BY <2>1, <2>5, <1>1 DEF set
<1>4. ASSUME NEW row, NEW new, DOMAIN new \in {{"read"}, {"gone"}},
             "read" \in DOMAIN new => new.read \in BOOLEAN,
             "gone" \in DOMAIN new => new.gone \in BOOLEAN
      PROVE  InquiryPart(Changed(row, new)) /\ DOMAIN Changed(row, new) \cap {"origin", "created"} = {}
  <2> DEFINE set == Changed(row, new)
  <2>1. DOMAIN set \subseteq DOMAIN new /\ \A f \in DOMAIN set : set[f] = new[f] BY DEF Changed
  <2> HIDE DEF set
  <2>2. QED BY <1>4, <2>1, InquiryParts DEF set
<1>5. ASSUME NEW x \in Inquiries, MarkUnread(r, x) \/ DeleteInquiry(r, x) \/ RestoreInquiry(r, x)
      PROVE  InquiryBegan(r)
  <2>1. CASE MarkUnread(r, x)
    <3> DEFINE new == [read |-> FALSE]
    <3>1. DOMAIN new = {"read"} /\ new.read \in BOOLEAN OBVIOUS
    <3>2. EditInquiry(r, x, new)
      BY <2>1 DEF MarkUnread
    <3> HIDE DEF new
    <3>3. QED BY <3>1, <3>2, <1>1, <1>4
  <2>2. CASE DeleteInquiry(r, x)
    <3> DEFINE new == [gone |-> TRUE]
    <3>1. DOMAIN new = {"gone"} /\ new.gone \in BOOLEAN OBVIOUS
    <3>2. EditInquiry(r, x, new)
      BY <2>2 DEF DeleteInquiry
    <3> HIDE DEF new
    <3>3. QED BY <3>1, <3>2, <1>1, <1>4
  <2>3. CASE RestoreInquiry(r, x)
    <3> DEFINE new == [gone |-> FALSE]
    <3>1. DOMAIN new = {"gone"} /\ new.gone \in BOOLEAN OBVIOUS
    <3>2. inquiries[x] # None
           /\ Begin(r, [op |-> "inquiry", id |-> x, set |-> Changed(inquiries[x], new)])
      BY <2>3 DEF RestoreInquiry
    <3> HIDE DEF new
    <3>3. QED BY <3>1, <3>2, <1>4, InquiryEdits
  <2>4. QED BY <1>5, <2>1, <2>2, <2>3
<1>6. QED BY <1>1, <1>2, <1>3, <1>5 DEF Inbox, ChangeStatus, UpdateInquiry

\* The public form.
LEMMA FormBegins ==
    ASSUME InquiryInv, NEW r \in Requests, PublicForm(r)
    PROVE  InquiryBegan(r)
<1>1. ASSUME NEW x \in Inquiries, NEW sender \in Senders, NEW form \in Forms,
             NEW origin \in Origins \cup {None}, Submit(r, x, sender, form, origin)
      PROVE  InquiryBegan(r)
  <2> DEFINE row == [sender |-> sender, form |-> form, origin |-> origin,
                     created |-> clock, status |-> "new", notes |-> FALSE, read |-> FALSE,
                     readAt |-> None, reader |-> None, gone |-> FALSE]
             c == [op |-> "inquiry", id |-> x, set |-> row]
  <2>1. inquiries[x] = None /\ WithinLimit(origin) /\ Begin(r, c) BY <1>1 DEF Submit
  <2>2. clock \in Nat BY WindowAssumption DEF InquiryInv, InquiryTypeOK
  <2>3. row \in InquiryRow /\ row.origin = origin /\ row.created = clock BY <2>2 DEF InquiryRow
  <2> HIDE DEF row
  <2>4. InquiryPart(row) BY <2>3, InquiryNoneAssumption DEF InquiryPart, Written, InquiryRow
  <2>5. InquiryCallOK(c) BY <2>3, <2>4 DEF InquiryCallOK
  <2>6. InquiryKnows(c) BY <2>1, <2>3 DEF InquiryKnows, WithinLimit
  <2>7. QED BY <2>1, <2>5, <2>6 DEF InquiryBegan
<1>2. ASSUME NEW sender, NEW form, NEW origin, SubmitAgain(r, sender, form, origin)
      PROVE  InquiryBegan(r)
  <2>1. PICK y \in Latest(sender) : Begin(r, [op |-> "tell", id |-> y]) BY <1>2 DEF SubmitAgain
  <2> DEFINE c == [op |-> "tell", id |-> y]
  <2>2. y \in Inquiries /\ inquiries[y] # None BY DEF Latest, RecentFrom, Live
  <2>3. InquiryCallOK(c) BY <2>2 DEF InquiryCallOK
  <2>4. InquiryKnows(c) BY DEF InquiryKnows
  <2>5. QED BY <2>1, <2>3, <2>4 DEF InquiryBegan
<1>3. QED BY <1>1, <1>2 DEF PublicForm

\* A step that writes no inquiry.
LEMMA InquiriesStay ==
    ASSUME CallsInv, InquiryInv, PacedInv, inquiries' = inquiries, load' = load,
           told' \subseteq Kept, clock' \in 0..MaxClock,
           \A q \in Requests : \/ call'[q] = None
                               \/ call'[q] = call[q]
                               \/ InquiryCallOK(call'[q]) /\ (Alone => InquiryKnows(call'[q]))
    PROVE  InquiryInv' /\ PacedInv'
<1>1. ASSUME NEW q \in Requests, call'[q] # None
      PROVE  InquiryCallOK(call[q])' /\ (Alone => InquiryKnows(call[q])')
  <2>1. InquiryCallOK(call'[q]) /\ (Alone => InquiryKnows(call'[q]))
    BY <1>1 DEF InquiryInv, PacedInv
  <2>2. InquiryCallOK(call[q])' BY <2>1 DEF InquiryCallOK
  <2>3. InquiryKnows(call'[q]) => InquiryKnows(call[q])' BY DEF InquiryKnows, Since
  <2>4. QED BY <2>1, <2>2, <2>3
<1>2. told' \subseteq Inquiries /\ \A x \in told' : inquiries'[x] # None BY DEF Kept
<1>3. InquiryInv'
  <2>1. InquiryTypeOK' BY <1>2 DEF InquiryInv, InquiryTypeOK
  <2>2. IsFiniteSet(Kept)' BY DEF InquiryInv, Kept
  <2>3. QED BY <1>1, <1>2, <2>1, <2>2 DEF InquiryInv
<1>4. PacedInv'
  <2>1. \A origin \in Origins, t \in Nat : FiledFrom(origin, t)' = FiledFrom(origin, t)
    BY DEF FiledFrom
  <2>2. Alone' => Alone BY DEF Alone
  <2>3. QED BY <1>1, <2>1, <2>2 DEF PacedInv
<1>5. QED BY <1>3, <1>4

\* A call begins, a request dies, or the desk is told.
LEMMA InquiryOther ==
    ASSUME CallsInv, InquiryInv, PacedInv, NEW r \in Requests,
           \/ InquiryLoad(r) /\ UNCHANGED inquiryVars
           \/ Tell(r)
           \/ Die(r) /\ UNCHANGED inquiryVars
    PROVE  CallsStep /\ InquiryInv' /\ PacedInv'
<1>1. told \subseteq Kept /\ clock \in 0..MaxClock
  BY DEF InquiryInv, InquiryTypeOK, Kept
<1>2. CASE InquiryLoad(r) /\ UNCHANGED inquiryVars
  <2>1. UNCHANGED <<inquiries, told, clock>> BY <1>2 DEF inquiryVars
  <2>2. InquiryBegan(r) BY <1>2, InboxBegins, FormBegins DEF InquiryLoad
  <2> PICK c : Begin(r, c) /\ InquiryCallOK(c) /\ (Alone => InquiryKnows(c))
    BY <2>2 DEF InquiryBegan
  <2>3. Moves(r, c) BY BeginMoves
  <2>4. call'[r] = c /\ (\A q \in Requests \ {r} : call'[q] = call[q]) /\ load' = load
    BY <2>3, Moved
  <2>5. CallsStep BY <2>3 DEF CallsStep
  <2>6. QED BY <1>1, <2>1, <2>4, <2>5, InquiriesStay
<1>3. CASE Tell(r)
  <2>1. CallsStep /\ call'[r] = None /\ (\A q \in Requests \ {r} : call'[q] = call[q])
        /\ load' = load
    BY <1>3, EndedCalls DEF Tell
  <2>2. InquiryCallOK(call[r]) /\ call[r].op = "tell" BY <1>3 DEF Tell, Doing, InquiryInv
  <2>3. call[r].id \in Kept BY <2>2 DEF InquiryCallOK, Kept
  <2>4. told' \subseteq Kept /\ inquiries' = inquiries /\ clock' = clock
    BY <1>1, <1>3, <2>3 DEF Tell
  <2>5. QED BY <1>1, <2>1, <2>4, InquiriesStay
<1>4. CASE Die(r) /\ UNCHANGED inquiryVars
  <2>1. UNCHANGED <<inquiries, told, clock>> BY <1>4 DEF inquiryVars
  <2>2. CallsStep /\ call'[r] = None /\ (\A q \in Requests \ {r} : call'[q] = call[q])
        /\ load' = load
    BY <1>4, EndedCalls DEF Die
  <2>3. QED BY <1>1, <2>1, <2>2, InquiriesStay
<1>5. QED BY <1>2, <1>3, <1>4

\* A window with room for one more holds no more than the limit when it comes.
LEMMA RoomForOne ==
    ASSUME InquiryInv, NEW x \in Inquiries, inquiries[x] = None, NEW row \in InquiryRow,
           inquiries' = [inquiries EXCEPT ![x] = row], MaxSubmissions > 0,
           NEW origin \in Origins, NEW t \in Nat,
           Cardinality(FiledFrom(origin, t)) <= MaxSubmissions,
           row.origin # None =>
              Cardinality(Since(row.origin, row.created - RateWindow)) < MaxSubmissions
    PROVE  Cardinality(FiledFrom(origin, t)') <= MaxSubmissions
<1> DEFINE W == FiledFrom(origin, t)
           W2 == FiledFrom(origin, t)'
           S == Since(row.origin, row.created - RateWindow)
<1>1. inquiries'[x] = row /\ \A y \in Inquiries \ {x} : inquiries'[y] = inquiries[y]
  BY DEF InquiryInv, InquiryTypeOK
<1>2. row # None BY InquiryNoneAssumption
<1>3. x \notin W /\ x \notin S BY DEF FiledFrom, Since
<1>4. IsFiniteSet(W) /\ IsFiniteSet(S)
  <2>1. W \subseteq Kept /\ S \subseteq Kept BY DEF FiledFrom, Since, Kept
  <2>2. QED BY <2>1, FS_Subset DEF InquiryInv
<1>5. CASE row.origin = origin /\ row.created \in t..(t + RateWindow)
  <2>1. row.origin # None BY <1>5, InquiryNoneAssumption
  <2>2. W \subseteq S
    <3> SUFFICES ASSUME NEW y \in W PROVE y \in S OBVIOUS
    <3>1. /\ y \in Inquiries /\ inquiries[y] # None /\ inquiries[y].origin = origin
          /\ inquiries[y].created \in t..(t + RateWindow)
      BY DEF FiledFrom
    <3>2. row.created - RateWindow <= t BY <1>5, WindowAssumption
    <3>3. row.created \in Int BY DEF InquiryRow
    <3>4. inquiries[y].created >= row.created - RateWindow
      BY <3>1, <3>2, <3>3, WindowAssumption
    <3>5. QED BY <3>1, <3>4, <1>5 DEF Since
  <2>3. W2 = W \cup {x} BY <1>1, <1>2, <1>5 DEF FiledFrom
  <2> HIDE DEF W, W2, S
  <2>4. Cardinality(W) <= Cardinality(S) /\ Cardinality(W) \in Nat /\ Cardinality(S) \in Nat
    BY <1>4, <2>2, FS_Subset, FS_CardinalityType
  <2>5. Cardinality(W2) = Cardinality(W) + 1 BY <1>3, <1>4, <2>3, FS_AddElement
  <2>6. Cardinality(S) < MaxSubmissions BY <2>1 DEF S
  <2>7. Cardinality(W2) <= MaxSubmissions BY <2>4, <2>5, <2>6, WindowAssumption
  <2>8. QED BY <2>7 DEF W2
<1>6. CASE ~(row.origin = origin /\ row.created \in t..(t + RateWindow))
  <2>1. W2 = W BY <1>1, <1>3, <1>6 DEF FiledFrom
  <2>2. QED BY <2>1
<1>7. QED BY <1>5, <1>6

\* An inquiry is inserted, or the columns of one are written.
LEMMA WriteInquiryKeeps ==
    ASSUME CallsInv, InquiryInv, PacedInv, NEW r \in Requests, WriteInquiry(r)
    PROVE  CallsStep /\ InquiryInv' /\ PacedInv'
<1> DEFINE c == call[r]
           x == c.id
           row == Written(inquiries[x], c.set)
           next == [op |-> "tell", id |-> x]
<1>1. /\ Doing(r, "inquiry") /\ inquiries' = [inquiries EXCEPT ![x] = row]
      /\ UNCHANGED <<told, clock>>
      /\ inquiries[x] = None => /\ call' = [call EXCEPT ![r] = next]
                                /\ UNCHANGED <<load, made>>
      /\ inquiries[x] # None => End(r)
  BY DEF WriteInquiry
<1>2. c # None /\ c.op = "inquiry" /\ InquiryCallOK(c) /\ (Alone => InquiryKnows(c))
  BY <1>1 DEF Doing, InquiryInv, PacedInv
<1>3. x \in Inquiries BY <1>2 DEF InquiryCallOK
<1>4. row \in InquiryRow
  <2>1. inquiries[x] \in InquiryRow \cup {None} BY <1>3 DEF InquiryInv, InquiryTypeOK
  <2>2. CASE inquiries[x] = None BY <2>2, <1>2 DEF InquiryCallOK, Written
  <2>3. CASE inquiries[x] # None BY <2>1, <2>3, <1>2 DEF InquiryCallOK, InquiryPart
  <2>4. QED BY <2>2, <2>3
<1>5. inquiries'[x] = row /\ \A y \in Inquiries \ {x} : inquiries'[y] = inquiries[y]
  BY <1>1, <1>3 DEF InquiryInv, InquiryTypeOK
<1>6. row # None BY <1>4, InquiryNoneAssumption
<1>7. /\ call'[r] = IF inquiries[x] = None THEN next ELSE None
      /\ (\A q \in Requests \ {r} : call'[q] = call[q]) /\ load' = load /\ CallsStep
  <2>1. CASE inquiries[x] = None
    <3>1. Moves(r, next) BY <1>1, <1>2, <2>1 DEF Moves, CallsInv
    <3>2. QED BY <3>1, <2>1, Moved DEF CallsStep
  <2>2. CASE inquiries[x] # None
    <3>1. QED BY <1>1, <2>2, EndedCalls
  <2>3. QED BY <2>1, <2>2
<1>8. \A y \in Inquiries : inquiries[y] # None => inquiries'[y] # None BY <1>5, <1>6
<1>9. inquiries'[x] # None BY <1>5, <1>6
<1>10. ASSUME NEW q \in Requests, call'[q] # None PROVE InquiryCallOK(call[q])'
  <2>1. CASE q = r
    <3>1. call'[r] = next BY <2>1, <1>7, <1>10
    <3>2. call'[r].op = "tell" /\ call'[r].id = x BY <3>1
    <3> HIDE DEF next
    <3>3. QED BY <2>1, <3>2, <1>3, <1>9 DEF InquiryCallOK
  <2>2. CASE q # r
    <3>1. call'[q] = call[q] /\ InquiryCallOK(call[q]) BY <2>2, <1>7, <1>10 DEF InquiryInv
    <3>2. QED BY <3>1, <1>8 DEF InquiryCallOK
  <2>3. QED BY <2>1, <2>2
<1>11. InquiryInv'
  <2>1. inquiries' \in [Inquiries -> InquiryRow \cup {None}]
    BY <1>1, <1>4 DEF InquiryInv, InquiryTypeOK
  <2>2. InquiryTypeOK' BY <1>1, <2>1 DEF InquiryInv, InquiryTypeOK
  <2>3. IsFiniteSet(Kept)'
    <3>1. Kept' = Kept \cup {x} BY <1>3, <1>5, <1>6 DEF Kept
    <3>2. IsFiniteSet(Kept \cup {x}) BY FS_AddElement DEF InquiryInv
    <3>3. QED BY <3>1, <3>2
  <2>4. \A y \in told' : inquiries'[y] # None BY <1>1, <1>8 DEF InquiryInv, InquiryTypeOK
  <2>5. QED BY <1>10, <2>2, <2>3, <2>4 DEF InquiryInv
<1>12. PacedInv'
  <2> SUFFICES ASSUME Alone
      PROVE  /\ \A q \in Requests : call'[q] # None => InquiryKnows(call[q])'
             /\ MaxSubmissions > 0 =>
                   \A origin \in Origins, t \in Nat :
                      Cardinality(FiledFrom(origin, t)') <= MaxSubmissions
    BY <1>7 DEF PacedInv, Alone
  <2>1. ASSUME NEW q \in Requests, call'[q] # None PROVE InquiryKnows(call[q])'
    <3>1. q = r BY <2>1, <1>2, <1>7, OneCall
    <3>2. call'[q].op = "tell" BY <3>1, <2>1, <1>7
    <3>3. QED BY <3>2 DEF InquiryKnows
  <2>2. ASSUME MaxSubmissions > 0, NEW origin \in Origins, NEW t \in Nat
        PROVE  Cardinality(FiledFrom(origin, t)') <= MaxSubmissions
    <3>1. Cardinality(FiledFrom(origin, t)) <= MaxSubmissions BY <2>2 DEF PacedInv
    <3>2. CASE inquiries[x] = None
      <4>1. row = c.set BY <3>2 DEF Written
      <4>2. row.origin # None =>
               Cardinality(Since(row.origin, row.created - RateWindow)) < MaxSubmissions
        BY <4>1, <3>2, <2>2, <1>2 DEF InquiryKnows
      <4> HIDE DEF row, x
      <4>3. QED BY <1>1, <1>3, <1>4, <2>2, <3>1, <3>2, <4>2, RoomForOne
    <3>3. CASE inquiries[x] # None
      <4>1. inquiries[x] \in InquiryRow BY <3>3, <1>3 DEF InquiryInv, InquiryTypeOK
      <4>2. {"origin", "created"} \subseteq DOMAIN inquiries[x] BY <4>1 DEF InquiryRow
      <4>3. DOMAIN c.set \cap {"origin", "created"} = {} BY <3>3, <1>2 DEF InquiryKnows
      <4>4. row.origin = inquiries[x].origin /\ row.created = inquiries[x].created
        BY <3>3, <4>2, <4>3 DEF Written
      <4>5. \A y \in Inquiries : /\ inquiries'[y] # None <=> inquiries[y] # None
                                 /\ inquiries'[y].origin = inquiries[y].origin
                                 /\ inquiries'[y].created = inquiries[y].created
        BY <3>3, <4>4, <1>5, <1>6
      <4>6. FiledFrom(origin, t)' = FiledFrom(origin, t) BY <4>5 DEF FiledFrom
      <4>7. QED BY <3>1, <4>6
    <3>4. QED BY <3>2, <3>3
  <2>3. QED BY <2>1, <2>2
<1>13. QED BY <1>7, <1>11, <1>12

\* Every step of the part.
LEMMA InquiryStep ==
    ASSUME CallsInv, InquiryInv, PacedInv, InquiryNext
    PROVE  CallsStep /\ InquiryInv' /\ PacedInv'
<1>1. CASE TimePasses
  <2>1. UNCHANGED <<load, call, made, inquiries, told>> BY <1>1 DEF TimePasses, callVars
  <2>2. told' \subseteq Kept /\ clock' \in 0..MaxClock
    BY <1>1, <2>1, WindowAssumption DEF TimePasses, InquiryInv, InquiryTypeOK, Kept
  <2>3. CallsStep BY <2>1 DEF CallsStep, callVars
  <2>4. QED BY <2>1, <2>2, <2>3, InquiriesStay
<1>2. CASE \E r \in Requests : \/ InquiryLoad(r) /\ UNCHANGED inquiryVars
                               \/ WriteInquiry(r) \/ Tell(r)
                               \/ Die(r) /\ UNCHANGED inquiryVars
  BY <1>2, InquiryOther, WriteInquiryKeeps
<1>3. QED BY <1>1, <1>2 DEF InquiryNext

\* Only calls on a part of the office change its tables, and only they are made
\* on it.
LEMMA OfficePart ==
    ASSUME [SiteNext]_siteVars
    PROVE  /\ On("inquiries") => InquiryNext \/ UNCHANGED <<callVars, inquiryVars>>
           /\ ~On("inquiries") => UNCHANGED inquiryVars
           /\ On("notifications") => NoteNext \/ UNCHANGED <<callVars, noteVars>>
           /\ ~On("notifications") => UNCHANGED noteVars
           /\ On("subscriptions") => SubNext \/ UNCHANGED <<callVars, subVars>>
           /\ ~On("subscriptions") => UNCHANGED subVars
           /\ On("configuration") => ConfigNext \/ UNCHANGED <<callVars, configVars>>
           /\ ~On("configuration") => UNCHANGED configVars
<1>1. CASE UNCHANGED siteVars BY <1>1 DEF siteVars, officeVars
<1>2. CASE ContentNext /\ UNCHANGED <<peopleVars, officeVars>>
  BY <1>2 DEF ContentNext, officeVars, On, Kinds
<1>3. CASE PeopleNext /\ UNCHANGED <<treeVars, contentVars, officeVars>>
  BY <1>3 DEF PeopleNext, officeVars, On
<1>4. CASE OfficeNext /\ UNCHANGED <<treeVars, contentVars, peopleVars>>
  BY <1>4 DEF OfficeNext, On
<1>5. QED BY <1>1, <1>2, <1>3, <1>4 DEF SiteNext

\* Off their part, the inbox is empty and stays so.
InquirySite == /\ On("inquiries") => CallsInv /\ InquiryInv /\ PacedInv
               /\ ~On("inquiries") => inquiries = Nothing(Inquiries) /\ told = {}

\* The first state of the inbox.
LEMMA InquiryStarts == ASSUME CallsInit, InquiryInit PROVE CallsInv /\ InquiryInv /\ PacedInv
<1>1. CallsInv /\ \A r \in Requests : call[r] = None BY DEF CallsInit, CallsInv
<1>2. inquiries = [x \in Inquiries |-> None] /\ told = {} /\ clock = 0 BY DEF InquiryInit
<1>3. InquiryTypeOK BY <1>2, WindowAssumption DEF InquiryTypeOK
<1>4. Kept = {} BY <1>2 DEF Kept
<1>5. InquiryInv BY <1>1, <1>2, <1>3, <1>4, FS_EmptySet DEF InquiryInv
<1>6. \A origin, t : FiledFrom(origin, t) = {} BY <1>2 DEF FiledFrom
<1>7. PacedInv BY <1>1, <1>6, FS_EmptySet, WindowAssumption DEF PacedInv
<1>8. QED BY <1>1, <1>5, <1>7

\* The invariant of the part is one of the site.
LEMMA InquiryHolds == SiteSpec => []InquirySite
<1>1. SiteInit => InquirySite
  BY InquiryStarts DEF InquirySite, SiteInit, OfficeInit, InquiryInit, Nothing
<1>2. InquirySite /\ [SiteNext]_siteVars => InquirySite'
  <2> SUFFICES ASSUME InquirySite, [SiteNext]_siteVars PROVE InquirySite' OBVIOUS
  <2>1. On("inquiries")' <=> On("inquiries") BY LoadStays DEF On
  <2>2. CASE On("inquiries")
    <3>1. CASE InquiryNext
      <4>1. CallsInv' /\ InquiryInv' /\ PacedInv'
        BY <2>2, <3>1, InquiryStep, CallsKept DEF InquirySite
      <4>2. QED BY <2>1, <2>2, <4>1 DEF InquirySite
    <3>2. CASE UNCHANGED <<callVars, inquiryVars>>
      <4>1. UNCHANGED <<load, call, made, inquiries, told, clock>>
        BY <3>2 DEF callVars, inquiryVars
      <4>2. told \subseteq Kept /\ clock \in 0..MaxClock
        BY <2>2 DEF InquirySite, InquiryInv, InquiryTypeOK, Kept
      <4>3. InquiryInv' /\ PacedInv' BY <2>2, <4>1, <4>2, InquiriesStay DEF InquirySite
      <4>4. CallsInv' BY <2>2, <4>1 DEF InquirySite, CallsInv
      <4>5. QED BY <2>1, <2>2, <4>3, <4>4 DEF InquirySite
    <3>3. QED BY <2>2, <3>1, <3>2, OfficePart
  <2>3. CASE ~On("inquiries")
    <3>1. UNCHANGED <<inquiries, told>> BY <2>3, OfficePart DEF inquiryVars
    <3>2. QED BY <2>1, <2>3, <3>1 DEF InquirySite
  <2>4. QED BY <2>2, <2>3
<1>3. QED BY <1>1, <1>2, PTL DEF SiteSpec

\* While calls do not overlap, no stretch of the rate window holds more
\* inquiries from one origin than the limit, whatever the desk deletes,
\* restores or corrects; and nobody is told of an inquiry that is not there.
THEOREM FormPaced == SiteSpec => []SubmissionsPaced
<1>1. InquirySite => SubmissionsPaced
  <2> SUFFICES ASSUME InquirySite PROVE SubmissionsPaced OBVIOUS
  <2>1. \A x \in told : inquiries[x] # None BY DEF InquirySite, InquiryInv
  <2>2. ASSUME Alone, MaxSubmissions > 0, NEW origin \in Origins, NEW t \in 0..MaxClock
        PROVE  Cardinality(FiledFrom(origin, t)) <= MaxSubmissions
    <3>1. t \in Nat BY WindowAssumption
    <3>2. CASE On("inquiries") BY <2>2, <3>1, <3>2 DEF InquirySite, PacedInv
    <3>3. CASE ~On("inquiries")
      <4>1. \A x \in Inquiries : inquiries[x] = None BY <3>3 DEF InquirySite, Nothing
      <4>2. FiledFrom(origin, t) = {} BY <4>1 DEF FiledFrom
      <4>3. QED BY <4>2, FS_EmptySet, WindowAssumption
    <3>4. QED BY <3>2, <3>3
  <2>3. QED BY <2>1, <2>2 DEF SubmissionsPaced, FiledFrom
<1>2. QED BY <1>1, InquiryHolds, PTL

-----------------------------------------------------------------------------
(* Announcements and their copies.                                         *)

\* Columns that leave an announcement an announcement, and a copy a copy.
NotePart(set) == \A row \in NoteRow : Written(row, set) \in NoteRow
CopyPart(set) == \A row \in CopyRow : Written(row, set) \in CopyRow

Counters == {"recipients", "reads", "views"}

\* What a call on announcements carries.
NoteCallOK(c) ==
    /\ c.op = "note" => /\ c.id \in Notes
                        /\ NotePart(c.set)
                        /\ notes[c.id] = None => c.set \in NoteRow /\ c.rebuild
                        /\ c.rebuild \/ DOMAIN c.set \cap Counters = {}
    /\ c.op = "copy" => /\ c.id \in Notes /\ c.reader \in Readers
                        /\ CopyPart(c.set)
                        /\ notes[c.id] # None
                        /\ "read" \in DOMAIN c.set => c.set.read
    /\ c.op = "sweep" => /\ c.reader \in Readers
                         /\ DOMAIN c.rows \subseteq Notes
                         /\ \A n \in DOMAIN c.rows : notes[n] # None

\* An announcement counts its copies, and misses none that was read.
Counted(n) == /\ notes[n].recipients = Cardinality(Copied(n))
              /\ notes[n].reads >= Cardinality(ReadBy(n))

NoteInv ==
    /\ NoteTypeOK
    /\ \A r \in Requests : call[r] # None => NoteCallOK(call[r])
    /\ \A n \in Notes : IF notes[n] = None THEN Copied(n) = {} ELSE Counted(n)

\* What a call knows while no other call can write: a rebuilt audience has read
\* nothing, a copy is written once from the row as it is, a sweep marks what is
\* unread, and what is read is on display.
NoteKnows(c) ==
    /\ c.op = "note" =>
          /\ c.rebuild => ReadBy(c.id) = {}
          /\ notes[c.id] # None /\ "published" \in DOMAIN c.set => c.set.published
    /\ c.op = "copy" =>
          LET copy == copies[<<c.id, c.reader>>]
          IN  /\ copy # None
              /\ notes[c.id].published
              /\ "read" \in DOMAIN c.set => ~copy.read
              /\ "count" \in DOMAIN c.set => c.set.count = copy.count + 1
              /\ "views" \in DOMAIN c.set => c.set.views = copy.views + 1
    /\ c.op = "sweep" => \A n \in DOMAIN c.rows :
          /\ copies[<<n, c.reader>>] # None
          /\ copies[<<n, c.reader>>].id = c.rows[n]
          /\ ~copies[<<n, c.reader>>].read
          /\ notes[n].published

\* An announcement counts each reader and every opening once, and has been
\* published if anybody has read it.
Engaged(n) == /\ notes[n].reads = Cardinality(ReadBy(n))
              /\ IsFiniteSet(Openings(n)) /\ notes[n].views = Cardinality(Openings(n))
              /\ ReadBy(n) # {} => notes[n].published

EngagedInv ==
    Alone => /\ \A r \in Requests : call[r] # None => NoteKnows(call[r])
             /\ \A n \in Notes : notes[n] # None => Engaged(n)

\* A call that begins on announcements.
NoteBegan(r) == \E c : Begin(r, c) /\ NoteCallOK(c) /\ (Alone => NoteKnows(c))

\* Columns with values of their own leave an announcement an announcement.
LEMMA NoteParts ==
    ASSUME NEW set,
           DOMAIN set \subseteq {"delivery", "targets", "active", "published", "expires", "gone"},
           "delivery" \in DOMAIN set => set.delivery \in Deliveries,
           "targets" \in DOMAIN set => set.targets \in SUBSET (Readers \cup Teams),
           "active" \in DOMAIN set => set.active \in BOOLEAN,
           "published" \in DOMAIN set => set.published \in BOOLEAN,
           "expires" \in DOMAIN set => set.expires \in Expiries,
           "gone" \in DOMAIN set => set.gone \in BOOLEAN
    PROVE  NotePart(set) /\ DOMAIN set \cap Counters = {}
<1> SUFFICES ASSUME NEW row \in NoteRow PROVE Written(row, set) \in NoteRow
  BY DEF NotePart, Counters
<1>1. row # None BY NoteNoneAssumption
<1> DEFINE all == SUBSET (Readers \cup Teams)
<1>2. NoteRow = [delivery : Deliveries, targets : all, active : BOOLEAN,
            published : BOOLEAN, expires : Expiries, recipients : 0..Cardinality(Readers),
            reads : Nat, views : Nat, gone : BOOLEAN]
  BY DEF NoteRow
<1> HIDE DEF all
<1>3. "targets" \in DOMAIN set => set.targets \in all BY DEF all
<1>4. QED BY <1>1, <1>2, <1>3 DEF Written

\* Columns with values of their own leave a copy a copy.
LEMMA CopyParts ==
    ASSUME NEW set,
           DOMAIN set \subseteq {"read", "count", "views", "archived"},
           "read" \in DOMAIN set => set.read \in BOOLEAN,
           "count" \in DOMAIN set => set.count \in Nat,
           "views" \in DOMAIN set => set.views \in Nat,
           "archived" \in DOMAIN set => set.archived \in BOOLEAN
    PROVE  CopyPart(set)
<1> SUFFICES ASSUME NEW row \in CopyRow PROVE Written(row, set) \in CopyRow BY DEF CopyPart
<1>1. row # None BY NoteNoneAssumption
<1>2. QED BY <1>1 DEF Written, CopyRow

\* Nothing is read of an announcement that is not there.
LEMMA NoneRead ==
    ASSUME NoteInv, NEW n \in Notes, notes[n] = None PROVE ReadBy(n) = {}
  BY DEF NoteInv, ReadBy

\* An announcement is written for the first time.
LEMMA NewNoteBegins ==
    ASSUME NoteInv, NEW r \in Requests, NEW n \in Notes, NEW delivery \in Deliveries,
           NEW targets \in (SUBSET Readers) \cup (SUBSET Teams), NEW active \in BOOLEAN,
           NEW published \in BOOLEAN, NEW expires \in Expiries,
           NewNote(r, n, delivery, targets, active, published, expires)
    PROVE  NoteBegan(r)
<1> DEFINE row == [delivery |-> delivery, targets |-> targets, active |-> active,
                   published |-> published, expires |-> expires, recipients |-> 0,
                   reads |-> 0, views |-> 0, gone |-> FALSE]
           c == [op |-> "note", id |-> n, rebuild |-> TRUE, set |-> row]
<1>1. notes[n] = None /\ Begin(r, c) BY DEF NewNote
<1>2. row \in NoteRow
  <2>1. Cardinality(Readers) \in Nat BY TeamOfAssumption, FS_CardinalityType
  <2>2. 0 \in 0..Cardinality(Readers) BY <2>1
  <2>3. targets \in SUBSET (Readers \cup Teams) OBVIOUS
  <2>4. QED BY <2>2, <2>3 DEF NoteRow
<1> HIDE DEF row
<1>3. NotePart(row)
  <2>1. ASSUME NEW old \in NoteRow PROVE Written(old, row) \in NoteRow
    <3>1. old # None BY NoteNoneAssumption
    <3>2. DOMAIN old = DOMAIN row BY <1>2 DEF NoteRow
    <3>3. Written(old, row) = row
      <4>1. row = [f \in DOMAIN row |-> row[f]] BY <1>2 DEF NoteRow
      <4>2. QED BY <3>1, <3>2, <4>1 DEF Written
    <3>4. QED BY <3>3, <1>2
  <2>2. QED BY <2>1 DEF NotePart
<1>4. NoteCallOK(c) BY <1>2, <1>3 DEF NoteCallOK
<1>5. NoteKnows(c) BY <1>1, NoneRead DEF NoteKnows
<1>6. QED BY <1>1, <1>4, <1>5 DEF NoteBegan

\* An announcement is edited, deleted or restored.
LEMMA NoteEditBegins ==
    ASSUME NoteInv, EngagedInv, NEW r \in Requests, NEW n \in Notes,
           \/ \E new \in NoteUpdates : UpdateNote(r, n, new)
           \/ DeleteNote(r, n) \/ RestoreNote(r, n)
    PROVE  NoteBegan(r)
<1>1. ASSUME NEW rebuild \in BOOLEAN, NEW set, notes[n] # None, NotePart(set),
             DOMAIN set \cap Counters = {},
             Begin(r, [op |-> "note", id |-> n, rebuild |-> rebuild, set |-> set]),
             "published" \in DOMAIN set => set.published,
             Alone /\ rebuild => ReadBy(n) = {}
      PROVE  NoteBegan(r)
  <2> DEFINE c == [op |-> "note", id |-> n, rebuild |-> rebuild, set |-> set]
  <2>1. NoteCallOK(c) BY <1>1 DEF NoteCallOK
  <2>2. Alone => NoteKnows(c) BY <1>1 DEF NoteKnows
  <2>3. QED BY <1>1, <2>1, <2>2 DEF NoteBegan
<1>2. ASSUME NEW new \in NoteUpdates, UpdateNote(r, n, new) PROVE NoteBegan(r)
  <2> DEFINE rebuild == DOMAIN new \cap {"delivery", "targets"} # {}
             set == Changed(notes[n], new)
  <2>1. notes[n] # None /\ Frozen(notes[n], new)
        /\ Begin(r, [op |-> "note", id |-> n, rebuild |-> rebuild, set |-> set])
    BY <1>2 DEF UpdateNote, Live
  <2>2. DOMAIN set \subseteq DOMAIN new
        /\ \A f \in DOMAIN set : set[f] = new[f] /\ new[f] # notes[n][f]
    BY DEF Changed
  <2> HIDE DEF set
  <2>3. NotePart(set) /\ DOMAIN set \cap Counters = {}
        /\ ("published" \in DOMAIN new => new.published \in BOOLEAN)
    <3>1. CASE new \in [delivery : Deliveries, targets : (SUBSET Readers) \cup (SUBSET Teams)]
      <4> DEFINE some == (SUBSET Readers) \cup (SUBSET Teams)
      <4>1. DOMAIN new = {"delivery", "targets"} /\ new.delivery \in Deliveries
            /\ new.targets \in some
        BY <3>1
      <4>2. new.targets \in SUBSET (Readers \cup Teams) BY <4>1
      <4> HIDE DEF some
      <4>3. QED BY <4>1, <4>2, <2>2, NoteParts
    <3>2. CASE new \in [targets : (SUBSET Readers) \cup (SUBSET Teams)]
      <4> DEFINE some == (SUBSET Readers) \cup (SUBSET Teams)
      <4>1. DOMAIN new = {"targets"} /\ new.targets \in some BY <3>2
      <4>2. new.targets \in SUBSET (Readers \cup Teams) BY <4>1
      <4> HIDE DEF some
      <4>3. QED BY <4>1, <4>2, <2>2, NoteParts
    <3>3. CASE new \in [delivery : Deliveries] BY <3>3, <2>2, NoteParts
    <3>4. CASE new \in [published : BOOLEAN] BY <3>4, <2>2, NoteParts
    <3>5. CASE new \in [active : BOOLEAN] BY <3>5, <2>2, NoteParts
    <3>6. CASE new \in [expires : Expiries] BY <3>6, <2>2, NoteParts
    <3>7. QED BY <3>1, <3>2, <3>3, <3>4, <3>5, <3>6 DEF NoteUpdates
  <2>4. notes[n].published \in BOOLEAN BY <2>1 DEF NoteInv, NoteTypeOK, NoteRow
  <2>5. "published" \in DOMAIN set => set.published
    <3>1. ASSUME "published" \in DOMAIN set PROVE set.published
      <4>1. "published" \in DOMAIN new /\ set.published = new.published
            /\ new.published # notes[n].published
        BY <2>2, <3>1
      <4>2. ~notes[n].published BY <4>1, <2>1 DEF Frozen
      <4>3. QED BY <4>1, <4>2, <2>3, <2>4
    <3>2. QED BY <3>1
  <2>6. ASSUME Alone, rebuild PROVE ReadBy(n) = {}
    <3>1. ~notes[n].published BY <2>1, <2>6 DEF Frozen
    <3>2. QED BY <2>1, <2>6, <3>1 DEF EngagedInv, Engaged
  <2> HIDE DEF rebuild
  <2>7. rebuild \in BOOLEAN BY DEF rebuild
  <2>8. QED BY <1>1, <2>1, <2>3, <2>5, <2>6, <2>7
<1>3. CASE DeleteNote(r, n)
  <2> DEFINE set == [gone |-> TRUE]
  <2>1. DOMAIN set = {"gone"} /\ set.gone \in BOOLEAN OBVIOUS
  <2>2. notes[n] # None /\ Begin(r, [op |-> "note", id |-> n, rebuild |-> FALSE, set |-> set])
    BY <1>3 DEF DeleteNote, Live
  <2> HIDE DEF set
  <2>3. NotePart(set) /\ DOMAIN set \cap Counters = {} BY <2>1, NoteParts
  <2>4. QED BY <1>1, <2>1, <2>2, <2>3
<1>4. CASE RestoreNote(r, n)
  <2> DEFINE new == [gone |-> FALSE]
             set == Changed(notes[n], new)
  <2>1. DOMAIN new = {"gone"} /\ new.gone \in BOOLEAN OBVIOUS
  <2>2. notes[n] # None /\ Begin(r, [op |-> "note", id |-> n, rebuild |-> FALSE, set |-> set])
    BY <1>4 DEF RestoreNote
  <2> HIDE DEF new
  <2>3. DOMAIN set \subseteq DOMAIN new /\ \A f \in DOMAIN set : set[f] = new[f] BY DEF Changed
  <2> HIDE DEF set
  <2>4. NotePart(set) /\ DOMAIN set \cap Counters = {} BY <2>1, <2>3, NoteParts
  <2>5. QED BY <1>1, <2>1, <2>2, <2>3, <2>4
<1>5. QED BY <1>2, <1>3, <1>4

\* Calls of the desk.
LEMMA DeskBegins ==
    ASSUME NoteInv, EngagedInv, NEW r \in Requests, DeskCalls(r)
    PROVE  NoteBegan(r)
<1> PICK n \in Notes :
      \/ \E delivery \in Deliveries, targets \in (SUBSET Readers) \cup (SUBSET Teams),
            active \in BOOLEAN, published \in BOOLEAN, expires \in {"never", "ahead"} :
              CreateNote(r, n, delivery, targets, active, published, expires)
      \/ \E delivery \in Deliveries, targets \in (SUBSET Readers) \cup (SUBSET Teams) :
              Send(r, n, delivery, targets)
      \/ \E new \in NoteUpdates : UpdateNote(r, n, new)
      \/ DeleteNote(r, n) \/ RestoreNote(r, n)
  BY DEF DeskCalls
<1>1. {"never", "ahead"} \subseteq Expiries BY DEF Expiries
<1>2. CASE \E delivery \in Deliveries, targets \in (SUBSET Readers) \cup (SUBSET Teams),
              active \in BOOLEAN, published \in BOOLEAN, expires \in {"never", "ahead"} :
                CreateNote(r, n, delivery, targets, active, published, expires)
  BY <1>1, <1>2, NewNoteBegins DEF CreateNote
<1>3. CASE \E delivery \in Deliveries, targets \in (SUBSET Readers) \cup (SUBSET Teams) :
              Send(r, n, delivery, targets)
  BY <1>1, <1>3, NewNoteBegins DEF Send
<1>4. CASE \/ \E new \in NoteUpdates : UpdateNote(r, n, new)
           \/ DeleteNote(r, n) \/ RestoreNote(r, n)
  BY <1>4, NoteEditBegins
<1>5. QED BY <1>2, <1>3, <1>4

\* Calls of a reader.
LEMMA ReaderBegins ==
    ASSUME NoteInv, NEW r \in Requests, ReaderCalls(r)
    PROVE  NoteBegan(r)
<1> PICK u \in Readers :
      \/ \E n \in Notes, yes \in BOOLEAN : OpenCopy(r, n, u, yes) \/ ArchiveCopy(r, n, u, yes)
      \/ MarkAllRead(r, u)
  BY DEF ReaderCalls
<1>1. ASSUME NEW n \in Notes, NEW set, copies[<<n, u>>] # None, Visible(notes[n]),
             Begin(r, [op |-> "copy", id |-> n, reader |-> u, row |-> copies[<<n, u>>].id,
                       set |-> set]),
             DOMAIN set \subseteq {"read", "count", "views", "archived"},
             "read" \in DOMAIN set => set.read = TRUE /\ ~copies[<<n, u>>].read,
             "count" \in DOMAIN set => set.count = copies[<<n, u>>].count + 1,
             "views" \in DOMAIN set => set.views = copies[<<n, u>>].views + 1,
             "archived" \in DOMAIN set => set.archived \in BOOLEAN
      PROVE  NoteBegan(r)
  <2> DEFINE c == [op |-> "copy", id |-> n, reader |-> u, row |-> copies[<<n, u>>].id,
                   set |-> set]
  <2>1. copies[<<n, u>>] \in CopyRow BY <1>1 DEF NoteInv, NoteTypeOK
  <2>2. copies[<<n, u>>].count \in Nat /\ copies[<<n, u>>].views \in Nat BY <2>1 DEF CopyRow
  <2>3. CopyPart(set)
    <3>1. "read" \in DOMAIN set => set.read \in BOOLEAN BY <1>1
    <3>2. /\ "count" \in DOMAIN set => set.count \in Nat
          /\ "views" \in DOMAIN set => set.views \in Nat
      BY <1>1, <2>2
    <3>3. QED BY <3>1, <3>2, <1>1, CopyParts
  <2>4. notes[n] # None BY <1>1 DEF NoteInv, Copied
  <2>5. NoteCallOK(c) BY <2>3, <2>4, <1>1 DEF NoteCallOK
  <2>6. NoteKnows(c) BY <1>1 DEF NoteKnows, Visible
  <2>7. QED BY <1>1, <2>5, <2>6 DEF NoteBegan
<1>2. ASSUME NEW n \in Notes, NEW page \in BOOLEAN, OpenCopy(r, n, u, page)
      PROVE  NoteBegan(r)
  <2> DEFINE copy == copies[<<n, u>>]
             read == [read |-> TRUE]
             set == Opened(copy, page)
  <2>1. copy # None /\ Visible(notes[n])
        /\ Begin(r, [op |-> "copy", id |-> n, reader |-> u, row |-> copy.id, set |-> set])
    BY <1>2 DEF OpenCopy
  <2>2. copy \in CopyRow BY <2>1 DEF NoteInv, NoteTypeOK
  <2>3. copy.read \in BOOLEAN BY <2>2 DEF CopyRow
  <2> DEFINE once == Changed(copy, read)
             counted == Also(once, [count |-> copy.count + 1])
             viewed == Also(counted, [views |-> copy.views + 1])
  <2>4. /\ DOMAIN once \subseteq {"read"}
        /\ "read" \in DOMAIN once => once.read = TRUE /\ ~copy.read
    BY <2>3 DEF Changed
  <2> HIDE DEF once
  <2>5. /\ DOMAIN counted = DOMAIN once \cup {"count"}
        /\ "read" \in DOMAIN counted => counted.read = TRUE /\ ~copy.read
        /\ counted.count = copy.count + 1
    BY <2>4 DEF Also
  <2>6. /\ DOMAIN viewed = DOMAIN counted \cup {"views"}
        /\ "read" \in DOMAIN viewed => viewed.read = TRUE /\ ~copy.read
        /\ viewed.count = copy.count + 1
        /\ viewed.views = copy.views + 1
    <3> HIDE DEF counted
    <3>1. QED BY <2>4, <2>5 DEF Also
  <2>7. set = IF page THEN viewed ELSE counted BY DEF Opened, ReadOf, once
  <2> HIDE DEF counted, viewed, set, copy
  <2>8. /\ DOMAIN set \subseteq {"read", "count", "views"}
        /\ "read" \in DOMAIN set => set.read = TRUE /\ ~copy.read
        /\ "count" \in DOMAIN set => set.count = copy.count + 1
        /\ "views" \in DOMAIN set => set.views = copy.views + 1
    <3>1. CASE page BY <3>1, <2>4, <2>5, <2>6, <2>7
    <3>2. CASE ~page BY <3>2, <2>4, <2>5, <2>7
    <3>3. QED BY <3>1, <3>2
  <2>9. QED BY <1>1, <2>1, <2>8 DEF copy
<1>3. ASSUME NEW n \in Notes, NEW away \in BOOLEAN, ArchiveCopy(r, n, u, away)
      PROVE  NoteBegan(r)
  <2> DEFINE new == [archived |-> away]
             set == Changed(copies[<<n, u>>], new)
  <2>1. DOMAIN new = {"archived"} /\ new.archived \in BOOLEAN OBVIOUS
  <2>2. copies[<<n, u>>] # None /\ Visible(notes[n])
        /\ Begin(r, [op |-> "copy", id |-> n, reader |-> u, row |-> copies[<<n, u>>].id,
                     set |-> set])
    BY <1>3 DEF ArchiveCopy
  <2> HIDE DEF new
  <2>3. DOMAIN set \subseteq DOMAIN new /\ \A f \in DOMAIN set : set[f] = new[f] BY DEF Changed
  <2> HIDE DEF set
  <2>4. QED BY <1>1, <2>1, <2>2, <2>3
<1>4. CASE MarkAllRead(r, u)
  <2> DEFINE rows == [n \in Unread(u) |-> copies[<<n, u>>].id]
             c == [op |-> "sweep", id |-> None, reader |-> u, rows |-> rows]
  <2>1. Begin(r, c) BY <1>4 DEF MarkAllRead
  <2>2. DOMAIN rows = Unread(u) /\ \A n \in Unread(u) : rows[n] = copies[<<n, u>>].id OBVIOUS
  <2> HIDE DEF rows
  <2>3. \A n \in Unread(u) : /\ n \in Notes /\ copies[<<n, u>>] # None /\ ~copies[<<n, u>>].read
                             /\ notes[n] # None /\ notes[n].published
    BY DEF Unread, Live, Visible
  <2>4. NoteCallOK(c) BY <2>2, <2>3 DEF NoteCallOK
  <2>5. NoteKnows(c) BY <2>2, <2>3 DEF NoteKnows
  <2>6. QED BY <2>1, <2>4, <2>5 DEF NoteBegan
<1>5. QED BY <1>2, <1>3, <1>4

\* A step that writes no copy and no counter.
LEMMA CountersStay ==
    ASSUME CallsInv, NoteInv, EngagedInv, copies' = copies, load' = load,
           notes' \in [Notes -> NoteRow \cup {None}], activeReaders' \subseteq Readers,
           \A n \in Notes : /\ notes'[n] = None <=> notes[n] = None
                            /\ notes[n] # None =>
                                 /\ notes'[n].recipients = notes[n].recipients
                                 /\ notes'[n].reads = notes[n].reads
                                 /\ notes'[n].views = notes[n].views
                                 /\ Alone /\ notes[n].published => notes'[n].published,
           \A q \in Requests : \/ call'[q] = None
                               \/ call'[q] = call[q]
                               \/ NoteCallOK(call'[q]) /\ (Alone => NoteKnows(call'[q]))
    PROVE  NoteInv' /\ EngagedInv'
<1>1. ASSUME NEW q \in Requests, call'[q] # None
      PROVE  NoteCallOK(call'[q]) /\ (Alone => NoteKnows(call'[q]))
  BY <1>1 DEF NoteInv, EngagedInv
<1>2. \A n \in Notes : /\ Copied(n)' = Copied(n) /\ ReadBy(n)' = ReadBy(n)
                       /\ Openings(n)' = Openings(n)
  BY DEF Copied, ReadBy, Openings
<1>3. ASSUME NEW q \in Requests, call'[q] # None PROVE NoteCallOK(call[q])'
  <2>1. NoteCallOK(call'[q]) BY <1>1, <1>3
  <2>2. QED BY <2>1 DEF NoteCallOK
<1>4. ASSUME NEW q \in Requests, call'[q] # None, Alone PROVE NoteKnows(call[q])'
  <2>1. NoteKnows(call'[q]) /\ NoteCallOK(call'[q]) BY <1>1, <1>4
  <2>2. call'[q].op = "note" => call'[q].id \in Notes BY <2>1 DEF NoteCallOK
  <2>3. call'[q].op = "copy" => call'[q].id \in Notes /\ notes[call'[q].id] # None
    BY <2>1 DEF NoteCallOK
  <2>4. call'[q].op = "sweep" => \A n \in DOMAIN call'[q].rows : n \in Notes /\ notes[n] # None
    BY <2>1 DEF NoteCallOK
  <2>5. CASE call'[q].op = "note" BY <2>1, <2>2, <2>5, <1>2 DEF NoteKnows
  <2>6. CASE call'[q].op = "copy" BY <2>1, <2>3, <2>6, <1>4 DEF NoteKnows
  <2>7. CASE call'[q].op = "sweep" BY <2>1, <2>4, <2>7, <1>4 DEF NoteKnows
  <2>8. QED BY <2>5, <2>6, <2>7 DEF NoteKnows
<1>5. NoteTypeOK' BY DEF NoteInv, NoteTypeOK
<1>6. NoteInv' BY <1>2, <1>3, <1>5 DEF NoteInv, Counted
<1>7. EngagedInv' BY <1>2, <1>4 DEF EngagedInv, Engaged, Alone
<1>8. QED BY <1>6, <1>7

\* A call begins or a request dies.
LEMMA NoteCallMoves ==
    ASSUME CallsInv, NoteInv, EngagedInv, NEW r \in Requests, UNCHANGED noteVars,
           NoteBegan(r) \/ Die(r)
    PROVE  CallsStep /\ NoteInv' /\ EngagedInv'
<1>1. UNCHANGED <<notes, copies, activeReaders>> BY DEF noteVars
<1>2. notes \in [Notes -> NoteRow \cup {None}] /\ activeReaders \subseteq Readers
  BY DEF NoteInv, NoteTypeOK
<1>3. CASE NoteBegan(r)
  <2> PICK c : Begin(r, c) /\ NoteCallOK(c) /\ (Alone => NoteKnows(c)) BY <1>3 DEF NoteBegan
  <2>1. Moves(r, c) BY BeginMoves
  <2>2. call'[r] = c /\ (\A q \in Requests \ {r} : call'[q] = call[q]) /\ load' = load
    BY <2>1, Moved
  <2>3. QED BY <1>1, <1>2, <2>1, <2>2, CountersStay DEF CallsStep
<1>4. CASE Die(r)
  <2>1. CallsStep /\ call'[r] = None /\ (\A q \in Requests \ {r} : call'[q] = call[q])
        /\ load' = load
    BY <1>4, EndedCalls DEF Die
  <2>2. QED BY <1>1, <1>2, <2>1, CountersStay
<1>5. QED BY <1>3, <1>4

\* The publication moment or the expiry of an announcement comes, or an account
\* is suspended or reinstated.
LEMMA NoteTime ==
    ASSUME CallsInv, NoteInv, EngagedInv, UNCHANGED callVars,
           \/ \E n \in Notes : PublicationComes(n) \/ ExpiryComes(n)
           \/ \E u \in Readers : StatusChanges(u)
    PROVE  CallsStep /\ NoteInv' /\ EngagedInv'
<1>1. UNCHANGED <<load, call, made>> /\ CallsStep BY DEF callVars, CallsStep
<1>2. notes \in [Notes -> NoteRow \cup {None}] /\ activeReaders \subseteq Readers
  BY DEF NoteInv, NoteTypeOK
<1>3. CASE \E u \in Readers : StatusChanges(u)
  <2>1. notes' = notes /\ copies' = copies /\ activeReaders' \subseteq Readers
    BY <1>2, <1>3 DEF StatusChanges
  <2>2. QED BY <1>1, <1>2, <2>1, CountersStay
<1>4. ASSUME NEW n \in Notes, NEW f \in {"published", "expires"}, NEW v,
             f = "published" => v = TRUE, f = "expires" => v = "past", notes[n] # None,
             notes' = [notes EXCEPT ![n] = [@ EXCEPT ![f] = v]],
             UNCHANGED <<copies, activeReaders>>
      PROVE  NoteInv' /\ EngagedInv'
  <2> DEFINE row == [notes[n] EXCEPT ![f] = v]
  <2>1. notes[n] \in NoteRow BY <1>2, <1>4
  <2>2. /\ row \in NoteRow /\ row.recipients = notes[n].recipients
        /\ row.reads = notes[n].reads /\ row.views = notes[n].views
        /\ notes[n].published => row.published
    <3>1. CASE f = "published" BY <2>1, <3>1, <1>4 DEF NoteRow
    <3>2. CASE f = "expires" BY <2>1, <3>2, <1>4 DEF NoteRow, Expiries
    <3>3. QED BY <3>1, <3>2
  <2>3. notes'[n] = row /\ \A m \in Notes \ {n} : notes'[m] = notes[m] BY <1>2, <1>4
  <2>4. notes' \in [Notes -> NoteRow \cup {None}] BY <1>2, <1>4, <2>2
  <2>5. row # None BY <2>2, NoteNoneAssumption
  <2> HIDE DEF row
  <2>6. QED BY <1>1, <1>2, <1>4, <2>2, <2>3, <2>4, <2>5, CountersStay
<1>5. ASSUME NEW n \in Notes, PublicationComes(n) PROVE NoteInv' /\ EngagedInv'
  <2>1. notes' = [notes EXCEPT ![n] = [@ EXCEPT !["published"] = TRUE]]
    BY <1>5 DEF PublicationComes
  <2>2. QED BY <1>4, <1>5, <2>1 DEF PublicationComes
<1>6. ASSUME NEW n \in Notes, ExpiryComes(n) PROVE NoteInv' /\ EngagedInv'
  <2>1. notes' = [notes EXCEPT ![n] = [@ EXCEPT !["expires"] = "past"]]
    BY <1>6 DEF ExpiryComes
  <2>2. QED BY <1>4, <1>6, <2>1 DEF ExpiryComes
<1>7. QED BY <1>1, <1>3, <1>5, <1>6

\* The openings counted when a reader's page is opened once more.
LEMMA OneMoreOpening ==
    ASSUME NoteInv, NEW n \in Notes, NEW u \in Readers, copies[<<n, u>>] # None,
           NEW row \in CopyRow, copies'[<<n, u>>] = row,
           \A w \in Readers \ {u} : copies'[<<n, w>>] = copies[<<n, w>>],
           IsFiniteSet(Openings(n))
    PROVE  /\ row.views = copies[<<n, u>>].views =>
                 Openings(n)' = Openings(n)
           /\ row.views = copies[<<n, u>>].views + 1 =>
                 /\ IsFiniteSet(Openings(n)')
                 /\ Cardinality(Openings(n)') = Cardinality(Openings(n)) + 1
<1> DEFINE v == copies[<<n, u>>].views
<1> PICK cs : cs = copies' OBVIOUS
<1>1. copies \in [Notes \X Readers -> CopyRow \cup {None}] /\ <<n, u>> \in Notes \X Readers
  BY DEF NoteInv, NoteTypeOK
<1>2. cs[<<n, u>>] = row /\ \A w \in Readers \ {u} : cs[<<n, w>>] = copies[<<n, w>>]
  OBVIOUS
<1>3. row # None BY NoteNoneAssumption
<1>4. Copied(n)' = Copied(n) BY <1>2, <1>3 DEF Copied
<1>5. u \in Copied(n) /\ v \in Nat
  <2>1. copies[<<n, u>>] \in CopyRow BY <1>1
  <2>2. QED BY <2>1 DEF Copied, CopyRow
<1>6. Copied(n) \subseteq Readers BY DEF Copied
<1> DEFINE nexts == Openings(n)'
<1>7. \A p : p \in Openings(n) <=>
               \E w \in Copied(n) : \E k \in 1..copies[<<n, w>>].views : p = <<w, k>>
  <2> DEFINE F(w) == {<<w, k>> : k \in 1..copies[<<n, w>>].views}
  <2>1. Openings(n) = UNION {F(w) : w \in Copied(n)} BY DEF Openings
  <2>2. \A w, p : p \in F(w) <=> \E k \in 1..copies[<<n, w>>].views : p = <<w, k>> OBVIOUS
  <2> HIDE DEF F
  <2>3. \A p : p \in Openings(n) <=> \E w \in Copied(n) : p \in F(w) BY <2>1
  <2>4. ASSUME NEW p
        PROVE  p \in Openings(n) <=>
                  \E w \in Copied(n) : \E k \in 1..copies[<<n, w>>].views : p = <<w, k>>
    <3>1. p \in Openings(n) <=> \E w \in Copied(n) : p \in F(w) BY <2>3
    <3>2. \A w : p \in F(w) <=> \E k \in 1..copies[<<n, w>>].views : p = <<w, k>> BY <2>2
    <3>3. QED BY ONLY <3>1, <3>2
  <2>5. QED BY <2>4
<1>8. \A p : p \in nexts <=>
               \E w \in Copied(n) : \E k \in 1..cs[<<n, w>>].views : p = <<w, k>>
  <2> DEFINE F(w) == {<<w, k>> : k \in 1..cs[<<n, w>>].views}
  <2>1. nexts = UNION {F(w) : w \in Copied(n)} BY <1>4 DEF Openings
  <2>2. \A w, p : p \in F(w) <=> \E k \in 1..cs[<<n, w>>].views : p = <<w, k>> OBVIOUS
  <2> HIDE DEF F, nexts
  <2>3. \A p : p \in nexts <=> \E w \in Copied(n) : p \in F(w) BY <2>1
  <2>4. ASSUME NEW p
        PROVE  p \in nexts <=>
                  \E w \in Copied(n) : \E k \in 1..cs[<<n, w>>].views : p = <<w, k>>
    <3>1. p \in nexts <=> \E w \in Copied(n) : p \in F(w) BY <2>3
    <3>2. \A w : p \in F(w) <=> \E k \in 1..cs[<<n, w>>].views : p = <<w, k>> BY <2>2
    <3>3. QED BY ONLY <3>1, <3>2
  <2>5. QED BY <2>4
<1> HIDE DEF nexts
<1>9. ASSUME row.views = v PROVE nexts = Openings(n)
  <2>1. \A w \in Copied(n) : cs[<<n, w>>].views = copies[<<n, w>>].views
    BY <1>2, <1>6, <1>9
  <2>2. \A p : p \in nexts <=> p \in Openings(n)
    <3> TAKE p
    <3>1. p \in nexts <=> \E w \in Copied(n) : \E k \in 1..cs[<<n, w>>].views : p = <<w, k>>
      BY <1>8
    <3>2. p \in Openings(n) <=>
             \E w \in Copied(n) : \E k \in 1..copies[<<n, w>>].views : p = <<w, k>>
      BY <1>7
    <3>3. QED BY ONLY <2>1, <3>1, <3>2
  <2>3. QED BY <2>2
<1>10. ASSUME row.views = v + 1
       PROVE  /\ IsFiniteSet(nexts)
              /\ Cardinality(nexts) = Cardinality(Openings(n)) + 1
  <2> DEFINE new == <<u, v + 1>>
  <2>1. new \notin Openings(n)
    <3> SUFFICES ASSUME NEW w \in Copied(n), NEW k \in 1..copies[<<n, w>>].views,
                        <<u, v + 1>> = <<w, k>>
                 PROVE  FALSE
      BY <1>7
    <3>1. w = u /\ k = v + 1 OBVIOUS
    <3>2. QED BY <3>1, <1>5
  <2>2. \A k : k \in 1..(v + 1) <=> (k \in 1..v \/ k = v + 1) BY <1>5
  <2>3. \A p : p \in nexts <=> (p \in Openings(n) \/ p = new)
    <3> TAKE p
    <3>1. ASSUME p \in nexts PROVE p \in Openings(n) \/ p = new
      <4>1. PICK w \in Copied(n) : \E k \in 1..cs[<<n, w>>].views : p = <<w, k>>
        BY <3>1, <1>8
      <4>2. CASE w = u BY <4>1, <4>2, <2>2, <1>2, <1>5, <1>7, <1>10
      <4>3. CASE w # u BY <4>1, <4>3, <1>2, <1>6, <1>7
      <4>4. QED BY <4>2, <4>3
    <3>2. ASSUME p \in Openings(n) PROVE p \in nexts
      <4>1. PICK w \in Copied(n) : \E k \in 1..copies[<<n, w>>].views : p = <<w, k>>
        BY <3>2, <1>7
      <4>2. CASE w = u BY <4>1, <4>2, <2>2, <1>2, <1>8, <1>10
      <4>3. CASE w # u BY <4>1, <4>3, <1>2, <1>6, <1>8
      <4>4. QED BY <4>2, <4>3
    <3>3. new \in nexts
      <4>1. v + 1 \in 1..(v + 1) BY <1>5
      <4>2. QED BY <4>1, <1>2, <1>5, <1>8, <1>10
    <3>4. QED BY <3>1, <3>2, <3>3
  <2> HIDE DEF new
  <2> DEFINE old == Openings(n)
  <2>4. nexts = old \cup {new} BY <2>3
  <2>5. new \notin old /\ IsFiniteSet(old) BY <2>1
  <2> HIDE DEF old
  <2>6. IsFiniteSet(nexts) /\ Cardinality(nexts) = Cardinality(old) + 1
    BY <2>4, <2>5, FS_AddElement
  <2>7. QED BY <2>6 DEF old
<1>11. QED BY <1>9, <1>10 DEF nexts

\* The row of a copy that is written.
LEMMA CopyWritten ==
    ASSUME NoteInv, NEW r \in Requests, WriteCopy(r)
    PROVE  LET c == call[r]
               old == copies[<<c.id, c.reader>>]
               row == Written(old, c.set)
               by(f) == IF f \in DOMAIN c.set THEN 1 ELSE 0
           IN  /\ c # None /\ c.op = "copy" /\ c.id \in Notes /\ c.reader \in Readers
               /\ old \in CopyRow /\ row \in CopyRow /\ old.id = c.row
               /\ copies' = [copies EXCEPT ![<<c.id, c.reader>>] = row]
               /\ notes[c.id] \in NoteRow /\ notes'[c.id] \in NoteRow
               /\ notes' \in [Notes -> NoteRow \cup {None}]
               /\ notes'[c.id].recipients = notes[c.id].recipients
               /\ notes'[c.id].reads = notes[c.id].reads + by("read")
               /\ notes'[c.id].views = notes[c.id].views + by("views")
               /\ notes'[c.id].published = notes[c.id].published
               /\ \A m \in Notes \ {c.id} : notes'[m] = notes[m]
<1> DEFINE c == call[r]
           old == copies[<<c.id, c.reader>>]
           row == Written(old, c.set)
           reads == notes[c.id].reads + (IF "read" \in DOMAIN c.set THEN 1 ELSE 0)
           views == notes[c.id].views + (IF "views" \in DOMAIN c.set THEN 1 ELSE 0)
           note == [notes[c.id] EXCEPT !.reads = reads, !.views = views]
<1>1. c # None /\ c.op = "copy" /\ NoteCallOK(c) BY DEF WriteCopy, Doing, NoteInv
<1>2. c.id \in Notes /\ c.reader \in Readers /\ CopyPart(c.set) /\ notes[c.id] # None
  BY <1>1 DEF NoteCallOK
<1>3. old # None /\ old.id = c.row /\ copies' = [copies EXCEPT ![<<c.id, c.reader>>] = row]
  BY DEF WriteCopy
<1>4. old \in CopyRow BY <1>2, <1>3 DEF NoteInv, NoteTypeOK
<1>5. row \in CopyRow BY <1>2, <1>4 DEF CopyPart
<1>6. notes \in [Notes -> NoteRow \cup {None}] BY DEF NoteInv, NoteTypeOK
<1>7. notes[c.id] \in NoteRow BY <1>2, <1>6
<1>8. notes' = [notes EXCEPT ![c.id] = note]
  <2>1. notes' = [notes EXCEPT ![c.id].reads = @ + (IF "read" \in DOMAIN c.set THEN 1 ELSE 0),
                               ![c.id].views = @ + (IF "views" \in DOMAIN c.set THEN 1 ELSE 0)]
    BY DEF WriteCopy
  <2>2. QED BY <2>1, <1>2, <1>6, <1>7 DEF NoteRow
<1>9. reads \in Nat /\ views \in Nat
  <2>1. notes[c.id].reads \in Nat /\ notes[c.id].views \in Nat BY <1>7 DEF NoteRow
  <2>2. QED BY <2>1
<1> HIDE DEF reads, views
<1>10. /\ note \in NoteRow /\ note.reads = reads /\ note.views = views
       /\ note.recipients = notes[c.id].recipients /\ note.published = notes[c.id].published
  BY <1>7, <1>9 DEF NoteRow
<1> HIDE DEF note
<1>11. notes'[c.id] = note /\ \A m \in Notes \ {c.id} : notes'[m] = notes[m]
  BY <1>2, <1>6, <1>8
<1>12. notes' \in [Notes -> NoteRow \cup {None}] BY <1>2, <1>6, <1>8, <1>10
<1>13. /\ notes'[c.id].reads = notes[c.id].reads + (IF "read" \in DOMAIN c.set THEN 1 ELSE 0)
       /\ notes'[c.id].views = notes[c.id].views + (IF "views" \in DOMAIN c.set THEN 1 ELSE 0)
  BY <1>10, <1>11 DEF reads, views
<1>14. QED BY <1>1, <1>2, <1>3, <1>4, <1>5, <1>7, <1>10, <1>11, <1>12, <1>13

\* Who has a copy and who has read it, once one copy is written.
LEMMA ReadersAfter ==
    ASSUME NoteInv, NEW n \in Notes, NEW u \in Readers, NEW row \in CopyRow,
           copies[<<n, u>>] # None, copies'[<<n, u>>] = row,
           \A w \in Readers \ {u} : copies'[<<n, w>>] = copies[<<n, w>>],
           copies[<<n, u>>].read => row.read
    PROVE  /\ Copied(n)' = Copied(n)
           /\ ReadBy(n)' = IF row.read THEN ReadBy(n) \cup {u} ELSE ReadBy(n)
           /\ copies[<<n, u>>].read <=> u \in ReadBy(n)
           /\ IsFiniteSet(ReadBy(n)) /\ Cardinality(ReadBy(n)) \in Nat
           /\ Cardinality(ReadBy(n)') \in Nat
           /\ Cardinality(ReadBy(n)') <= Cardinality(ReadBy(n)) + 1
           /\ copies[<<n, u>>].read = row.read => ReadBy(n)' = ReadBy(n)
           /\ ~copies[<<n, u>>].read /\ row.read =>
                 Cardinality(ReadBy(n)') = Cardinality(ReadBy(n)) + 1
<1>1. row # None BY NoteNoneAssumption
<1>2. Copied(n)' = Copied(n) BY <1>1 DEF Copied
<1>3. u \in Copied(n) BY DEF Copied
<1>4. ReadBy(n)' = IF row.read THEN ReadBy(n) \cup {u} ELSE ReadBy(n)
  <2>1. ReadBy(n)' = {w \in Copied(n) : copies'[<<n, w>>].read} BY <1>2 DEF ReadBy
  <2>2. \A w \in Copied(n) \ {u} : copies'[<<n, w>>] = copies[<<n, w>>] BY DEF Copied
  <2>3. CASE row.read BY <2>1, <2>2, <2>3, <1>3 DEF ReadBy
  <2>4. CASE ~row.read BY <2>1, <2>2, <2>4, <1>3 DEF ReadBy
  <2>5. QED BY <2>3, <2>4
<1>5. copies[<<n, u>>].read <=> u \in ReadBy(n) BY <1>3 DEF ReadBy
<1> DEFINE old == ReadBy(n)
           next == ReadBy(n)'
<1>6. IsFiniteSet(old)
  <2>1. old \subseteq Readers BY DEF ReadBy, Copied
  <2>2. QED BY <2>1, TeamOfAssumption, FS_Subset
<1>7. next = old \/ (u \notin old /\ next = old \cup {u})
  BY <1>4, <1>5
<1> HIDE DEF old, next
<1>8. Cardinality(old) \in Nat BY <1>6, FS_CardinalityType
<1>9. CASE next = old
  <2>1. Cardinality(next) \in Nat /\ Cardinality(next) <= Cardinality(old) + 1
    BY <1>8, <1>9
  <2>2. row.read => u \in old BY <1>4, <1>9 DEF old, next
  <2>3. QED BY <1>2, <1>4, <1>5, <1>6, <1>8, <1>9, <2>1, <2>2 DEF old, next
<1>10. CASE u \notin old /\ next = old \cup {u}
  <2>1. Cardinality(next) = Cardinality(old) + 1 BY <1>6, <1>10, FS_AddElement
  <2>2. Cardinality(next) \in Nat /\ Cardinality(next) <= Cardinality(old) + 1
    BY <1>8, <2>1
  <2>3. row.read /\ ~copies[<<n, u>>].read BY <1>4, <1>5, <1>10 DEF old, next
  <2>4. QED BY <1>2, <1>4, <1>5, <1>6, <1>8, <2>1, <2>2, <2>3 DEF old, next
<1>11. QED BY <1>7, <1>9, <1>10

\* An announcement none of whose copies is written.
LEMMA SameCopies ==
    ASSUME NEW n, \A u \in Readers : copies'[<<n, u>>] = copies[<<n, u>>]
    PROVE  Copied(n)' = Copied(n) /\ ReadBy(n)' = ReadBy(n) /\ Openings(n)' = Openings(n)
<1>1. Copied(n)' = Copied(n) BY DEF Copied
<1>2. \A u \in Copied(n) : copies'[<<n, u>>] = copies[<<n, u>>] BY DEF Copied
<1>3. ReadBy(n)' = ReadBy(n) BY <1>1, <1>2 DEF ReadBy
<1>4. Openings(n)' = Openings(n)
  <2> DEFINE F(u) == {<<u, k>> : k \in 1..copies[<<n, u>>].views}
             G(u) == {<<u, k>> : k \in 1..copies'[<<n, u>>].views}
  <2>1. Openings(n) = UNION {F(u) : u \in Copied(n)} BY DEF Openings
  <2>2. Openings(n)' = UNION {G(u) : u \in Copied(n)} BY <1>1 DEF Openings
  <2>3. \A u \in Copied(n) : G(u) = F(u) BY <1>2
  <2> HIDE DEF F, G
  <2>4. {G(u) : u \in Copied(n)} = {F(u) : u \in Copied(n)} BY <2>3
  <2>5. QED BY <2>1, <2>2, <2>4
<1>5. QED BY <1>1, <1>3, <1>4

\* A call that ends leaves what the others carry in order, when no announcement
\* disappears.
LEMMA NoteCallsEnd ==
    ASSUME CallsInv, NoteInv, NEW r \in Requests, call[r] # None, End(r),
           \A n \in Notes : notes[n] # None => notes'[n] # None
    PROVE  /\ CallsStep
           /\ \A q \in Requests : call'[q] # None => NoteCallOK(call[q])'
           /\ Alone' = Alone
           /\ Alone => \A q \in Requests : call'[q] = None
<1>1. CallsStep /\ call'[r] = None /\ (\A q \in Requests \ {r} : call'[q] = call[q])
      /\ Alone' = Alone
  BY EndedCalls
<1>2. ASSUME NEW q \in Requests, call'[q] # None PROVE NoteCallOK(call[q])'
  <2>1. call'[q] = call[q] /\ NoteCallOK(call[q]) BY <1>1, <1>2 DEF NoteInv
  <2>2. QED BY <2>1 DEF NoteCallOK
<1>3. QED BY <1>1, <1>2, EndsAlone

\* A copy is written.
LEMMA WriteCopyKeeps ==
    ASSUME CallsInv, NoteInv, EngagedInv, NEW r \in Requests, WriteCopy(r)
    PROVE  CallsStep /\ NoteInv' /\ EngagedInv'
<1> DEFINE c == call[r]
           n == c.id
           u == c.reader
           old == copies[<<n, u>>]
           row == Written(old, c.set)
           byRead == IF "read" \in DOMAIN c.set THEN 1 ELSE 0
           byViews == IF "views" \in DOMAIN c.set THEN 1 ELSE 0
<1>1. /\ c # None /\ c.op = "copy" /\ n \in Notes /\ u \in Readers
      /\ old \in CopyRow /\ row \in CopyRow
      /\ copies' = [copies EXCEPT ![<<n, u>>] = row]
      /\ notes[n] \in NoteRow /\ notes'[n] \in NoteRow
      /\ notes' \in [Notes -> NoteRow \cup {None}]
      /\ notes'[n].recipients = notes[n].recipients
      /\ notes'[n].reads = notes[n].reads + byRead
      /\ notes'[n].views = notes[n].views + byViews
      /\ notes'[n].published = notes[n].published
      /\ \A m \in Notes \ {n} : notes'[m] = notes[m]
  BY CopyWritten
<1>2. End(r) /\ activeReaders' = activeReaders BY DEF WriteCopy
<1>3. NoteCallOK(c) /\ (Alone => NoteKnows(c)) BY <1>1 DEF NoteInv, EngagedInv
<1>4. copies \in [Notes \X Readers -> CopyRow \cup {None}] BY DEF NoteInv, NoteTypeOK
<1>5. /\ copies'[<<n, u>>] = row
      /\ \A w \in Readers \ {u} : copies'[<<n, w>>] = copies[<<n, w>>]
      /\ \A m \in Notes \ {n} : \A w \in Readers : copies'[<<m, w>>] = copies[<<m, w>>]
  BY <1>1, <1>4
<1>6. old # None /\ notes[n] # None /\ notes'[n] # None BY <1>1, NoteNoneAssumption
<1>7. \A f \in {"read", "count", "views"} :
         row[f] = IF f \in DOMAIN c.set THEN c.set[f] ELSE old[f]
  <2>1. {"read", "count", "views"} \subseteq DOMAIN old BY <1>1 DEF CopyRow
  <2>2. QED BY <2>1, <1>6 DEF Written
<1>8. "read" \in DOMAIN c.set => row.read BY <1>1, <1>3, <1>7 DEF NoteCallOK
<1>9. "read" \notin DOMAIN c.set => row.read = old.read BY <1>7
<1>10. old.read => row.read BY <1>8, <1>9
<1>11. /\ CallsStep /\ Alone' = Alone
       /\ \A q \in Requests : call'[q] # None => NoteCallOK(call[q])'
       /\ Alone => \A q \in Requests : call'[q] = None
  <2>1. \A m \in Notes : notes[m] # None => notes'[m] # None BY <1>1, <1>6
  <2>2. QED BY <2>1, <1>1, <1>2, NoteCallsEnd
<1>12. \A m \in Notes \ {n} : /\ Copied(m)' = Copied(m) /\ ReadBy(m)' = ReadBy(m)
                               /\ Openings(m)' = Openings(m)
  BY <1>5, SameCopies
<1>13. notes[n].reads \in Nat /\ notes[n].views \in Nat BY <1>1 DEF NoteRow
<1>14. PICK v : v = u OBVIOUS
<1>15. PICK k : k = n OBVIOUS
<1> HIDE DEF row, old, n, u, c
<1>16. /\ Copied(k)' = Copied(k)
       /\ Cardinality(ReadBy(k)) \in Nat /\ Cardinality(ReadBy(k)') \in Nat
       /\ Cardinality(ReadBy(k)') <= Cardinality(ReadBy(k)) + 1
       /\ old.read = row.read => ReadBy(k)' = ReadBy(k)
       /\ ~old.read /\ row.read => Cardinality(ReadBy(k)') = Cardinality(ReadBy(k)) + 1
  BY <1>1, <1>5, <1>6, <1>10, <1>14, <1>15, ReadersAfter DEF old
<1>17. Counted(k)'
  <2>1. Counted(k) BY <1>1, <1>6, <1>15 DEF NoteInv
  <2>2. notes'[k].reads >= Cardinality(ReadBy(k)')
    <3>1. CASE "read" \in DOMAIN c.set
      BY <3>1, <2>1, <1>1, <1>13, <1>15, <1>16 DEF Counted
    <3>2. CASE "read" \notin DOMAIN c.set
      BY <3>2, <2>1, <1>1, <1>9, <1>13, <1>15, <1>16 DEF Counted
    <3>3. QED BY <3>1, <3>2
  <2>3. QED BY <2>1, <2>2, <1>1, <1>15, <1>16 DEF Counted
<1>18. NoteInv'
  <2>1. copies' \in [Notes \X Readers -> CopyRow \cup {None}] BY <1>1, <1>4
  <2>2. NoteTypeOK' BY <2>1, <1>1, <1>2 DEF NoteInv, NoteTypeOK
  <2>3. ASSUME NEW m \in Notes
        PROVE  IF notes'[m] = None THEN Copied(m)' = {} ELSE Counted(m)'
    <3>1. CASE m = k BY <3>1, <1>6, <1>15, <1>17
    <3>2. CASE m # k BY <3>2, <1>1, <1>12, <1>15 DEF NoteInv, Counted
    <3>3. QED BY <3>1, <3>2
  <2>4. QED BY <2>2, <2>3, <1>11 DEF NoteInv
<1>19. ASSUME Alone PROVE Engaged(k)'
  <2>1. Engaged(k) /\ NoteKnows(c) BY <1>1, <1>3, <1>6, <1>15, <1>19 DEF EngagedInv
  <2>2. /\ notes[k].published
        /\ "read" \in DOMAIN c.set => ~old.read
        /\ "views" \in DOMAIN c.set => c.set.views = old.views + 1
    BY <2>1, <1>1, <1>15 DEF NoteKnows, n, u, old
  <2>3. notes'[k].reads = Cardinality(ReadBy(k)')
    <3>1. CASE "read" \in DOMAIN c.set
      BY <3>1, <2>1, <2>2, <1>1, <1>8, <1>15, <1>16 DEF Engaged
    <3>2. CASE "read" \notin DOMAIN c.set
      BY <3>2, <2>1, <1>1, <1>9, <1>13, <1>15, <1>16 DEF Engaged
    <3>3. QED BY <3>1, <3>2
  <2>4. IsFiniteSet(Openings(k)) /\ notes[k].views = Cardinality(Openings(k))
    BY <2>1 DEF Engaged
  <2>5. row.views = old.views + byViews
    <3>1. old.views \in Nat BY <1>1 DEF CopyRow
    <3>2. QED BY <3>1, <1>7, <2>2
  <2>6. IsFiniteSet(Openings(k)') /\ notes'[k].views = Cardinality(Openings(k)')
    <3>1. /\ row.views = old.views => Openings(k)' = Openings(k)
          /\ row.views = old.views + 1 =>
                /\ IsFiniteSet(Openings(k)')
                /\ Cardinality(Openings(k)') = Cardinality(Openings(k)) + 1
      BY <2>4, <1>1, <1>5, <1>6, <1>14, <1>15, OneMoreOpening DEF old
    <3>2. old.views \in Nat BY <1>1 DEF CopyRow
    <3>3. CASE "views" \in DOMAIN c.set BY <3>1, <3>3, <2>4, <2>5, <1>1, <1>15
    <3>4. CASE "views" \notin DOMAIN c.set BY <3>1, <3>2, <3>4, <2>4, <2>5, <1>1, <1>13, <1>15
    <3>5. QED BY <3>3, <3>4
  <2>7. notes'[k].published BY <2>2, <1>1, <1>15
  <2>8. QED BY <2>3, <2>6, <2>7 DEF Engaged
<1>20. EngagedInv'
  <2>1. ASSUME Alone, NEW m \in Notes, notes'[m] # None PROVE Engaged(m)'
    <3>1. CASE m = k BY <3>1, <2>1, <1>19
    <3>2. CASE m # k BY <3>2, <2>1, <1>1, <1>12, <1>15 DEF EngagedInv, Engaged
    <3>3. QED BY <3>1, <3>2
  <2>2. QED BY <2>1, <1>11 DEF EngagedInv
<1>21. QED BY <1>11, <1>18, <1>20

\* An announcement is sent: its audience is counted, and nothing is read yet.
LEMMA DeliveredCounts ==
    ASSUME CallsInv, NoteInv, NEW n \in Notes, NEW row \in NoteRow, Delivered(n, row)
    PROVE  /\ notes' \in [Notes -> NoteRow \cup {None}]
           /\ copies' \in [Notes \X Readers -> CopyRow \cup {None}]
           /\ notes'[n] # None
           /\ \A m \in Notes \ {n} : /\ notes'[m] = notes[m] /\ Copied(m)' = Copied(m)
                                     /\ ReadBy(m)' = ReadBy(m) /\ Openings(m)' = Openings(m)
           /\ Counted(n)' /\ Engaged(n)' /\ ReadBy(n)' = {}
<1> DEFINE to == Audience(row.delivery, row.targets)
           more == [recipients |-> Cardinality(to), reads |-> 0, views |-> 0]
           sent == Also(row, more)
<1>1. /\ notes' = [notes EXCEPT ![n] = sent]
      /\ copies' = [x \in Notes \X Readers |->
                      IF x[1] # n THEN copies[x] ELSE IF x[2] \in to THEN FreshCopy ELSE None]
  BY DEF Delivered
<1>2. to \subseteq Readers BY DEF Audience, NoteInv, NoteTypeOK
<1> HIDE DEF to
<1>3. Cardinality(to) \in 0..Cardinality(Readers)
  <2>1. IsFiniteSet(to) /\ Cardinality(to) <= Cardinality(Readers)
    BY <1>2, TeamOfAssumption, FS_Subset
  <2>2. Cardinality(to) \in Nat /\ Cardinality(Readers) \in Nat
    BY <2>1, TeamOfAssumption, FS_CardinalityType
  <2>3. QED BY <2>1, <2>2
<1>4. /\ DOMAIN more = {"recipients", "reads", "views"}
      /\ more.recipients = Cardinality(to) /\ more.reads = 0 /\ more.views = 0
  OBVIOUS
<1> HIDE DEF more
<1>5. sent \in NoteRow /\ sent.recipients = Cardinality(to) /\ sent.reads = 0 /\ sent.views = 0
  BY <1>3, <1>4 DEF Also, NoteRow
<1> HIDE DEF sent
<1>6. FreshCopy \in CopyRow /\ FreshCopy.read = FALSE /\ FreshCopy.views = 0
  BY DEF FreshCopy, CopyRow, CallsInv
<1>7. sent # None /\ FreshCopy # None BY <1>5, <1>6, NoteNoneAssumption
<1>8. /\ notes \in [Notes -> NoteRow \cup {None}]
      /\ copies \in [Notes \X Readers -> CopyRow \cup {None}]
  BY DEF NoteInv, NoteTypeOK
<1>9. /\ notes' \in [Notes -> NoteRow \cup {None}]
      /\ notes'[n] = sent /\ \A m \in Notes \ {n} : notes'[m] = notes[m]
  BY <1>1, <1>5, <1>8
<1>10. copies' \in [Notes \X Readers -> CopyRow \cup {None}]
  <2> DEFINE some == CopyRow \cup {None}
  <2>1. \A x \in Notes \X Readers : copies[x] \in some /\ FreshCopy \in some /\ None \in some
    BY <1>6, <1>8
  <2> HIDE DEF some
  <2>2. copies' \in [Notes \X Readers -> some] BY <1>1, <2>1
  <2>3. QED BY <2>2 DEF some
<1>11. \A w \in Readers : copies'[<<n, w>>] = IF w \in to THEN FreshCopy ELSE None
  BY <1>1
<1>12. \A m \in Notes \ {n} : \A w \in Readers : copies'[<<m, w>>] = copies[<<m, w>>]
  BY <1>1
<1>13. Copied(n)' = to BY <1>2, <1>7, <1>11 DEF Copied
<1>14. \A w \in to : copies'[<<n, w>>] = FreshCopy BY <1>2, <1>11
<1>15. ReadBy(n)' = {}
  <2>1. ReadBy(n)' = {w \in to : copies'[<<n, w>>].read} BY <1>13 DEF ReadBy
  <2>2. \A w \in to : ~copies'[<<n, w>>].read BY <1>6, <1>14
  <2>3. QED BY <2>1, <2>2
<1>16. Openings(n)' = {}
  <2> DEFINE G(w) == {<<w, k>> : k \in 1..copies'[<<n, w>>].views}
  <2>1. Openings(n)' = UNION {G(w) : w \in to} BY <1>13 DEF Openings
  <2>2. \A w \in to : copies'[<<n, w>>].views = 0 BY <1>6, <1>14
  <2>3. \A w \in to : G(w) = {} BY <2>2
  <2> HIDE DEF G
  <2>4. QED BY <2>1, <2>3
<1>17. Counted(n)' BY <1>5, <1>9, <1>13, <1>15, FS_EmptySet DEF Counted
<1>18. Engaged(n)' BY <1>5, <1>9, <1>15, <1>16, FS_EmptySet DEF Engaged
<1>19. QED BY <1>7, <1>9, <1>10, <1>12, <1>15, <1>17, <1>18, SameCopies

\* An announcement is written.
LEMMA WriteNoteKeeps ==
    ASSUME CallsInv, NoteInv, EngagedInv, NEW r \in Requests, WriteNote(r)
    PROVE  CallsStep /\ NoteInv' /\ EngagedInv'
<1> DEFINE c == call[r]
           n == c.id
           row == Written(notes[n], c.set)
<1>1. /\ Doing(r, "note") /\ End(r) /\ activeReaders' = activeReaders
      /\ c.rebuild => Delivered(n, row)
      /\ ~c.rebuild => notes' = [notes EXCEPT ![n] = row] /\ copies' = copies
  BY DEF WriteNote
<1>2. c # None /\ c.op = "note" /\ NoteCallOK(c) /\ (Alone => NoteKnows(c))
  BY <1>1 DEF Doing, NoteInv, EngagedInv
<1>3. n \in Notes BY <1>2 DEF NoteCallOK
<1>4. notes \in [Notes -> NoteRow \cup {None}] BY DEF NoteInv, NoteTypeOK
<1>5. row \in NoteRow
  <2>1. CASE notes[n] = None BY <2>1, <1>2 DEF NoteCallOK, Written
  <2>2. CASE notes[n] # None BY <2>2, <1>2, <1>3, <1>4 DEF NoteCallOK, NotePart
  <2>3. QED BY <2>1, <2>2
<1>6. row # None BY <1>5, NoteNoneAssumption
<1>7. CASE c.rebuild
  <2>1. Delivered(n, row) BY <1>1, <1>7
  <2> PICK k : k = n OBVIOUS
  <2> HIDE DEF row
  <2>2. /\ notes' \in [Notes -> NoteRow \cup {None}]
        /\ copies' \in [Notes \X Readers -> CopyRow \cup {None}]
        /\ notes'[k] # None
        /\ \A m \in Notes \ {k} : /\ notes'[m] = notes[m] /\ Copied(m)' = Copied(m)
                                  /\ ReadBy(m)' = ReadBy(m) /\ Openings(m)' = Openings(m)
        /\ Counted(k)' /\ Engaged(k)'
    <3>1. k \in Notes /\ Delivered(k, row) BY <1>3, <2>1
    <3> HIDE DEF n
    <3>2. QED BY <3>1, <1>5, DeliveredCounts
  <2> HIDE DEF n
  <2>3. \A m \in Notes : notes[m] # None => notes'[m] # None BY <2>2
  <2>4. /\ CallsStep /\ Alone' = Alone
        /\ \A q \in Requests : call'[q] # None => NoteCallOK(call[q])'
        /\ Alone => \A q \in Requests : call'[q] = None
    BY <2>3, <1>1, <1>2, NoteCallsEnd
  <2>5. NoteTypeOK' BY <2>2, <1>1 DEF NoteInv, NoteTypeOK
  <2>6. ASSUME NEW m \in Notes
        PROVE  IF notes'[m] = None THEN Copied(m)' = {} ELSE Counted(m)'
    <3>1. CASE m = k BY <3>1, <2>2
    <3>2. CASE m # k BY <3>2, <2>2 DEF NoteInv, Counted
    <3>3. QED BY <3>1, <3>2
  <2>7. ASSUME Alone, NEW m \in Notes, notes'[m] # None PROVE Engaged(m)'
    <3>1. CASE m = k BY <3>1, <2>2
    <3>2. CASE m # k BY <3>2, <2>2, <2>7 DEF EngagedInv, Engaged
    <3>3. QED BY <3>1, <3>2
  <2>8. QED BY <2>4, <2>5, <2>6, <2>7 DEF NoteInv, EngagedInv
<1>8. CASE ~c.rebuild
  <2>1. notes[n] # None /\ DOMAIN c.set \cap Counters = {} BY <1>2, <1>8 DEF NoteCallOK
  <2>2. notes[n] \in NoteRow BY <1>3, <1>4, <2>1
  <2>3. \A f \in {"recipients", "reads", "views"} : row[f] = notes[n][f]
    <3>1. {"recipients", "reads", "views"} \subseteq DOMAIN notes[n] BY <2>2 DEF NoteRow
    <3>2. QED BY <3>1, <2>1 DEF Written, Counters
  <2>4. Alone /\ notes[n].published => row.published
    <3>1. "published" \in DOMAIN notes[n] BY <2>2 DEF NoteRow
    <3>2. row.published = IF "published" \in DOMAIN c.set THEN c.set.published
                          ELSE notes[n].published
      BY <3>1, <2>1 DEF Written
    <3>3. Alone /\ "published" \in DOMAIN c.set => c.set.published
      BY <1>2, <2>1 DEF NoteKnows
    <3>4. QED BY <3>2, <3>3
  <2>5. notes'[n] = row /\ \A m \in Notes \ {n} : notes'[m] = notes[m]
    BY <1>1, <1>3, <1>4, <1>8
  <2>6. notes' \in [Notes -> NoteRow \cup {None}] BY <1>1, <1>4, <1>5, <1>8
  <2>7. CallsStep /\ call'[r] = None /\ (\A q \in Requests \ {r} : call'[q] = call[q])
        /\ load' = load
    BY <1>1, EndedCalls
  <2>8. activeReaders' \subseteq Readers BY <1>1 DEF NoteInv, NoteTypeOK
  <2>9. row.recipients = notes[n].recipients /\ row.reads = notes[n].reads
        /\ row.views = notes[n].views
    BY <2>3
  <2>10. \A m \in Notes : /\ notes'[m] = None <=> notes[m] = None
                          /\ notes[m] # None =>
                               /\ notes'[m].recipients = notes[m].recipients
                               /\ notes'[m].reads = notes[m].reads
                               /\ notes'[m].views = notes[m].views
                               /\ Alone /\ notes[m].published => notes'[m].published
    <3> TAKE m \in Notes
    <3>1. CASE m = n BY <3>1, <1>6, <2>1, <2>4, <2>5, <2>9
    <3>2. CASE m # n BY <3>2, <2>5
    <3>3. QED BY <3>1, <3>2
  <2> HIDE DEF row
  <2>11. QED BY <1>1, <1>8, <2>6, <2>7, <2>8, <2>10, CountersStay
<1>9. QED BY <1>7, <1>8

\* What a sweep writes of a copy.
Swept(copy) == Also(copy, [read |-> TRUE, count |-> copy.count + 1])

\* A swept copy is a copy that is read, with its openings as they were.
LEMMA SweptRow ==
    ASSUME NEW copy \in CopyRow
    PROVE  /\ Swept(copy) \in CopyRow
           /\ Swept(copy).read /\ Swept(copy).views = copy.views
           /\ Swept(copy).count = copy.count + 1
<1> DEFINE more == [read |-> TRUE, count |-> copy.count + 1]
<1>1. DOMAIN more = {"read", "count"} /\ more.read = TRUE /\ more.count = copy.count + 1
  OBVIOUS
<1>2. Swept(copy) = Also(copy, more) BY DEF Swept
<1>3. copy.count \in Nat BY DEF CopyRow
<1>4. copy.count + 1 \in Nat BY <1>3
<1> HIDE DEF more
<1>5. QED BY <1>1, <1>2, <1>4 DEF Also, CopyRow

\* The copy of n that a sweep of u loaded is still there.
StillThere(rows, u, n) == copies[<<n, u>>] # None /\ copies[<<n, u>>].id = rows[n]

\* What a sweep does to the announcements and their copies.
Sweeps(c, u) ==
    /\ c # None /\ c.op = "sweep" /\ u \in Readers
    /\ DOMAIN c.rows \subseteq Notes /\ \A n \in DOMAIN c.rows : notes[n] # None
    /\ copies' \in [Notes \X Readers -> CopyRow \cup {None}]
    /\ \A n \in Notes, w \in Readers :
          copies'[<<n, w>>] = IF w = u /\ n \in DOMAIN c.rows /\ StillThere(c.rows, u, n)
                              THEN Swept(copies[<<n, w>>]) ELSE copies[<<n, w>>]
    /\ notes' \in [Notes -> NoteRow \cup {None}]
    /\ \A n \in Notes \ DOMAIN c.rows : notes'[n] = notes[n]
    /\ \A n \in DOMAIN c.rows :
          /\ notes[n] \in NoteRow /\ notes'[n] # None
          /\ notes'[n].reads = notes[n].reads + 1
          /\ notes'[n].views = notes[n].views
          /\ notes'[n].recipients = notes[n].recipients
          /\ notes'[n].published = notes[n].published

\* That is what a sweep of the program does.
LEMMA SweepWritten ==
    ASSUME NoteInv, NEW r \in Requests, WriteSweep(r), NEW c, c = call[r], NEW u, u = c.reader
    PROVE  Sweeps(c, u)
<1>1. c # None /\ c.op = "sweep" /\ NoteCallOK(c) BY DEF WriteSweep, Doing, NoteInv
<1>2. u \in Readers /\ DOMAIN c.rows \subseteq Notes
      /\ \A n \in DOMAIN c.rows : notes[n] # None
  BY <1>1 DEF NoteCallOK
<1>3. /\ copies' = [x \in Notes \X Readers |->
                      IF x[2] = u /\ x[1] \in DOMAIN c.rows /\ StillThere(c.rows, u, x[1])
                      THEN Swept(copies[x]) ELSE copies[x]]
      /\ notes' = [n \in Notes |-> IF n \in DOMAIN c.rows
                                   THEN [notes[n] EXCEPT !.reads = @ + 1] ELSE notes[n]]
  BY DEF WriteSweep, Swept, StillThere
<1>4. /\ copies \in [Notes \X Readers -> CopyRow \cup {None}]
      /\ notes \in [Notes -> NoteRow \cup {None}]
  BY DEF NoteInv, NoteTypeOK
<1>5. ASSUME NEW n \in Notes, NEW w \in Readers
      PROVE  copies'[<<n, w>>] = IF w = u /\ n \in DOMAIN c.rows /\ StillThere(c.rows, u, n)
                                 THEN Swept(copies[<<n, w>>]) ELSE copies[<<n, w>>]
  <2> DEFINE swept(x) == IF x[2] = u /\ x[1] \in DOMAIN c.rows /\ StillThere(c.rows, u, x[1])
                         THEN Swept(copies[x]) ELSE copies[x]
  <2>1. copies' = [x \in Notes \X Readers |-> swept(x)] BY <1>3
  <2>2. <<n, w>> \in Notes \X Readers /\ <<n, w>>[1] = n /\ <<n, w>>[2] = w OBVIOUS
  <2> HIDE DEF swept
  <2>3. copies'[<<n, w>>] = swept(<<n, w>>) BY <2>1, <2>2
  <2>4. swept(<<n, w>>) = IF w = u /\ n \in DOMAIN c.rows /\ StillThere(c.rows, u, n)
                          THEN Swept(copies[<<n, w>>]) ELSE copies[<<n, w>>]
    BY <2>2 DEF swept
  <2>5. QED BY <2>3, <2>4
<1>6. copies' \in [Notes \X Readers -> CopyRow \cup {None}]
  <2> DEFINE some == CopyRow \cup {None}
             swept(x) == IF x[2] = u /\ x[1] \in DOMAIN c.rows /\ StillThere(c.rows, u, x[1])
                         THEN Swept(copies[x]) ELSE copies[x]
  <2>1. copies' = [x \in Notes \X Readers |-> swept(x)] BY <1>3
  <2>2. ASSUME NEW x \in Notes \X Readers PROVE swept(x) \in some
    <3>1. CASE x[2] = u /\ x[1] \in DOMAIN c.rows /\ StillThere(c.rows, u, x[1])
      <4>1. x = <<x[1], u>> BY <3>1
      <4>2. copies[x] \in CopyRow BY <3>1, <4>1, <1>4 DEF StillThere
      <4>3. QED BY <3>1, <4>2, SweptRow
    <3>2. CASE ~(x[2] = u /\ x[1] \in DOMAIN c.rows /\ StillThere(c.rows, u, x[1]))
      BY <3>2, <1>4
    <3>3. QED BY <3>1, <3>2
  <2> HIDE DEF some, swept
  <2>3. copies' \in [Notes \X Readers -> some] BY <2>1, <2>2
  <2>4. QED BY <2>3 DEF some
<1>7. ASSUME NEW n \in DOMAIN c.rows
      PROVE  /\ notes[n] \in NoteRow /\ notes'[n] \in NoteRow
             /\ notes'[n].reads = notes[n].reads + 1
             /\ notes'[n].views = notes[n].views
             /\ notes'[n].recipients = notes[n].recipients
             /\ notes'[n].published = notes[n].published
  <2>1. n \in Notes /\ notes[n] \in NoteRow BY <1>2, <1>4
  <2>2. notes'[n] = [notes[n] EXCEPT !.reads = @ + 1] BY <1>3, <2>1
  <2>3. notes[n].reads + 1 \in Nat BY <2>1 DEF NoteRow
  <2>4. QED BY <2>1, <2>2, <2>3 DEF NoteRow
<1>8. \A n \in Notes \ DOMAIN c.rows : notes'[n] = notes[n] BY <1>3
<1>9. notes' \in [Notes -> NoteRow \cup {None}]
  <2>1. \A n \in Notes : notes'[n] \in NoteRow \cup {None} BY <1>4, <1>7, <1>8
  <2>2. DOMAIN notes' = Notes /\ notes' = [n \in DOMAIN notes' |-> notes'[n]] BY <1>3
  <2>3. QED BY <2>1, <2>2
<1>10. \A n \in DOMAIN c.rows : notes'[n] # None BY <1>7, NoteNoneAssumption
<1>11. QED BY <1>1, <1>2, <1>5, <1>6, <1>7, <1>8, <1>9, <1>10 DEF Sweeps

\* A sweep is written.
LEMMA WriteSweepKeeps ==
    ASSUME CallsInv, NoteInv, EngagedInv, NEW r \in Requests, WriteSweep(r)
    PROVE  CallsStep /\ NoteInv' /\ EngagedInv'
<1> PICK c : c = call[r] OBVIOUS
<1> PICK u : u = c.reader OBVIOUS
<1>0. Sweeps(c, u) BY SweepWritten
<1>1. /\ c # None /\ c.op = "sweep" /\ u \in Readers
      /\ DOMAIN c.rows \subseteq Notes /\ \A n \in DOMAIN c.rows : notes[n] # None
      /\ copies' \in [Notes \X Readers -> CopyRow \cup {None}]
      /\ \A n \in Notes, w \in Readers :
            copies'[<<n, w>>] = IF w = u /\ n \in DOMAIN c.rows /\ StillThere(c.rows, u, n)
                                THEN Swept(copies[<<n, w>>]) ELSE copies[<<n, w>>]
      /\ notes' \in [Notes -> NoteRow \cup {None}]
      /\ \A n \in Notes \ DOMAIN c.rows : notes'[n] = notes[n]
      /\ \A n \in DOMAIN c.rows :
            /\ notes[n] \in NoteRow /\ notes'[n] # None
            /\ notes'[n].reads = notes[n].reads + 1
            /\ notes'[n].views = notes[n].views
            /\ notes'[n].recipients = notes[n].recipients
            /\ notes'[n].published = notes[n].published
  BY <1>0 DEF Sweeps
<1>2. End(r) /\ activeReaders' = activeReaders BY DEF WriteSweep
<1>3. Alone => NoteKnows(c) BY <1>1 DEF EngagedInv
<1>4. copies \in [Notes \X Readers -> CopyRow \cup {None}] BY DEF NoteInv, NoteTypeOK
<1>5. /\ CallsStep /\ Alone' = Alone
      /\ \A q \in Requests : call'[q] # None => NoteCallOK(call[q])'
      /\ Alone => \A q \in Requests : call'[q] = None
  <2>1. \A n \in Notes : notes[n] # None => notes'[n] # None BY <1>1
  <2>2. QED BY <2>1, <1>1, <1>2, NoteCallsEnd
<1>6. ASSUME NEW n \in Notes, n \notin DOMAIN c.rows \/ ~StillThere(c.rows, u, n)
      PROVE  /\ Copied(n)' = Copied(n) /\ ReadBy(n)' = ReadBy(n)
             /\ Openings(n)' = Openings(n)
  <2>1. \A w \in Readers : copies'[<<n, w>>] = copies[<<n, w>>] BY <1>1, <1>6
  <2>2. QED BY <2>1, SameCopies
<1>7. ASSUME NEW n \in DOMAIN c.rows, StillThere(c.rows, u, n)
      PROVE  /\ Copied(n)' = Copied(n)
             /\ Cardinality(ReadBy(n)) \in Nat /\ Cardinality(ReadBy(n)') \in Nat
             /\ Cardinality(ReadBy(n)') <= Cardinality(ReadBy(n)) + 1
             /\ ~copies[<<n, u>>].read =>
                   Cardinality(ReadBy(n)') = Cardinality(ReadBy(n)) + 1
             /\ IsFiniteSet(Openings(n)) => Openings(n)' = Openings(n)
  <2> DEFINE row == Swept(copies[<<n, u>>])
  <2>1. n \in Notes BY <1>1
  <2>2. copies[<<n, u>>] \in CopyRow BY <1>1, <1>4, <1>7, <2>1 DEF StillThere
  <2>3. row \in CopyRow /\ row.read /\ row.views = copies[<<n, u>>].views
    BY <2>2, SweptRow
  <2>4. /\ copies'[<<n, u>>] = row
        /\ \A w \in Readers \ {u} : copies'[<<n, w>>] = copies[<<n, w>>]
    BY <1>1, <1>7, <2>1
  <2>5. copies[<<n, u>>] # None BY <1>7 DEF StillThere
  <2>6. u \in Readers BY <1>1
  <2> HIDE DEF row
  <2>7. /\ Copied(n)' = Copied(n)
        /\ Cardinality(ReadBy(n)) \in Nat /\ Cardinality(ReadBy(n)') \in Nat
        /\ Cardinality(ReadBy(n)') <= Cardinality(ReadBy(n)) + 1
        /\ ~copies[<<n, u>>].read => Cardinality(ReadBy(n)') = Cardinality(ReadBy(n)) + 1
    BY <2>1, <2>3, <2>4, <2>5, <2>6, ReadersAfter
  <2>8. IsFiniteSet(Openings(n)) => Openings(n)' = Openings(n)
    BY <2>1, <2>3, <2>4, <2>5, <2>6, OneMoreOpening
  <2>9. QED BY <2>7, <2>8
<1>8. ASSUME NEW n \in DOMAIN c.rows
      PROVE  /\ n \in Notes /\ notes[n].reads \in Nat /\ Counted(n)
  BY <1>1 DEF NoteInv, NoteRow
<1>9. ASSUME NEW n \in DOMAIN c.rows PROVE Counted(n)'
  <2>1. CASE StillThere(c.rows, u, n)
    <3>1. /\ Cardinality(ReadBy(n)) \in Nat /\ Cardinality(ReadBy(n)') \in Nat
          /\ Cardinality(ReadBy(n)') <= Cardinality(ReadBy(n)) + 1
          /\ notes[n].reads \in Nat /\ notes[n].reads >= Cardinality(ReadBy(n))
          /\ notes'[n].reads = notes[n].reads + 1
      BY <2>1, <1>1, <1>7, <1>8 DEF Counted
    <3>3. notes'[n].reads >= Cardinality(ReadBy(n)') BY <3>1
    <3>2. QED BY <3>3, <2>1, <1>1, <1>7, <1>8 DEF Counted
  <2>2. CASE ~StillThere(c.rows, u, n)
    <3>1. Copied(n)' = Copied(n) /\ ReadBy(n)' = ReadBy(n) BY <2>2, <1>6, <1>8
    <3>2. IsFiniteSet(ReadBy(n))
      <4>1. ReadBy(n) \subseteq Readers BY DEF ReadBy, Copied
      <4>2. QED BY <4>1, TeamOfAssumption, FS_Subset
    <3>3. Cardinality(ReadBy(n)) \in Nat BY <3>2, FS_CardinalityType
    <3>4. notes'[n].reads >= Cardinality(ReadBy(n)) BY <3>3, <1>1, <1>8 DEF Counted
    <3>5. QED BY <3>1, <3>4, <1>1, <1>8 DEF Counted
  <2>3. QED BY <2>1, <2>2
<1>10. ASSUME NEW n \in Notes
       PROVE  IF notes'[n] = None THEN Copied(n)' = {} ELSE Counted(n)'
  <2>1. CASE n \in DOMAIN c.rows BY <2>1, <1>1, <1>9
  <2>2. CASE n \notin DOMAIN c.rows
    <3>1. notes'[n] = notes[n] BY <2>2, <1>1
    <3>2. Copied(n)' = Copied(n) /\ ReadBy(n)' = ReadBy(n) BY <2>2, <1>6
    <3>3. IF notes[n] = None THEN Copied(n) = {} ELSE Counted(n) BY DEF NoteInv
    <3>4. QED BY <3>1, <3>2, <3>3 DEF Counted
  <2>3. QED BY <2>1, <2>2
<1>11. NoteTypeOK' BY <1>1, <1>2 DEF NoteInv, NoteTypeOK
<1>12. NoteInv' BY <1>5, <1>10, <1>11 DEF NoteInv
<1>13. ASSUME Alone, NEW n \in DOMAIN c.rows PROVE Engaged(n)'
  <2>1. StillThere(c.rows, u, n) /\ ~copies[<<n, u>>].read /\ notes[n].published
    BY <1>1, <1>3, <1>13 DEF NoteKnows, StillThere
  <2>2. Engaged(n) BY <1>1, <1>8, <1>13 DEF EngagedInv
  <2>3. notes'[n].reads = Cardinality(ReadBy(n)')
    BY <2>1, <2>2, <1>1, <1>7 DEF Engaged
  <2>4. Openings(n)' = Openings(n) BY <2>1, <2>2, <1>7 DEF Engaged
  <2>5. QED BY <2>1, <2>2, <2>3, <2>4, <1>1 DEF Engaged
<1>14. ASSUME Alone, NEW n \in Notes, notes'[n] # None PROVE Engaged(n)'
  <2>1. CASE n \in DOMAIN c.rows BY <2>1, <1>13, <1>14
  <2>2. CASE n \notin DOMAIN c.rows
    <3>1. notes'[n] = notes[n] BY <2>2, <1>1
    <3>2. Copied(n)' = Copied(n) /\ ReadBy(n)' = ReadBy(n) /\ Openings(n)' = Openings(n)
      BY <2>2, <1>6
    <3>3. Engaged(n) BY <3>1, <1>14 DEF EngagedInv
    <3>4. QED BY <3>1, <3>2, <3>3 DEF Engaged
  <2>3. QED BY <2>1, <2>2
<1>15. EngagedInv' BY <1>5, <1>14 DEF EngagedInv
<1>16. QED BY <1>5, <1>12, <1>15

\* Every step of the part.
LEMMA NoteStep ==
    ASSUME CallsInv, NoteInv, EngagedInv, NoteNext
    PROVE  CallsStep /\ NoteInv' /\ EngagedInv'
<1>1. ASSUME NEW r \in Requests, (DeskCalls(r) \/ ReaderCalls(r)) /\ UNCHANGED noteVars
      PROVE  CallsStep /\ NoteInv' /\ EngagedInv'
  <2>1. NoteBegan(r) BY <1>1, DeskBegins, ReaderBegins
  <2>2. QED BY <1>1, <2>1, NoteCallMoves
<1>2. ASSUME NEW r \in Requests, Die(r) /\ UNCHANGED noteVars
      PROVE  CallsStep /\ NoteInv' /\ EngagedInv'
  BY <1>2, NoteCallMoves
<1>3. CASE /\ \E n \in Notes : PublicationComes(n) \/ ExpiryComes(n)
           /\ UNCHANGED callVars
  BY <1>3, NoteTime
<1>4. CASE \E u \in Readers : StatusChanges(u) /\ UNCHANGED callVars BY <1>4, NoteTime
<1>5. QED
  BY <1>1, <1>2, <1>3, <1>4, WriteNoteKeeps, WriteCopyKeeps, WriteSweepKeeps DEF NoteNext

\* Off their part, there are no announcements.
NoteSite == /\ On("notifications") => CallsInv /\ NoteInv /\ EngagedInv
            /\ ~On("notifications") =>
                  notes = Nothing(Notes) /\ copies = Nothing(Notes \X Readers)

\* The first state of the announcements.
LEMMA NoteStarts == ASSUME CallsInit, NoteInit PROVE CallsInv /\ NoteInv /\ EngagedInv
<1>1. CallsInv /\ \A r \in Requests : call[r] = None BY DEF CallsInit, CallsInv
<1>2. /\ notes = [n \in Notes |-> None] /\ copies = [x \in Notes \X Readers |-> None]
      /\ activeReaders = Readers
  BY DEF NoteInit
<1>3. NoteTypeOK BY <1>2 DEF NoteTypeOK
<1>4. \A n \in Notes : notes[n] = None /\ Copied(n) = {}
  <2> TAKE n \in Notes
  <2>1. \A u \in Readers : copies[<<n, u>>] = None BY <1>2
  <2>2. QED BY <1>2, <2>1 DEF Copied
<1>5. NoteInv BY <1>1, <1>3, <1>4 DEF NoteInv
<1>6. EngagedInv BY <1>1, <1>4 DEF EngagedInv
<1>7. QED BY <1>1, <1>5, <1>6

\* The invariant of the part is one of the site.
LEMMA NoteHolds == SiteSpec => []NoteSite
<1>1. SiteInit => NoteSite
  BY NoteStarts DEF NoteSite, SiteInit, OfficeInit, NoteInit, Nothing
<1>2. NoteSite /\ [SiteNext]_siteVars => NoteSite'
  <2> SUFFICES ASSUME NoteSite, [SiteNext]_siteVars PROVE NoteSite' OBVIOUS
  <2>1. On("notifications")' <=> On("notifications") BY LoadStays DEF On
  <2>2. CASE On("notifications")
    <3>0. CallsInv /\ NoteInv /\ EngagedInv BY <2>2 DEF NoteSite
    <3>1. CASE NoteNext
      <4>1. CallsInv' /\ NoteInv' /\ EngagedInv' BY <3>0, <3>1, NoteStep, CallsKept
      <4>2. QED BY <2>1, <2>2, <4>1 DEF NoteSite
    <3>2. CASE UNCHANGED <<callVars, noteVars>>
      <4>1. UNCHANGED <<load, call, made, notes, copies, activeReaders>>
        BY <3>2 DEF callVars, noteVars
      <4>2. notes' \in [Notes -> NoteRow \cup {None}] /\ activeReaders' \subseteq Readers
        BY <3>0, <4>1 DEF NoteInv, NoteTypeOK
      <4>3. NoteInv' /\ EngagedInv' BY <3>0, <4>1, <4>2, CountersStay
      <4>4. CallsInv' BY <3>0, <4>1 DEF CallsInv
      <4>5. QED BY <2>1, <2>2, <4>3, <4>4 DEF NoteSite
    <3>3. QED BY <2>2, <3>1, <3>2, OfficePart
  <2>3. CASE ~On("notifications")
    <3>1. UNCHANGED <<notes, copies>> BY <2>3, OfficePart DEF noteVars
    <3>2. QED BY <2>1, <2>3, <3>1 DEF NoteSite
  <2>4. QED BY <2>2, <2>3
<1>3. QED BY <1>1, <1>2, PTL DEF SiteSpec

\* However sends, edits and readings overlap, an announcement counts its copies
\* and misses no reader; while calls do not overlap, it counts each reader once
\* and every opening of its page.
THEOREM EngagementCounted == SiteSpec => []EngagementAddsUp
<1>1. NoteSite => EngagementAddsUp
  <2> SUFFICES ASSUME NoteSite, NEW n \in Notes, Known(n)
               PROVE  Counted(n) /\ (Alone => Engaged(n))
    BY DEF EngagementAddsUp, Counted, Engaged
  <2>1. On("notifications") BY DEF NoteSite, Known, Nothing
  <2>2. QED BY <2>1 DEF NoteSite, NoteInv, EngagedInv, Known
<1>2. QED BY <1>1, NoteHolds, PTL

\* While calls do not overlap, no step takes back what a reader has read.
LEMMA ReadingStep ==
    ASSUME CallsInv, NoteInv, EngagedInv, NoteNext, Alone,
           NEW n \in Notes, NEW u \in ReadBy(n)
    PROVE  /\ u \in ReadBy(n)'
           /\ copies'[<<n, u>>].count >= copies[<<n, u>>].count
           /\ Copied(n)' = Copied(n)
<1>1. u \in Readers /\ copies[<<n, u>>] # None /\ copies[<<n, u>>].read
  BY DEF ReadBy, Copied
<1>2. copies \in [Notes \X Readers -> CopyRow \cup {None}] BY DEF NoteInv, NoteTypeOK
<1>3. copies[<<n, u>>] \in CopyRow /\ copies[<<n, u>>].count \in Nat
  <2>1. copies[<<n, u>>] \in CopyRow BY <1>1, <1>2
  <2>2. QED BY <2>1 DEF CopyRow
<1>4. ASSUME \A w \in Readers : copies'[<<n, w>>] = copies[<<n, w>>]
      PROVE  /\ u \in ReadBy(n)'
             /\ copies'[<<n, u>>].count >= copies[<<n, u>>].count
             /\ Copied(n)' = Copied(n)
  <2>1. Copied(n)' = Copied(n) /\ ReadBy(n)' = ReadBy(n) BY <1>4, SameCopies
  <2>2. QED BY <2>1, <1>1, <1>3, <1>4
<1>5. ASSUME NEW w \in Readers, NEW row \in CopyRow, copies'[<<n, w>>] = row,
             copies[<<n, w>>] # None,
             \A x \in Readers \ {w} : copies'[<<n, x>>] = copies[<<n, x>>],
             copies[<<n, w>>].read => row.read, row.count >= copies[<<n, w>>].count
      PROVE  /\ u \in ReadBy(n)'
             /\ copies'[<<n, u>>].count >= copies[<<n, u>>].count
             /\ Copied(n)' = Copied(n)
  <2>1. /\ Copied(n)' = Copied(n)
        /\ ReadBy(n)' = IF row.read THEN ReadBy(n) \cup {w} ELSE ReadBy(n)
    BY <1>5, ReadersAfter
  <2>2. CASE u = w BY <2>1, <2>2, <1>5
  <2>3. CASE u # w BY <2>1, <2>3, <1>1, <1>3, <1>5
  <2>4. QED BY <2>2, <2>3
<1>6. CASE copies' = copies BY <1>4, <1>6
<1>7. ASSUME NEW r \in Requests, WriteNote(r), copies' # copies
      PROVE  \A w \in Readers : copies'[<<n, w>>] = copies[<<n, w>>]
  <2>1. /\ Doing(r, "note") /\ call[r].rebuild
        /\ Delivered(call[r].id, Written(notes[call[r].id], call[r].set))
    BY <1>7 DEF WriteNote
  <2>2. NoteKnows(call[r]) BY <2>1 DEF Doing, EngagedInv
  <2>3. ReadBy(call[r].id) = {} BY <2>1, <2>2 DEF NoteKnows, Doing
  <2>4. n # call[r].id BY <2>3
  <2>5. QED BY <2>1, <2>4 DEF Delivered
<1>8. ASSUME NEW r \in Requests, WriteCopy(r)
      PROVE  /\ u \in ReadBy(n)'
             /\ copies'[<<n, u>>].count >= copies[<<n, u>>].count
             /\ Copied(n)' = Copied(n)
  <2> DEFINE c == call[r]
             old == copies[<<c.id, c.reader>>]
             row == Written(old, c.set)
  <2>1. /\ c # None /\ c.op = "copy" /\ c.id \in Notes /\ c.reader \in Readers
        /\ old \in CopyRow /\ row \in CopyRow
        /\ copies' = [copies EXCEPT ![<<c.id, c.reader>>] = row]
    BY <1>8, CopyWritten
  <2>2. CASE c.id # n
    <3>1. \A w \in Readers : copies'[<<n, w>>] = copies[<<n, w>>] BY <2>1, <2>2, <1>2
    <3>2. QED BY <3>1, <1>4
  <2>3. CASE c.id = n
    <3>1. NoteCallOK(c) /\ NoteKnows(c) BY <2>1 DEF NoteInv, EngagedInv
    <3>2. old # None BY <2>1, NoteNoneAssumption
    <3>3. \A f \in {"read", "count"} : row[f] = IF f \in DOMAIN c.set THEN c.set[f] ELSE old[f]
      <4>1. {"read", "count"} \subseteq DOMAIN old BY <2>1 DEF CopyRow
      <4>2. QED BY <4>1, <3>2 DEF Written
    <3>4. "read" \in DOMAIN c.set => c.set.read BY <2>1, <3>1 DEF NoteCallOK
    <3>5. old.read => row.read BY <3>3, <3>4
    <3>6. old.count \in Nat BY <2>1 DEF CopyRow
    <3>7. "count" \in DOMAIN c.set => c.set.count = old.count + 1
      BY <2>1, <3>1 DEF NoteKnows
    <3>8. row.count >= old.count BY <3>3, <3>6, <3>7
    <3>9. /\ copies'[<<n, c.reader>>] = row
          /\ \A x \in Readers \ {c.reader} : copies'[<<n, x>>] = copies[<<n, x>>]
      BY <2>1, <2>3, <1>2
    <3>10. PICK w : w = c.reader OBVIOUS
    <3>11. w \in Readers /\ old = copies[<<n, w>>] BY <3>10, <2>1, <2>3
    <3> HIDE DEF row, old, c
    <3>12. QED BY <3>2, <3>5, <3>8, <3>9, <3>10, <3>11, <2>1, <1>5
  <2>4. QED BY <2>2, <2>3
<1>9. ASSUME NEW r \in Requests, WriteSweep(r)
      PROVE  /\ u \in ReadBy(n)'
             /\ copies'[<<n, u>>].count >= copies[<<n, u>>].count
             /\ Copied(n)' = Copied(n)
  <2> PICK c : c = call[r] OBVIOUS
  <2> PICK w : w = c.reader OBVIOUS
  <2>1. Sweeps(c, w) BY <1>9, SweepWritten
  <2>2. CASE n \in DOMAIN c.rows /\ StillThere(c.rows, w, n)
    <3>1. w \in Readers /\ copies[<<n, w>>] # None BY <2>1, <2>2 DEF Sweeps, StillThere
    <3>2. copies[<<n, w>>] \in CopyRow BY <3>1, <1>2
    <3> PICK row : row = Swept(copies[<<n, w>>]) OBVIOUS
    <3>3. row \in CopyRow /\ row.read /\ row.count = copies[<<n, w>>].count + 1
      BY <3>2, SweptRow
    <3>4. copies[<<n, w>>].count \in Nat BY <3>2 DEF CopyRow
    <3>5. row.count >= copies[<<n, w>>].count BY <3>3, <3>4
    <3>6. /\ copies'[<<n, w>>] = row
          /\ \A x \in Readers \ {w} : copies'[<<n, x>>] = copies[<<n, x>>]
      BY <2>1, <2>2, <3>1 DEF Sweeps
    <3>7. QED BY <3>1, <3>3, <3>5, <3>6, <1>5
  <2>3. CASE ~(n \in DOMAIN c.rows /\ StillThere(c.rows, w, n))
    <3>1. \A x \in Readers : copies'[<<n, x>>] = copies[<<n, x>>]
      BY <2>1, <2>3 DEF Sweeps
    <3>2. QED BY <3>1, <1>4
  <2>4. QED BY <2>2, <2>3
<1>10. copies' = copies \/ \E r \in Requests : WriteNote(r) \/ WriteCopy(r) \/ WriteSweep(r)
  BY DEF NoteNext, noteVars, PublicationComes, ExpiryComes, StatusChanges
<1>11. QED BY <1>4, <1>6, <1>7, <1>8, <1>9, <1>10

\* While calls do not overlap, what a reader has read stays read, its count
\* never falls, and its announcement is not sent to anybody else.
THEOREM ReadingKept == SiteSpec => ReadingIsKept
<1> DEFINE Stays == Alone => \A n \in Notes, u \in Readers : u \in ReadBy(n) =>
          /\ u \in ReadBy(n)'
          /\ copies'[<<n, u>>].count >= copies[<<n, u>>].count
          /\ Copied(n)' = Copied(n)
<1>1. NoteSite /\ [SiteNext]_siteVars => [Stays]_<<callVars, noteVars>>
  <2> SUFFICES ASSUME NoteSite, [SiteNext]_siteVars,
                      ~UNCHANGED <<callVars, noteVars>>, Alone,
                      NEW n \in Notes, NEW u \in Readers, u \in ReadBy(n)
      PROVE  /\ u \in ReadBy(n)'
             /\ copies'[<<n, u>>].count >= copies[<<n, u>>].count
             /\ Copied(n)' = Copied(n)
    OBVIOUS
  <2>1. On("notifications")
    <3>1. copies[<<n, u>>] # None BY DEF ReadBy, Copied
    <3>2. QED BY <3>1 DEF NoteSite, Nothing
  <2>2. NoteNext BY <2>1, OfficePart
  <2>3. QED BY <2>1, <2>2, ReadingStep DEF NoteSite
<1>2. QED BY <1>1, NoteHolds, PTL DEF SiteSpec, ReadingIsKept

-----------------------------------------------------------------------------
(* Columns that are written.                                               *)

\* What an UPDATE of the changed columns leaves in a row.
LEMMA WrittenChanged ==
    ASSUME NEW row, row # None, NEW new
    PROVE  /\ DOMAIN Changed(row, new) \subseteq DOMAIN new
           /\ \A f \in DOMAIN Changed(row, new) : Changed(row, new)[f] = new[f]
           /\ \A f \in DOMAIN row : Written(row, Changed(row, new))[f] =
                 IF f \in DOMAIN new THEN new[f] ELSE row[f]
  BY DEF Changed, Written

\* The same, with columns that are written whatever they were.
LEMMA AlsoChanged ==
    ASSUME NEW row, NEW new, NEW more, NEW set, set = Also(Changed(row, new), more)
    PROVE  /\ DOMAIN set \subseteq DOMAIN new \cup DOMAIN more
           /\ \A f \in DOMAIN set : set[f] = IF f \in DOMAIN more THEN more[f] ELSE new[f]
<1> DEFINE old == Changed(row, new)
<1>1. /\ DOMAIN set = DOMAIN old \cup DOMAIN more
      /\ \A f \in DOMAIN set : set[f] = IF f \in DOMAIN more THEN more[f] ELSE old[f]
  BY DEF Also
<1>2. DOMAIN old \subseteq DOMAIN new /\ \A f \in DOMAIN old : old[f] = new[f] BY DEF Changed
<1> HIDE DEF old
<1>3. QED BY <1>1, <1>2

\* And what such an UPDATE leaves in a row.
LEMMA WrittenAlso ==
    ASSUME NEW row, row # None, NEW new, NEW more
    PROVE  \A f \in DOMAIN row : Written(row, Also(Changed(row, new), more))[f] =
              IF f \in DOMAIN more THEN more[f]
              ELSE IF f \in DOMAIN new THEN new[f] ELSE row[f]
<1> DEFINE old == Changed(row, new)
           set == Also(old, more)
<1>1. /\ DOMAIN set = DOMAIN old \cup DOMAIN more
      /\ \A f \in DOMAIN set : set[f] = IF f \in DOMAIN more THEN more[f] ELSE old[f]
  BY DEF Also
<1>2. DOMAIN old = {f \in DOMAIN new : new[f] # row[f]} /\ \A f \in DOMAIN old : old[f] = new[f]
  BY DEF Changed
<1> HIDE DEF old, set
<1>3. \A f \in DOMAIN row : Written(row, set)[f] = IF f \in DOMAIN set THEN set[f] ELSE row[f]
  BY DEF Written
<1>4. \A f \in DOMAIN row : Written(row, set)[f] =
         IF f \in DOMAIN more THEN more[f] ELSE IF f \in DOMAIN new THEN new[f] ELSE row[f]
  BY <1>1, <1>2, <1>3
<1>5. QED BY <1>4 DEF old, set

-----------------------------------------------------------------------------
(* The newsletter list.                                                    *)

\* Columns that leave a subscription a subscription.
SubPart(set) == \A row \in SubRow : Written(row, set) \in SubRow

\* What a call on the list carries.
SubCallOK(c) ==
    /\ c.op \in {"mail", "sub"} => /\ c.id \in Subs
                                   /\ SubPart(c.set)
                                   /\ subs[c.id] = None => c.set \in SubRow
    /\ c.op \in {"mail", "deliver"} => c.link \in Links
    /\ c.op = "deliver" => c.to \in Addresses

SubInv == /\ SubTypeOK
          /\ \A r \in Requests : call[r] # None => SubCallOK(call[r])

\* A row reads as one thing, and nobody who left has a link outstanding.
Truthful(row) == ReadsTrue(row) /\ (row.token # None => ~row.left)

\* What a call knows while no other can write: what it will leave reads true,
\* a mailed row awaits its confirmation, and a link that is followed was sent
\* after the leaving.
SubKnows(c) ==
    /\ c.op \in {"mail", "sub"} => Truthful(Written(subs[c.id], c.set))
    /\ c.op = "mail" => Written(subs[c.id], c.set).status = "pending"
    /\ c.op = "sub" /\ c.by = "link" =>
          subs[c.id] # None /\ subs[c.id].status # "unsubscribed"

HonouredInv ==
    Alone => /\ \A r \in Requests : call[r] # None => SubKnows(call[r])
             /\ \A s \in Subs : subs[s] # None => Truthful(subs[s])

\* A call that begins on the list.
SubBegan(r) == \E c : Begin(r, c) /\ SubCallOK(c) /\ (Alone => SubKnows(c))

\* Columns with values of their own leave a subscription a subscription.
LEMMA SubParts ==
    ASSUME NEW set,
           "email" \in DOMAIN set => set.email \in Addresses,
           "status" \in DOMAIN set => set.status \in SubStatuses,
           "token" \in DOMAIN set => set.token \in Links \cup {None},
           "expired" \in DOMAIN set => set.expired \in BOOLEAN,
           "sent" \in DOMAIN set => set.sent \in {"never", "recent", "before"},
           "confirmed" \in DOMAIN set => set.confirmed \in BOOLEAN,
           "left" \in DOMAIN set => set.left \in BOOLEAN,
           "gone" \in DOMAIN set => set.gone \in BOOLEAN
    PROVE  SubPart(set)
<1> SUFFICES ASSUME NEW row \in SubRow PROVE Written(row, set) \in SubRow BY DEF SubPart
<1>1. row # None BY SubNoneAssumption
<1> DEFINE tokens == Links \cup {None}
<1>2. SubRow = [email : Addresses, status : SubStatuses, token : tokens,
                expired : BOOLEAN, sent : {"never", "recent", "before"},
                confirmed : BOOLEAN, left : BOOLEAN, gone : BOOLEAN]
  BY DEF SubRow
<1>3. "token" \in DOMAIN set => set.token \in tokens OBVIOUS
<1> HIDE DEF tokens
<1>4. QED BY <1>1, <1>2, <1>3 DEF Written

\* An edit of a row that is there.
LEMMA SubEdits ==
    ASSUME SubInv, NEW r \in Requests, NEW s \in Subs, subs[s] # None, NEW set, SubPart(set),
           NEW by, by = "link" => (Alone => subs[s].status # "unsubscribed"),
           Alone => Truthful(Written(subs[s], set)),
           Begin(r, [op |-> "sub", id |-> s, by |-> by, set |-> set])
    PROVE  SubBegan(r)
<1> DEFINE c == [op |-> "sub", id |-> s, by |-> by, set |-> set]
<1>1. SubCallOK(c) BY DEF SubCallOK
<1>2. Alone => SubKnows(c) BY DEF SubKnows
<1>3. QED BY <1>1, <1>2 DEF SubBegan

\* The columns a row reads as.
LEMMA SubColumns ==
    ASSUME SubInv, NEW s \in Subs, subs[s] # None
    PROVE  {"status", "token", "confirmed", "left"} \subseteq DOMAIN subs[s]
<1>1. subs[s] \in SubRow BY DEF SubInv, SubTypeOK
<1>2. QED BY <1>1 DEF SubRow

\* Whoever leaves has left and has no link outstanding.
LEMMA LeavingIsTrue ==
    ASSUME SubInv, NEW s \in Subs, subs[s] # None
    PROVE  SubPart(Leave(subs[s])) /\ Truthful(Written(subs[s], Leave(subs[s])))
<1> DEFINE new == [status |-> "unsubscribed", token |-> None]
           more == [left |-> TRUE]
           set == Also(Changed(subs[s], new), more)
           row == Written(subs[s], set)
<1>1. /\ DOMAIN new = {"status", "token"} /\ new.status = "unsubscribed" /\ new.token = None
      /\ DOMAIN more = {"left"} /\ more.left = TRUE
  OBVIOUS
<1>2. Leave(subs[s]) = set BY DEF Leave
<1> HIDE DEF new, more
<1>3. /\ DOMAIN set \subseteq DOMAIN new \cup DOMAIN more
      /\ \A f \in DOMAIN set : set[f] = IF f \in DOMAIN more THEN more[f] ELSE new[f]
  BY AlsoChanged
<1>4. \A f \in {"status", "token", "confirmed", "left"} :
         row[f] = IF f \in DOMAIN more THEN more[f]
                  ELSE IF f \in DOMAIN new THEN new[f] ELSE subs[s][f]
  <2>1. \A f \in DOMAIN subs[s] : Written(subs[s], Also(Changed(subs[s], new), more))[f] =
           IF f \in DOMAIN more THEN more[f]
           ELSE IF f \in DOMAIN new THEN new[f] ELSE subs[s][f]
    BY WrittenAlso
  <2>2. QED BY <2>1, SubColumns
<1> HIDE DEF row, set
<1>5. SubPart(set) BY <1>1, <1>3, SubParts DEF SubStatuses
<1>6. row.status = "unsubscribed" /\ row.token = None /\ row.left = TRUE BY <1>1, <1>4
<1>7. Truthful(row) BY <1>6 DEF Truthful, ReadsTrue
<1>8. QED BY <1>2, <1>5, <1>7 DEF row

\* The calls of the list's administration.
LEMMA ListBegins ==
    ASSUME CallsInv, SubInv, HonouredInv, NEW r \in Requests, ListCalls(r)
    PROVE  SubBegan(r)
<1>1. ASSUME NEW s \in Subs, subs[s] # None, NEW new,
             Begin(r, [op |-> "sub", id |-> s, by |-> "admin", set |-> Changed(subs[s], new)]),
             SubPart(Changed(subs[s], new)),
             \/ DOMAIN new \cap {"status", "token", "confirmed", "left"} = {}
             \/ /\ {"status", "token", "confirmed", "left"} \subseteq DOMAIN new
                /\ new.status = "subscribed" /\ new.confirmed /\ ~new.left
                /\ new.token = None
      PROVE  SubBegan(r)
  <2> DEFINE row == Written(subs[s], Changed(subs[s], new))
  <2>1. \A f \in {"status", "token", "confirmed", "left"} :
           row[f] = IF f \in DOMAIN new THEN new[f] ELSE subs[s][f]
    <3>1. \A f \in DOMAIN subs[s] : Written(subs[s], Changed(subs[s], new))[f] =
             IF f \in DOMAIN new THEN new[f] ELSE subs[s][f]
      BY <1>1, WrittenChanged
    <3>2. QED BY <1>1, <3>1, SubColumns
  <2>2. Alone => Truthful(subs[s]) BY <1>1 DEF HonouredInv
  <2> HIDE DEF row
  <2>3. Alone => Truthful(row)
    <3>1. CASE DOMAIN new \cap {"status", "token", "confirmed", "left"} = {}
      <4>1. /\ row.status = subs[s].status /\ row.token = subs[s].token
            /\ row.confirmed = subs[s].confirmed /\ row.left = subs[s].left
        BY <2>1, <3>1
      <4>2. QED BY <2>2, <4>1 DEF Truthful, ReadsTrue
    <3>2. CASE /\ {"status", "token", "confirmed", "left"} \subseteq DOMAIN new
               /\ new.status = "subscribed" /\ new.confirmed /\ ~new.left
               /\ new.token = None
      <4>1. /\ row.status = "subscribed" /\ row.token = None
            /\ row.confirmed = new.confirmed /\ row.left = new.left
        BY <2>1, <3>2
      <4>2. QED BY <3>2, <4>1 DEF Truthful, ReadsTrue
    <3>3. QED BY <1>1, <3>1, <3>2
  <2>4. QED BY <1>1, <2>3, SubEdits DEF row
<1>2. ASSUME NEW s \in Subs, NEW email \in Addresses, CreateSubscription(r, s, email)
      PROVE  SubBegan(r)
  <2> DEFINE set == [email |-> email, status |-> "subscribed", token |-> None,
                     expired |-> FALSE, sent |-> "never", confirmed |-> TRUE,
                     left |-> FALSE, gone |-> FALSE]
             c == [op |-> "sub", id |-> s, by |-> "admin", set |-> set]
  <2>1. Begin(r, c) /\ subs[s] = None BY <1>2 DEF CreateSubscription
  <2>2. set \in SubRow BY DEF SubRow, SubStatuses
  <2>3. Truthful(set) BY DEF Truthful, ReadsTrue
  <2>4. SubPart(set)
    <3>1. /\ set.email \in Addresses /\ set.status \in SubStatuses
          /\ set.token \in Links \cup {None} /\ set.expired \in BOOLEAN
          /\ set.sent \in {"never", "recent", "before"} /\ set.confirmed \in BOOLEAN
          /\ set.left \in BOOLEAN /\ set.gone \in BOOLEAN
      BY DEF SubStatuses
    <3> HIDE DEF set
    <3>2. QED BY <3>1, SubParts
  <2>5. Written(subs[s], set) = set BY <2>1 DEF Written
  <2> HIDE DEF set
  <2>6. SubCallOK(c) BY <2>2, <2>4 DEF SubCallOK
  <2>7. SubKnows(c) BY <2>3, <2>5 DEF SubKnows
  <2>8. QED BY <2>1, <2>6, <2>7 DEF SubBegan
<1>3. ASSUME NEW s \in Subs, NEW email \in Addresses, UpdateSubscription(r, s, email)
      PROVE  SubBegan(r)
  <2> DEFINE new == [email |-> email]
  <2>1. DOMAIN new = {"email"} /\ new.email = email OBVIOUS
  <2>2. /\ subs[s] # None
        /\ Begin(r, [op |-> "sub", id |-> s, by |-> "admin", set |-> Changed(subs[s], new)])
    BY <1>3 DEF UpdateSubscription, Live
  <2> HIDE DEF new
  <2>3. SubPart(Changed(subs[s], new))
    <3> DEFINE set == Changed(subs[s], new)
    <3>1. DOMAIN set \subseteq DOMAIN new /\ \A f \in DOMAIN set : set[f] = new[f]
      BY <2>2, WrittenChanged
    <3> HIDE DEF set
    <3>2. SubPart(set) BY <2>1, <3>1, SubParts
    <3>3. QED BY <3>2 DEF set
  <2>4. QED BY <2>1, <2>2, <2>3, <1>1
<1>4. ASSUME NEW s \in Subs, MarkSubscribed(r, s) PROVE SubBegan(r)
  <2> DEFINE new == [status |-> "subscribed", confirmed |-> TRUE, left |-> FALSE, token |-> None]
  <2>1. /\ DOMAIN new = {"status", "confirmed", "left", "token"} /\ new.status = "subscribed"
        /\ new.confirmed = TRUE /\ new.left = FALSE /\ new.token = None
    OBVIOUS
  <2>2. /\ subs[s] # None
        /\ Begin(r, [op |-> "sub", id |-> s, by |-> "admin", set |-> Changed(subs[s], new)])
    BY <1>4 DEF MarkSubscribed, Live
  <2> HIDE DEF new
  <2>3. SubPart(Changed(subs[s], new))
    <3> DEFINE set == Changed(subs[s], new)
    <3>1. DOMAIN set \subseteq DOMAIN new /\ \A f \in DOMAIN set : set[f] = new[f]
      BY <2>2, WrittenChanged
    <3> HIDE DEF set
    <3>2. SubPart(set) BY <2>1, <3>1, SubParts DEF SubStatuses
    <3>3. QED BY <3>2 DEF set
  <2>4. QED BY <2>1, <2>2, <2>3, <1>1
<1>5. ASSUME NEW s \in Subs, RestoreSubscription(r, s) PROVE SubBegan(r)
  <2> DEFINE new == [gone |-> FALSE]
  <2>1. DOMAIN new = {"gone"} /\ new.gone = FALSE OBVIOUS
  <2>2. /\ subs[s] # None
        /\ Begin(r, [op |-> "sub", id |-> s, by |-> "admin", set |-> Changed(subs[s], new)])
    BY <1>5 DEF RestoreSubscription
  <2> HIDE DEF new
  <2>3. SubPart(Changed(subs[s], new))
    <3> DEFINE set == Changed(subs[s], new)
    <3>1. DOMAIN set \subseteq DOMAIN new /\ \A f \in DOMAIN set : set[f] = new[f]
      BY <2>2, WrittenChanged
    <3> HIDE DEF set
    <3>2. SubPart(set) BY <2>1, <3>1, SubParts
    <3>3. QED BY <3>2 DEF set
  <2>4. QED BY <2>1, <2>2, <2>3, <1>1
<1>6. ASSUME NEW s \in Subs, MarkUnsubscribed(r, s) PROVE SubBegan(r)
  <2>1. /\ subs[s] # None
        /\ Begin(r, [op |-> "sub", id |-> s, by |-> "admin", set |-> Leave(subs[s])])
    BY <1>6 DEF MarkUnsubscribed, Live
  <2>2. SubPart(Leave(subs[s])) /\ Truthful(Written(subs[s], Leave(subs[s])))
    BY <2>1, LeavingIsTrue
  <2>3. QED BY <2>1, <2>2, SubEdits
<1>7. ASSUME NEW s \in Subs, NEW set, DOMAIN set = {"status"} \/ DOMAIN set = {"gone"},
             "status" \in DOMAIN set => set.status = "bounced",
             "gone" \in DOMAIN set => set.gone = TRUE, subs[s] # None,
             Begin(r, [op |-> "sub", id |-> s, by |-> "admin", set |-> set])
      PROVE  SubBegan(r)
  <2>1. SubPart(set) BY <1>7, SubParts DEF SubStatuses
  <2> DEFINE row == Written(subs[s], set)
  <2>2. {"status", "token", "confirmed", "left"} \subseteq DOMAIN subs[s]
    BY <1>7 DEF SubInv, SubTypeOK, SubRow
  <2>3. /\ row.token = subs[s].token /\ row.left = subs[s].left
        /\ row.confirmed = subs[s].confirmed
        /\ row.status = "bounced" \/ row.status = subs[s].status
    BY <2>2, <1>7 DEF Written
  <2>4. Alone => Truthful(subs[s]) BY <1>7 DEF HonouredInv
  <2> HIDE DEF row
  <2>5. Alone => Truthful(row) BY <2>3, <2>4 DEF Truthful, ReadsTrue
  <2>6. QED BY <1>7, <2>1, <2>5, SubEdits DEF row
<1>8. ASSUME NEW s \in Subs, MarkBounced(r, s) PROVE SubBegan(r)
  <2> DEFINE set == [status |-> "bounced"]
  <2>1. DOMAIN set = {"status"} /\ set.status = "bounced" OBVIOUS
  <2>2. subs[s] # None /\ Begin(r, [op |-> "sub", id |-> s, by |-> "admin", set |-> set])
    BY <1>8 DEF MarkBounced, Live
  <2> HIDE DEF set
  <2>3. QED BY <2>1, <2>2, <1>7
<1>9. ASSUME NEW s \in Subs, DeleteSubscription(r, s) PROVE SubBegan(r)
  <2> DEFINE set == [gone |-> TRUE]
  <2>1. DOMAIN set = {"gone"} /\ set.gone = TRUE OBVIOUS
  <2>2. subs[s] # None /\ Begin(r, [op |-> "sub", id |-> s, by |-> "admin", set |-> set])
    BY <1>9 DEF DeleteSubscription, Live
  <2> HIDE DEF set
  <2>3. QED BY <2>1, <2>2, <1>7
<1>10. QED BY <1>2, <1>3, <1>4, <1>5, <1>6, <1>8, <1>9 DEF ListCalls

\* The calls of the public process: signing up, following a link, leaving.
LEMMA PublicBegins ==
    ASSUME CallsInv, SubInv, HonouredInv, NEW r \in Requests, PublicCalls(r)
    PROVE  SubBegan(r)
<1>1. ASSUME NEW s \in Subs, NEW email \in Addresses, StartNew(r, s, email)
      PROVE  SubBegan(r)
  <2>1. PICK l \in NewLink :
           Begin(r, [op |-> "mail", id |-> s, link |-> l,
                     set |-> Also([email |-> email, confirmed |-> FALSE, left |-> FALSE,
                                   gone |-> FALSE], Pending(l))])
    BY <1>1 DEF StartNew
  <2>2. subs[s] = None /\ l \in Links BY <1>1 DEF StartNew, NewLink
  <2> DEFINE base == [email |-> email, confirmed |-> FALSE, left |-> FALSE, gone |-> FALSE]
             more == [status |-> "pending", token |-> l, expired |-> FALSE, sent |-> "recent"]
             set == Also(base, more)
             c == [op |-> "mail", id |-> s, link |-> l, set |-> set]
  <2>3. Begin(r, c) BY <2>1 DEF Pending
  <2>4. /\ DOMAIN base = {"email", "confirmed", "left", "gone"}
        /\ base.email = email /\ base.confirmed = FALSE /\ base.left = FALSE /\ base.gone = FALSE
        /\ DOMAIN more = {"status", "token", "expired", "sent"}
        /\ more.status = "pending" /\ more.token = l /\ more.expired = FALSE
        /\ more.sent = "recent"
    OBVIOUS
  <2> HIDE DEF base, more
  <2>5. /\ set = [f \in {"email", "confirmed", "left", "gone", "status", "token", "expired",
                         "sent"} |-> set[f]]
        /\ set.email = email /\ set.confirmed = FALSE /\ set.left = FALSE /\ set.gone = FALSE
        /\ set.status = "pending" /\ set.token = l /\ set.expired = FALSE /\ set.sent = "recent"
    BY <2>4 DEF Also
  <2> HIDE DEF set
  <2>6. set \in SubRow BY <2>2, <2>5 DEF SubRow, SubStatuses
  <2>7. SubPart(set) BY <2>2, <2>5, SubParts DEF SubStatuses
  <2>8. Truthful(set) BY <2>2, <2>5, SubNoneAssumption DEF Truthful, ReadsTrue
  <2>9. Written(subs[s], set) = set BY <2>2 DEF Written
  <2>10. SubCallOK(c) BY <2>2, <2>6, <2>7 DEF SubCallOK
  <2>11. SubKnows(c) BY <2>5, <2>8, <2>9 DEF SubKnows
  <2>12. QED BY <2>3, <2>10, <2>11 DEF SubBegan
<1>2. ASSUME NEW s \in Subs, Resume(r, s) PROVE SubBegan(r)
  <2>1. PICK l \in NewLink :
           Begin(r, [op |-> "mail", id |-> s, link |-> l, set |-> Resumed(subs[s], l)])
    BY <1>2 DEF Resume
  <2>2. subs[s] # None /\ l \in Links BY <1>2 DEF Resume, NewLink
  <2> DEFINE new == [status |-> "pending", left |-> FALSE, gone |-> FALSE]
             more == [token |-> l, expired |-> FALSE, sent |-> "recent"]
             set == Also(Changed(subs[s], new), more)
             row == Written(subs[s], set)
             c == [op |-> "mail", id |-> s, link |-> l, set |-> set]
  <2>3. Begin(r, c) BY <2>1 DEF Resumed
  <2>4. /\ DOMAIN new = {"status", "left", "gone"}
        /\ new.status = "pending" /\ new.left = FALSE /\ new.gone = FALSE
        /\ DOMAIN more = {"token", "expired", "sent"}
        /\ more.token = l /\ more.expired = FALSE /\ more.sent = "recent"
    OBVIOUS
  <2> HIDE DEF new, more
  <2>5. /\ DOMAIN set \subseteq DOMAIN new \cup DOMAIN more
        /\ \A f \in DOMAIN set : set[f] = IF f \in DOMAIN more THEN more[f] ELSE new[f]
    BY AlsoChanged
  <2>6. \A f \in {"status", "token", "confirmed", "left"} :
           row[f] = IF f \in DOMAIN more THEN more[f]
                    ELSE IF f \in DOMAIN new THEN new[f] ELSE subs[s][f]
    <3>1. \A f \in DOMAIN subs[s] : Written(subs[s], Also(Changed(subs[s], new), more))[f] =
             IF f \in DOMAIN more THEN more[f]
             ELSE IF f \in DOMAIN new THEN new[f] ELSE subs[s][f]
      BY <2>2, WrittenAlso
    <3>2. QED BY <2>2, <3>1, SubColumns
  <2> HIDE DEF row, set
  <2>7. SubPart(set) BY <2>2, <2>4, <2>5, SubParts DEF SubStatuses
  <2>8. row.status = "pending" /\ row.token = l /\ row.left = FALSE BY <2>4, <2>6
  <2>9. Truthful(row) BY <2>2, <2>8, SubNoneAssumption DEF Truthful, ReadsTrue
  <2>10. SubCallOK(c) BY <2>2, <2>7 DEF SubCallOK
  <2>11. SubKnows(c) BY <2>8, <2>9 DEF SubKnows, row
  <2>12. QED BY <2>3, <2>10, <2>11 DEF SubBegan
<1>3. ASSUME NEW s \in Subs, Unsubscribe(r, s) PROVE SubBegan(r)
  <2>1. /\ subs[s] # None
        /\ Begin(r, [op |-> "sub", id |-> s, by |-> "reader", set |-> Leave(subs[s])])
    BY <1>3 DEF Unsubscribe
  <2>2. SubPart(Leave(subs[s])) /\ Truthful(Written(subs[s], Leave(subs[s])))
    BY <2>1, LeavingIsTrue
  <2>3. QED BY <2>1, <2>2, SubEdits
<1>4. ASSUME NEW l \in Links, Confirm(r, l) PROVE SubBegan(r)
  <2>1. PICK s \in Subs : /\ Live(subs[s])
                          /\ subs[s].token = l
                          /\ Begin(r, [op |-> "sub", id |-> s, by |-> "link",
                                       set |-> Confirmed(subs[s])])
    BY <1>4 DEF Confirm
  <2>2. subs[s] # None /\ subs[s].token # None BY <2>1, SubNoneAssumption DEF Live
  <2> DEFINE new == [status |-> "subscribed", token |-> None]
             more == [confirmed |-> TRUE]
             set == Also(Changed(subs[s], new), more)
             row == Written(subs[s], set)
  <2>3. Confirmed(subs[s]) = set BY DEF Confirmed
  <2>4. /\ DOMAIN new = {"status", "token"}
        /\ new.status = "subscribed" /\ new.token = None
        /\ DOMAIN more = {"confirmed"} /\ more.confirmed = TRUE
    OBVIOUS
  <2> HIDE DEF new, more
  <2>5. /\ DOMAIN set \subseteq DOMAIN new \cup DOMAIN more
        /\ \A f \in DOMAIN set : set[f] = IF f \in DOMAIN more THEN more[f] ELSE new[f]
    BY AlsoChanged
  <2>6. \A f \in {"status", "token", "confirmed", "left"} :
           row[f] = IF f \in DOMAIN more THEN more[f]
                    ELSE IF f \in DOMAIN new THEN new[f] ELSE subs[s][f]
    <3>1. \A f \in DOMAIN subs[s] : Written(subs[s], Also(Changed(subs[s], new), more))[f] =
             IF f \in DOMAIN more THEN more[f]
             ELSE IF f \in DOMAIN new THEN new[f] ELSE subs[s][f]
      BY <2>2, WrittenAlso
    <3>2. QED BY <2>2, <3>1, SubColumns
  <2> HIDE DEF row, set
  <2>7. SubPart(set) BY <2>4, <2>5, SubParts DEF SubStatuses
  <2>8. row.status = "subscribed" /\ row.token = None /\ row.confirmed = TRUE
        /\ row.left = subs[s].left
    BY <2>4, <2>6
  <2>9. Alone => Truthful(subs[s]) BY <2>2 DEF HonouredInv
  <2>10. Alone => ~subs[s].left /\ subs[s].status # "unsubscribed"
    BY <2>2, <2>9 DEF Truthful, ReadsTrue
  <2>11. Alone => Truthful(row) BY <2>8, <2>10 DEF Truthful, ReadsTrue
  <2>12. Begin(r, [op |-> "sub", id |-> s, by |-> "link", set |-> set]) BY <2>1, <2>3
  <2>13. QED BY <2>2, <2>7, <2>10, <2>11, <2>12, SubEdits DEF row
<1>5. QED BY <1>1, <1>2, <1>3, <1>4 DEF PublicCalls

\* Rows that read alike read alike once the same columns are written.
LEMMA ReadAlike ==
    ASSUME NEW row \in SubRow, NEW old \in SubRow, NEW set,
           \A f \in {"status", "token", "confirmed", "left"} : row[f] = old[f]
    PROVE  /\ Truthful(Written(row, set)) <=> Truthful(Written(old, set))
           /\ Written(row, set).status = Written(old, set).status
<1> DEFINE a == Written(row, set)
           b == Written(old, set)
<1>1. row # None /\ old # None BY SubNoneAssumption
<1>2. {"status", "token", "confirmed", "left"} \subseteq DOMAIN row \cap DOMAIN old BY DEF SubRow
<1>3. \A f \in {"status", "token", "confirmed", "left"} :
         /\ a[f] = IF f \in DOMAIN set THEN set[f] ELSE row[f]
         /\ b[f] = IF f \in DOMAIN set THEN set[f] ELSE old[f]
  BY <1>1, <1>2 DEF Written
<1> HIDE DEF a, b
<1>4. a.status = b.status /\ a.token = b.token /\ a.confirmed = b.confirmed /\ a.left = b.left
  BY <1>3
<1>5. Truthful(a) <=> Truthful(b) BY <1>4 DEF Truthful, ReadsTrue
<1>6. QED BY <1>4, <1>5 DEF a, b

\* A step that writes nothing a row reads as.
LEMMA SubsStay ==
    ASSUME CallsInv, SubInv, HonouredInv, load' = load,
           subs' \in [Subs -> SubRow \cup {None}],
           links' \in [Links -> Addresses \cup {None, "unsent", "lost"}],
           \A s \in Subs : subs'[s] = None <=> subs[s] = None,
           \A s \in Subs : subs[s] # None =>
              \A f \in {"status", "token", "confirmed", "left"} : subs'[s][f] = subs[s][f],
           \A q \in Requests : \/ call'[q] = None
                               \/ call'[q] = call[q]
                               \/ UNCHANGED subs /\ SubCallOK(call'[q])
                                  /\ (Alone => SubKnows(call'[q]))
    PROVE  SubInv' /\ HonouredInv'
<1>1. ASSUME NEW q \in Requests, call'[q] # None
      PROVE  SubCallOK(call'[q]) /\ (Alone => SubKnows(call'[q]))
  BY <1>1 DEF SubInv, HonouredInv
<1>2. ASSUME NEW q \in Requests, call'[q] # None PROVE SubCallOK(call[q])'
  <2>1. SubCallOK(call'[q]) BY <1>1, <1>2
  <2>2. QED BY <2>1 DEF SubCallOK
<1>3. \A s \in Subs : subs[s] # None => subs[s] \in SubRow /\ subs'[s] \in SubRow
  BY DEF SubInv, SubTypeOK
<1>4. ASSUME NEW s \in Subs, NEW set
      PROVE  /\ Truthful(Written(subs'[s], set)) <=> Truthful(Written(subs[s], set))
             /\ Written(subs'[s], set).status = Written(subs[s], set).status
  <2>1. CASE subs[s] = None BY <2>1 DEF Written
  <2>2. CASE subs[s] # None BY <2>2, <1>3, ReadAlike
  <2>3. QED BY <2>1, <2>2
<1>5. ASSUME NEW q \in Requests, call'[q] # None, Alone PROVE SubKnows(call[q])'
  <2>1. SubKnows(call'[q]) /\ SubCallOK(call'[q]) BY <1>1, <1>5
  <2>2. call'[q].op \in {"mail", "sub"} => call'[q].id \in Subs BY <2>1 DEF SubCallOK
  <2>3. call'[q].op \in {"mail", "sub"} => Truthful(Written(subs'[call'[q].id], call'[q].set))
    BY <2>1, <2>2, <1>4 DEF SubKnows
  <2>4. call'[q].op = "mail" => Written(subs'[call'[q].id], call'[q].set).status = "pending"
    BY <2>1, <2>2, <1>4 DEF SubKnows
  <2>5. call'[q].op = "sub" /\ call'[q].by = "link" =>
           subs'[call'[q].id] # None /\ subs'[call'[q].id].status # "unsubscribed"
    BY <2>1, <2>2 DEF SubKnows
  <2>6. QED BY <2>3, <2>4, <2>5 DEF SubKnows
<1>6. SubInv' BY <1>2 DEF SubInv, SubTypeOK
<1>7. ASSUME Alone, NEW s \in Subs, subs'[s] # None PROVE Truthful(subs[s])'
  <2>1. Truthful(subs[s]) BY <1>7 DEF HonouredInv
  <2>2. QED BY <2>1, <1>7 DEF Truthful, ReadsTrue
<1>8. HonouredInv' BY <1>5, <1>7 DEF HonouredInv, Alone
<1>9. QED BY <1>6, <1>8

\* Calls that begin, a mail that is sent or lost, and time write no row that
\* is read.
LEMMA SubOther ==
    ASSUME CallsInv, SubInv, HonouredInv,
           \/ \E r \in Requests : \/ (PublicCalls(r) \/ ListCalls(r)) /\ UNCHANGED subVars
                                  \/ Deliver(r) \/ LoseMail(r)
           \/ \E s \in Subs : (CooldownPasses(s) \/ LinkExpires(s)) /\ UNCHANGED <<callVars, links>>
    PROVE  CallsStep /\ SubInv' /\ HonouredInv'
<1>1. /\ subs \in [Subs -> SubRow \cup {None}]
      /\ links \in [Links -> Addresses \cup {None, "unsent", "lost"}]
  BY DEF SubInv, SubTypeOK
<1>2. ASSUME NEW r \in Requests, (PublicCalls(r) \/ ListCalls(r)) /\ UNCHANGED subVars
      PROVE  CallsStep /\ SubInv' /\ HonouredInv'
  <2>1. SubBegan(r) BY <1>2, PublicBegins, ListBegins
  <2> PICK c : Begin(r, c) /\ SubCallOK(c) /\ (Alone => SubKnows(c)) BY <2>1 DEF SubBegan
  <2>2. Moves(r, c) BY BeginMoves
  <2>3. call'[r] = c /\ (\A q \in Requests \ {r} : call'[q] = call[q]) /\ load' = load
    BY <2>2, Moved
  <2>4. UNCHANGED <<subs, links>> BY <1>2 DEF subVars
  <2>5. QED BY <1>1, <2>2, <2>3, <2>4, SubsStay DEF CallsStep
<1>3. ASSUME NEW r \in Requests, End(r), UNCHANGED subs,
             links' \in [Links -> Addresses \cup {None, "unsent", "lost"}]
      PROVE  CallsStep /\ SubInv' /\ HonouredInv'
  <2>1. CallsStep /\ call'[r] = None /\ (\A q \in Requests \ {r} : call'[q] = call[q])
        /\ load' = load
    BY <1>3, EndedCalls
  <2>2. QED BY <1>1, <1>3, <2>1, SubsStay
<1>4. ASSUME NEW r \in Requests, Deliver(r) PROVE CallsStep /\ SubInv' /\ HonouredInv'
  <2>1. /\ End(r) /\ subs' = subs /\ links' = [links EXCEPT ![call[r].link] = call[r].to]
        /\ call[r] # None /\ call[r].op = "deliver"
    BY <1>4 DEF Deliver, Doing
  <2>2. call[r].to \in Addresses BY <2>1 DEF SubInv, SubCallOK
  <2>3. QED BY <2>1, <2>2, <1>1, <1>3
<1>5. ASSUME NEW r \in Requests, LoseMail(r) PROVE CallsStep /\ SubInv' /\ HonouredInv'
  <2>1. /\ End(r) /\ subs' = subs
        /\ links' = [links EXCEPT ![call[r].link] = "lost"] \/ links' = links
    BY <1>5 DEF LoseMail, Die
  <2>2. QED BY <2>1, <1>1, <1>3
<1>6. ASSUME NEW s \in Subs, NEW f \in {"sent", "expired"}, NEW v,
             f = "sent" => v = "before", f = "expired" => v = TRUE, subs[s] # None,
             subs' = [subs EXCEPT ![s] = [@ EXCEPT ![f] = v]],
             UNCHANGED <<callVars, links>>
      PROVE  CallsStep /\ SubInv' /\ HonouredInv'
  <2> DEFINE row == [subs[s] EXCEPT ![f] = v]
  <2>1. subs[s] \in SubRow BY <1>1, <1>6
  <2>2. row \in SubRow
    <3>1. CASE f = "sent" BY <2>1, <3>1, <1>6 DEF SubRow
    <3>2. CASE f = "expired" BY <2>1, <3>2, <1>6 DEF SubRow
    <3>3. QED BY <3>1, <3>2
  <2>3. \A g \in {"status", "token", "confirmed", "left"} : row[g] = subs[s][g]
    BY <2>1, <1>6 DEF SubRow
  <2>4. subs' = [subs EXCEPT ![s] = row] BY <1>6
  <2>5. row # None BY <2>2, SubNoneAssumption
  <2> HIDE DEF row
  <2>6. subs'[s] = row /\ \A t \in Subs \ {s} : subs'[t] = subs[t] BY <1>1, <2>4
  <2>7. subs' \in [Subs -> SubRow \cup {None}] BY <1>1, <2>2, <2>4
  <2>8. UNCHANGED <<load, call, made, links>> BY <1>6 DEF callVars
  <2>9. \A t \in Subs : subs'[t] = None <=> subs[t] = None BY <1>6, <2>5, <2>6
  <2>10. \A t \in Subs : subs[t] # None =>
            \A g \in {"status", "token", "confirmed", "left"} : subs'[t][g] = subs[t][g]
    BY <2>3, <2>6
  <2>11. SubInv' /\ HonouredInv' BY <1>1, <2>7, <2>8, <2>9, <2>10, SubsStay
  <2>12. QED BY <2>11, <1>6 DEF CallsStep
<1>7. ASSUME NEW s \in Subs, CooldownPasses(s), UNCHANGED <<callVars, links>>
      PROVE  CallsStep /\ SubInv' /\ HonouredInv'
  <2>1. subs[s] # None /\ subs' = [subs EXCEPT ![s] = [@ EXCEPT !["sent"] = "before"]]
    BY <1>7 DEF CooldownPasses
  <2>2. QED BY <1>6, <1>7, <2>1
<1>8. ASSUME NEW s \in Subs, LinkExpires(s), UNCHANGED <<callVars, links>>
      PROVE  CallsStep /\ SubInv' /\ HonouredInv'
  <2>1. subs[s] # None /\ subs' = [subs EXCEPT ![s] = [@ EXCEPT !["expired"] = TRUE]]
    BY <1>8 DEF LinkExpires
  <2>2. QED BY <1>6, <1>8, <2>1
<1>9. QED BY <1>2, <1>4, <1>5, <1>7, <1>8

\* The row of a call is written, and the call ends or goes on to send its mail.
LEMMA SubRowWritten ==
    ASSUME CallsInv, SubInv, HonouredInv, NEW r \in Requests, NEW c, c = call[r], c # None,
           c.op \in {"mail", "sub"}, load' = load,
           subs' = [subs EXCEPT ![c.id] = Written(subs[c.id], c.set)],
           links' \in [Links -> Addresses \cup {None, "unsent", "lost"}],
           \A q \in Requests \ {r} : call'[q] = call[q],
           call'[r] = None \/ (call'[r].op = "deliver" /\ SubCallOK(call'[r]))
    PROVE  /\ SubInv' /\ HonouredInv'
           /\ c.id \in Subs /\ \A s \in Subs \ {c.id} : subs'[s] = subs[s]
           /\ subs'[c.id] = Written(subs[c.id], c.set)
<1> DEFINE row == Written(subs[c.id], c.set)
<1>1. SubCallOK(c) /\ (Alone => SubKnows(c)) BY DEF SubInv, HonouredInv
<1>2. subs \in [Subs -> SubRow \cup {None}] BY DEF SubInv, SubTypeOK
<1>3. c.id \in Subs BY <1>1 DEF SubCallOK
<1>4. row \in SubRow
  <2>1. CASE subs[c.id] = None BY <2>1, <1>1 DEF SubCallOK, Written
  <2>2. CASE subs[c.id] # None BY <2>2, <1>1, <1>2, <1>3 DEF SubCallOK, SubPart
  <2>3. QED BY <2>1, <2>2
<1>5. row # None BY <1>4, SubNoneAssumption
<1>6. Alone => Truthful(row) BY <1>1 DEF SubKnows
<1>7. subs' \in [Subs -> SubRow \cup {None}] /\ subs'[c.id] = row
      /\ \A s \in Subs \ {c.id} : subs'[s] = subs[s]
  BY <1>2, <1>3, <1>4
<1> HIDE DEF row
<1>8. ASSUME NEW q \in Requests, call'[q] # None PROVE SubCallOK(call[q])'
  <2>1. SubCallOK(call'[q]) BY <1>8 DEF SubInv
  <2>2. \A s \in Subs : subs'[s] = None => subs[s] = None BY <1>5, <1>7
  <2>3. QED BY <2>1, <2>2 DEF SubCallOK
<1>9. SubInv' BY <1>7, <1>8 DEF SubInv, SubTypeOK
<1>10. ASSUME Alone, NEW q \in Requests, call'[q] # None PROVE SubKnows(call[q])'
  <2>1. q = r BY <1>10, OneCall
  <2>2. call'[q].op = "deliver" BY <2>1, <1>10
  <2>3. QED BY <2>2 DEF SubKnows
<1>11. ASSUME Alone, NEW s \in Subs, subs'[s] # None PROVE Truthful(subs[s])'
  <2>1. Truthful(subs'[s]) BY <1>6, <1>7, <1>11 DEF HonouredInv
  <2>2. QED BY <2>1 DEF Truthful, ReadsTrue
<1>12. HonouredInv' BY <1>10, <1>11 DEF HonouredInv, Alone
<1>13. QED BY <1>3, <1>7, <1>9, <1>12 DEF row

\* A row is committed before its link is sent.
LEMMA WriteAndSendKeeps ==
    ASSUME CallsInv, SubInv, HonouredInv, NEW r \in Requests, WriteAndSend(r)
    PROVE  /\ CallsStep /\ SubInv' /\ HonouredInv'
           /\ call[r].id \in Subs /\ \A s \in Subs \ {call[r].id} : subs'[s] = subs[s]
           /\ subs'[call[r].id] = Written(subs[call[r].id], call[r].set)
<1> DEFINE c == call[r]
           row == Written(subs[c.id], c.set)
           next == [op |-> "deliver", id |-> c.id, link |-> c.link, to |-> row.email]
<1>1. /\ c # None /\ c.op = "mail" /\ subs' = [subs EXCEPT ![c.id] = row]
      /\ links' = [links EXCEPT ![c.link] = "unsent"]
      /\ call' = [call EXCEPT ![r] = next] /\ UNCHANGED <<load, made>>
  BY DEF WriteAndSend, Doing
<1>2. SubCallOK(c) BY <1>1 DEF SubInv
<1>3. c.id \in Subs /\ c.link \in Links BY <1>1, <1>2 DEF SubCallOK
<1>4. row \in SubRow
  <2>1. subs[c.id] \in SubRow \cup {None} BY <1>3 DEF SubInv, SubTypeOK
  <2>2. QED BY <2>1, <1>1, <1>2 DEF SubCallOK, SubPart, Written
<1>5. row.email \in Addresses BY <1>4 DEF SubRow
<1>6. SubCallOK(next) /\ next.op = "deliver" BY <1>3, <1>5 DEF SubCallOK
<1>7. links' \in [Links -> Addresses \cup {None, "unsent", "lost"}]
  BY <1>1 DEF SubInv, SubTypeOK
<1>8. Moves(r, next) BY <1>1 DEF Moves, CallsInv
<1> HIDE DEF next, row
<1>9. call'[r] = next /\ (\A q \in Requests \ {r} : call'[q] = call[q]) /\ load' = load
  BY <1>8, Moved
<1>10. PICK k : k = c OBVIOUS
<1>11. /\ k = call[r] /\ k # None /\ k.op \in {"mail", "sub"}
       /\ subs' = [subs EXCEPT ![k.id] = Written(subs[k.id], k.set)]
  BY <1>1, <1>10 DEF row
<1>12. /\ SubInv' /\ HonouredInv'
       /\ k.id \in Subs /\ \A s \in Subs \ {k.id} : subs'[s] = subs[s]
       /\ subs'[k.id] = Written(subs[k.id], k.set)
  BY <1>6, <1>7, <1>9, <1>11, SubRowWritten
<1>13. CallsStep BY <1>8 DEF CallsStep
<1>14. QED BY <1>10, <1>12, <1>13

\* A row is written.
LEMMA WriteSubscriptionKeeps ==
    ASSUME CallsInv, SubInv, HonouredInv, NEW r \in Requests, WriteSubscription(r)
    PROVE  /\ CallsStep /\ SubInv' /\ HonouredInv'
           /\ call[r].id \in Subs /\ \A s \in Subs \ {call[r].id} : subs'[s] = subs[s]
           /\ subs'[call[r].id] = Written(subs[call[r].id], call[r].set)
<1> PICK c : c = call[r] OBVIOUS
<1>1. /\ c # None /\ c.op = "sub" /\ End(r) /\ links' = links
      /\ subs' = [subs EXCEPT ![c.id] = Written(subs[c.id], c.set)]
  BY DEF WriteSubscription, Doing
<1>2. CallsStep /\ call'[r] = None /\ (\A q \in Requests \ {r} : call'[q] = call[q])
      /\ load' = load
  BY <1>1, EndedCalls
<1>3. links' \in [Links -> Addresses \cup {None, "unsent", "lost"}]
  BY <1>1 DEF SubInv, SubTypeOK
<1>4. /\ SubInv' /\ HonouredInv'
      /\ c.id \in Subs /\ \A s \in Subs \ {c.id} : subs'[s] = subs[s]
      /\ subs'[c.id] = Written(subs[c.id], c.set)
  BY <1>1, <1>2, <1>3, SubRowWritten
<1>5. QED BY <1>2, <1>4

\* Every step of the part.
LEMMA SubStep ==
    ASSUME CallsInv, SubInv, HonouredInv, SubNext
    PROVE  CallsStep /\ SubInv' /\ HonouredInv'
  BY SubOther, WriteAndSendKeeps, WriteSubscriptionKeeps DEF SubNext

\* Off their part, there are no subscriptions.
SubSite == /\ On("subscriptions") => CallsInv /\ SubInv /\ HonouredInv
           /\ ~On("subscriptions") => subs = Nothing(Subs)

\* The first state of the list.
LEMMA SubStarts == ASSUME CallsInit, SubInit PROVE CallsInv /\ SubInv /\ HonouredInv
<1>1. CallsInv /\ \A r \in Requests : call[r] = None BY DEF CallsInit, CallsInv
<1>2. subs = [s \in Subs |-> None] /\ links = [l \in Links |-> None] BY DEF SubInit
<1>3. SubTypeOK BY <1>2 DEF SubTypeOK
<1>4. QED BY <1>1, <1>2, <1>3 DEF SubInv, HonouredInv

\* The invariant of the part is one of the site.
LEMMA SubHolds == SiteSpec => []SubSite
<1>1. SiteInit => SubSite BY SubStarts DEF SubSite, SiteInit, OfficeInit, SubInit, Nothing
<1>2. SubSite /\ [SiteNext]_siteVars => SubSite'
  <2> SUFFICES ASSUME SubSite, [SiteNext]_siteVars PROVE SubSite' OBVIOUS
  <2>1. On("subscriptions")' <=> On("subscriptions") BY LoadStays DEF On
  <2>2. CASE On("subscriptions")
    <3>0. CallsInv /\ SubInv /\ HonouredInv BY <2>2 DEF SubSite
    <3>1. CASE SubNext
      <4>1. CallsInv' /\ SubInv' /\ HonouredInv' BY <3>0, <3>1, SubStep, CallsKept
      <4>2. QED BY <2>1, <2>2, <4>1 DEF SubSite
    <3>2. CASE UNCHANGED <<callVars, subVars>>
      <4>1. UNCHANGED <<load, call, made, subs, links>> BY <3>2 DEF callVars, subVars
      <4>2. /\ subs' \in [Subs -> SubRow \cup {None}]
            /\ links' \in [Links -> Addresses \cup {None, "unsent", "lost"}]
        BY <3>0, <4>1 DEF SubInv, SubTypeOK
      <4>3. SubInv' /\ HonouredInv' BY <3>0, <4>1, <4>2, SubsStay
      <4>4. CallsInv' BY <3>0, <4>1 DEF CallsInv
      <4>5. QED BY <2>1, <2>2, <4>3, <4>4 DEF SubSite
    <3>3. QED BY <2>2, <3>1, <3>2, OfficePart
  <2>3. CASE ~On("subscriptions")
    <3>1. subs' = subs BY <2>3, OfficePart DEF subVars
    <3>2. QED BY <2>1, <2>3, <3>1 DEF SubSite
  <2>4. QED BY <2>2, <2>3
<1>3. QED BY <1>1, <1>2, PTL DEF SiteSpec

\* While calls do not overlap, nobody who left is on the list again but by a
\* link mailed since or by an administrator.
LEMMA LeavingStep ==
    ASSUME CallsInv, SubInv, HonouredInv, SubNext, Alone, NEW s \in Subs
    PROVE  /\ subs'[s] # None => ReadsTrue(subs'[s])
           /\ subs[s] # None /\ subs[s].status # "subscribed" /\ subs'[s].status = "subscribed" =>
                 \E r \in Requests : /\ Doing(r, "sub") /\ call[r].id = s
                                     /\ call[r].by = "link" => subs[s].status # "unsubscribed"
<1>1. ASSUME subs'[s] # None PROVE ReadsTrue(subs'[s])
  <2>1. CallsStep /\ HonouredInv' BY SubStep
  <2>2. Alone' BY <2>1, Moved DEF CallsStep, Alone, callVars
  <2>3. Truthful(subs[s])' BY <1>1, <2>1, <2>2 DEF HonouredInv
  <2>4. QED BY <2>3 DEF Truthful, ReadsTrue
<1>2. ASSUME subs[s] # None, subs[s].status # "subscribed", subs'[s].status = "subscribed"
      PROVE  \E r \in Requests : /\ Doing(r, "sub") /\ call[r].id = s
                                 /\ call[r].by = "link" => subs[s].status # "unsubscribed"
  <2>1. ASSUME NEW r \in Requests, WriteAndSend(r) PROVE FALSE
    <3>1. call[r] # None /\ call[r].op = "mail" BY <2>1 DEF WriteAndSend, Doing
    <3>2. SubKnows(call[r]) BY <3>1 DEF HonouredInv
    <3>3. /\ \A t \in Subs \ {call[r].id} : subs'[t] = subs[t]
          /\ subs'[call[r].id] = Written(subs[call[r].id], call[r].set)
      BY <2>1, WriteAndSendKeeps
    <3>4. QED BY <3>1, <3>2, <3>3, <1>2 DEF SubKnows
  <2>2. ASSUME NEW r \in Requests, WriteSubscription(r)
        PROVE  /\ Doing(r, "sub") /\ call[r].id = s
               /\ call[r].by = "link" => subs[s].status # "unsubscribed"
    <3>1. Doing(r, "sub") BY <2>2 DEF WriteSubscription
    <3>2. SubKnows(call[r]) BY <3>1 DEF HonouredInv, Doing
    <3>3. \A t \in Subs \ {call[r].id} : subs'[t] = subs[t]
      BY <2>2, WriteSubscriptionKeeps
    <3>4. call[r].id = s BY <3>3, <1>2
    <3>5. QED BY <3>1, <3>2, <3>4 DEF SubKnows, Doing
  <2>3. ASSUME NEW t \in Subs, CooldownPasses(t) \/ LinkExpires(t) PROVE FALSE
    <3>1. \/ subs' = [subs EXCEPT ![t] = [@ EXCEPT !["sent"] = "before"]]
          \/ subs' = [subs EXCEPT ![t] = [@ EXCEPT !["expired"] = TRUE]]
      BY <2>3 DEF CooldownPasses, LinkExpires
    <3>2. subs[s] \in SubRow BY <1>2 DEF SubInv, SubTypeOK
    <3>3. subs'[s].status = subs[s].status BY <3>1, <3>2 DEF SubInv, SubTypeOK, SubRow
    <3>4. QED BY <3>3, <1>2
  <2>4. CASE UNCHANGED subs BY <2>4, <1>2
  <2>5. QED BY <2>1, <2>2, <2>3, <2>4 DEF SubNext, subVars, Deliver, LoseMail
<1>3. QED BY <1>1, <1>2

\* While calls do not overlap, a row never reads as both subscribed and left, an
\* outstanding link is that of an address still to be confirmed, and whoever
\* left is on the list again only by a new link or an administrator's hand.
THEOREM LeavingHonoured == SiteSpec => LeavingIsHonoured
<1> DEFINE Honoured == Alone => \A s \in Subs :
          /\ subs'[s] # None => ReadsTrue(subs'[s])
          /\ subs[s] # None /\ subs[s].status # "subscribed" /\ subs'[s].status = "subscribed" =>
                \E r \in Requests : /\ Doing(r, "sub") /\ call[r].id = s
                                    /\ call[r].by = "link" => subs[s].status # "unsubscribed"
<1>1. SubSite /\ [SiteNext]_siteVars => [Honoured]_<<callVars, subVars>>
  <2> SUFFICES ASSUME SubSite, [SiteNext]_siteVars,
                      ~UNCHANGED <<callVars, subVars>>, Alone, NEW s \in Subs
      PROVE  /\ subs'[s] # None => ReadsTrue(subs'[s])
             /\ subs[s] # None /\ subs[s].status # "subscribed"
                   /\ subs'[s].status = "subscribed" =>
                   \E r \in Requests : /\ Doing(r, "sub") /\ call[r].id = s
                                       /\ call[r].by = "link" => subs[s].status # "unsubscribed"
    OBVIOUS
  <2>1. CASE On("subscriptions")
    <3>1. SubNext BY <2>1, OfficePart
    <3>2. QED BY <2>1, <3>1, LeavingStep DEF SubSite
  <2>2. CASE ~On("subscriptions")
    <3>1. subs[s] = None /\ subs' = subs BY <2>2, OfficePart DEF SubSite, Nothing, subVars
    <3>2. QED BY <3>1
  <2>3. QED BY <2>1, <2>2
<1>2. QED BY <1>1, SubHolds, PTL DEF SiteSpec, LeavingIsHonoured

-----------------------------------------------------------------------------
(* Settings and translations.                                              *)

Strings == StringKeys \X Languages

\* A seeding that loads the files.
Syncing == [op : {"sync"}, id : {None}, todo : SUBSET Languages]

\* What a call on settings and translations carries, when m calls were made: a
\* row that is deleted is an administrator's, and whatever has its number is.
ConfigCallOK(c, m) ==
    /\ c.op = "set" => /\ DOMAIN c.set \subseteq Keys
                       /\ \A k \in DOMAIN c.set : c.set[k] \in Values \cup {None}
                       /\ \A k \in DOMAIN c.set : c.was[k] # None
    /\ c.op = "setting" => c.id \in Keys /\ c.row \in SettingRow \cup {None}
    /\ c.op = "setting" /\ c.row # None => ~c.row.system /\ c.row.row < m
    /\ c.op = "setting" /\ c.row = None =>
          /\ c.was # None /\ c.was.row \in Nat /\ c.was.row < m
          /\ settings[c.id] # None /\ settings[c.id].row = c.was.row => ~settings[c.id].system
    /\ c.op = "string" => c.id \in Strings /\ c.row \in StringRow \cup {None}
    /\ c.op = "seed" => c.add \subseteq Keys
    /\ c.op = "sync" => c \in Syncing /\ c.todo # {}

\* An administrator's row was numbered by a call, or was there from the start.
ConfigInv ==
    /\ ConfigTypeOK
    /\ \A r \in Requests : call[r] # None => ConfigCallOK(call[r], made)
    /\ \A k \in Keys : settings[k] # None /\ ~settings[k].system =>
          settings[k].row < made \/ settings[k].row = 0

\* The file of a language is in the table.
Loaded(l) == \A k \in StringKeys : Locale[l][k] # None =>
                 strings[<<k, l>>] # None /\ strings[<<k, l>>].value = Locale[l][k]

\* What a seeding knows while no other call can write: the settings it does not
\* add are there, and so is the file of every language it has done.
ConfigKnows(c) ==
    /\ c.op = "seed" => \A k \in SystemKeys : settings[k] # None \/ k \in c.add
    /\ c.op = "sync" => /\ \A k \in SystemKeys : settings[k] # None
                        /\ \A l \in Languages \ c.todo : Loaded(l)

SeededInv == Alone => \A r \in Requests : call[r] # None => ConfigKnows(call[r])

\* A call that begins on settings and translations.
ConfigBegan(r) ==
    \E c : Begin(r, c) /\ ConfigCallOK(c, made + 1) /\ (Alone => ConfigKnows(c))

\* A setting that ships with the platform stays, with a value that only a form
\* changes.
Shipped(k) == settings[k] # None /\ settings[k].system
ShippedStays ==
    \A k \in Keys : Shipped(k) =>
        /\ settings'[k] # None /\ settings'[k].system
        /\ settings'[k].value # settings[k].value =>
              \E r \in Requests : Doing(r, "set") /\ k \in DOMAIN call[r].set

\* The calls on settings and translations.
LEMMA ConfigBegins ==
    ASSUME CallsInv, ConfigInv, NEW r \in Requests,
           SettingCalls(r) \/ StringCalls(r) \/ Seed(r)
    PROVE  ConfigBegan(r)
<1>1. /\ settings \in [Keys -> SettingRow \cup {None}]
      /\ strings \in [Strings -> StringRow \cup {None}] /\ made \in Nat
  BY DEF ConfigInv, ConfigTypeOK, CallsInv, Strings
<1>2. ASSUME NEW on \in SUBSET Keys, NEW form \in [on -> Values \cup {None}], SetSettings(r, form)
      PROVE  ConfigBegan(r)
  <2> DEFINE c == [op |-> "set", id |-> None, set |-> form, was |-> settings]
  <2>1. Begin(r, c) /\ \A k \in DOMAIN form : settings[k] # None BY <1>2 DEF SetSettings
  <2>2. DOMAIN form = on /\ \A k \in on : form[k] \in Values \cup {None} BY <1>2
  <2>3. ConfigCallOK(c, made + 1) BY <2>1, <2>2 DEF ConfigCallOK
  <2>4. ConfigKnows(c) BY DEF ConfigKnows
  <2>5. QED BY <2>1, <2>3, <2>4 DEF ConfigBegan
<1>3. ASSUME NEW k \in Keys, NEW v \in Values, CreateSetting(r, k, v) PROVE ConfigBegan(r)
  <2> DEFINE row == [row |-> made, value |-> v, system |-> FALSE]
             c == [op |-> "setting", id |-> k, was |-> None, row |-> row]
  <2>1. Begin(r, c) BY <1>3 DEF CreateSetting
  <2>2. row \in SettingRow /\ row.system = FALSE /\ row.row = made BY <1>1 DEF SettingRow
  <2>3. row # None BY <2>2, ConfigNoneAssumption
  <2> HIDE DEF row
  <2>4. ConfigCallOK(c, made + 1) BY <1>1, <2>2, <2>3 DEF ConfigCallOK
  <2>5. ConfigKnows(c) BY DEF ConfigKnows
  <2>6. QED BY <2>1, <2>4, <2>5 DEF ConfigBegan
<1>4. ASSUME NEW k \in Keys, DeleteSetting(r, k) PROVE ConfigBegan(r)
  <2> DEFINE c == [op |-> "setting", id |-> k, was |-> settings[k], row |-> None]
  <2>1. Begin(r, c) /\ settings[k] # None /\ ~settings[k].system BY <1>4 DEF DeleteSetting
  <2>2. settings[k].row \in Nat BY <1>1, <2>1 DEF SettingRow
  <2>3. settings[k].row < made + 1 BY <1>1, <2>1, <2>2 DEF ConfigInv
  <2>4. ConfigCallOK(c, made + 1) BY <2>1, <2>2, <2>3 DEF ConfigCallOK
  <2>5. ConfigKnows(c) BY DEF ConfigKnows
  <2>6. QED BY <2>1, <2>4, <2>5 DEF ConfigBegan
<1>5. ASSUME NEW s \in Strings, NEW row \in StringRow \cup {None}, NEW was,
             Begin(r, [op |-> "string", id |-> s, was |-> was, row |-> row])
      PROVE  ConfigBegan(r)
  <2> DEFINE c == [op |-> "string", id |-> s, was |-> was, row |-> row]
  <2>1. ConfigCallOK(c, made + 1) BY DEF ConfigCallOK
  <2>2. ConfigKnows(c) BY DEF ConfigKnows
  <2>3. QED BY <1>5, <2>1, <2>2 DEF ConfigBegan
<1>6. ASSUME NEW s \in Strings, NEW v \in Values, CreateString(r, s, v) PROVE ConfigBegan(r)
  <2>1. [row |-> made, value |-> v] \in StringRow BY <1>1 DEF StringRow
  <2>2. QED BY <1>5, <1>6, <2>1 DEF CreateString
<1>7. ASSUME NEW s \in Strings, NEW v \in Values, UpdateString(r, s, v) PROVE ConfigBegan(r)
  <2>1. strings[s] \in StringRow BY <1>1, <1>7 DEF UpdateString
  <2>2. [strings[s] EXCEPT !.value = v] \in StringRow BY <2>1 DEF StringRow
  <2>3. QED BY <1>5, <1>7, <2>2 DEF UpdateString
<1>8. ASSUME NEW s \in Strings, DeleteString(r, s) PROVE ConfigBegan(r)
  BY <1>5, <1>8 DEF DeleteString
<1>9. ASSUME Seed(r) PROVE ConfigBegan(r)
  <2> DEFINE c == [op |-> "seed", id |-> None, add |-> MissingSettings]
  <2>1. Begin(r, c) BY <1>9 DEF Seed
  <2>2. ConfigCallOK(c, made + 1)
    BY ConfigurationAssumption DEF ConfigCallOK, MissingSettings
  <2>3. ConfigKnows(c) BY DEF ConfigKnows, MissingSettings
  <2>4. QED BY <2>1, <2>2, <2>3 DEF ConfigBegan
<1>10. QED BY <1>2, <1>3, <1>4, <1>6, <1>7, <1>8, <1>9 DEF SettingCalls, StringCalls, Strings

\* Whatever has the number n under the key k is an administrator's.
Owned(k, n) == settings[k] # None /\ settings[k].row = n => ~settings[k].system

\* What the calls carry stays in order when no number an earlier call can have
\* loaded passes to a setting that ships with the platform.
LEMMA ConfigRest ==
    ASSUME CallsInv, ConfigInv, made' \in Nat, made <= made', ConfigTypeOK',
           \A k \in Keys : settings'[k] # None /\ ~settings'[k].system =>
              settings'[k].row < made' \/ settings'[k].row = 0,
           \A k \in Keys, n \in Nat : n < made /\ Owned(k, n) => Owned(k, n)',
           \A q \in Requests :
              \/ call'[q] = None
              \/ call'[q] = call[q]
              \/ /\ ConfigCallOK(call'[q], made')
                 /\ UNCHANGED settings \/ call'[q].op # "setting"
    PROVE  ConfigInv'
<1>1. made \in Nat BY DEF CallsInv
<1>2. ASSUME NEW q \in Requests, call'[q] # None PROVE ConfigCallOK(call[q], made)'
  <2> PICK c : c = call'[q] OBVIOUS
  <2>1. CASE c = call[q]
    <3>1. ConfigCallOK(c, made) BY <1>2, <2>1 DEF ConfigInv
    <3>2. c.op = "setting" /\ c.row # None => c.row.row < made'
      <4> SUFFICES ASSUME c.op = "setting", c.row # None PROVE c.row.row < made' OBVIOUS
      <4>1. c.row.row < made /\ c.row \in SettingRow BY <3>1 DEF ConfigCallOK
      <4>2. c.row.row \in Nat BY <4>1 DEF SettingRow
      <4>3. QED BY <1>1, <4>1, <4>2
    <3>3. c.op = "setting" /\ c.row = None =>
             /\ c.was.row < made'
             /\ settings'[c.id] # None /\ settings'[c.id].row = c.was.row =>
                   ~settings'[c.id].system
      <4> SUFFICES ASSUME c.op = "setting", c.row = None
                   PROVE  /\ c.was.row < made'
                          /\ settings'[c.id] # None /\ settings'[c.id].row = c.was.row =>
                                ~settings'[c.id].system
        OBVIOUS
      <4>1. c.id \in Keys /\ c.was.row \in Nat /\ c.was.row < made /\ Owned(c.id, c.was.row)
        BY <3>1 DEF ConfigCallOK, Owned
      <4>2. PICK n, k : n = c.was.row /\ k = c.id OBVIOUS
      <4>3. Owned(k, n)' BY <4>1, <4>2
      <4>4. c.was.row < made' BY <1>1, <4>1
      <4>5. QED BY <4>2, <4>3, <4>4 DEF Owned
    <3>4. ConfigCallOK(c, made)' BY <3>1, <3>2, <3>3 DEF ConfigCallOK
    <3>5. QED BY <3>4
  <2>2. CASE ConfigCallOK(c, made') /\ (UNCHANGED settings \/ c.op # "setting")
    <3>1. ConfigCallOK(c, made)' BY <2>2 DEF ConfigCallOK
    <3>2. QED BY <3>1
  <2>3. QED BY <1>2, <2>1, <2>2
<1>3. QED BY <1>2 DEF ConfigInv

\* A call begins or a request dies.
LEMMA ConfigCallMoves ==
    ASSUME CallsInv, ConfigInv, SeededInv, NEW r \in Requests, UNCHANGED configVars,
           ConfigBegan(r) \/ Die(r)
    PROVE  CallsStep /\ ConfigInv' /\ SeededInv' /\ ShippedStays
<1>1. UNCHANGED <<settings, strings>> BY DEF configVars
<1>2. ShippedStays BY <1>1 DEF ShippedStays, Shipped
<1>3. ConfigTypeOK' /\ made \in Nat BY <1>1 DEF ConfigInv, ConfigTypeOK, CallsInv
<1>4. \A k \in Keys, n \in Nat : Owned(k, n) => Owned(k, n)' BY <1>1 DEF Owned
<1>5. \A k \in Keys : settings[k] # None => settings[k].row \in Nat
  BY DEF ConfigInv, ConfigTypeOK, SettingRow
<1>6. ASSUME made' \in Nat, made <= made', NEW k \in Keys, settings'[k] # None,
             ~settings'[k].system
      PROVE  settings'[k].row < made' \/ settings'[k].row = 0
  <2>1. settings[k].row < made \/ settings[k].row = 0 BY <1>1, <1>6 DEF ConfigInv
  <2>2. settings[k].row \in Nat BY <1>1, <1>5, <1>6
  <2>3. QED BY <1>1, <1>3, <1>6, <2>1, <2>2
<1>7. CASE ConfigBegan(r)
  <2> PICK c : Begin(r, c) /\ ConfigCallOK(c, made + 1) /\ (Alone => ConfigKnows(c))
    BY <1>7 DEF ConfigBegan
  <2>1. Moves(r, c) BY BeginMoves
  <2>2. call'[r] = c /\ (\A q \in Requests \ {r} : call'[q] = call[q]) /\ load' = load
    BY <2>1, Moved
  <2>3. made' = made + 1 BY DEF Begin
  <2>4. made' \in Nat /\ made <= made' BY <1>3, <2>3
  <2>5. ConfigInv' BY <1>1, <1>3, <1>4, <1>6, <2>2, <2>3, <2>4, ConfigRest
  <2>6. ASSUME Alone, NEW q \in Requests, call'[q] # None PROVE ConfigKnows(call[q])'
    <3>1. ConfigKnows(call'[q]) BY <2>2, <2>6 DEF SeededInv
    <3>2. \A l : Loaded(l)' <=> Loaded(l) BY <1>1 DEF Loaded
    <3>3. QED BY <1>1, <3>1, <3>2 DEF ConfigKnows
  <2>7. SeededInv' BY <2>2, <2>6 DEF SeededInv, Alone
  <2>8. QED BY <1>2, <2>1, <2>5, <2>7 DEF CallsStep
<1>8. CASE Die(r)
  <2>1. CallsStep /\ call'[r] = None /\ (\A q \in Requests \ {r} : call'[q] = call[q])
        /\ load' = load /\ made' = made /\ Alone' = Alone
    BY <1>8, EndedCalls DEF Die, End
  <2>2. made' \in Nat /\ made <= made' BY <1>3, <2>1
  <2>3. ConfigInv' BY <1>3, <1>4, <1>6, <2>1, <2>2, ConfigRest
  <2>4. Alone => \A q \in Requests : call'[q] = None BY <1>8, EndsAlone DEF Die
  <2>5. QED BY <1>2, <2>1, <2>3, <2>4 DEF SeededInv
<1>9. QED BY <1>7, <1>8

\* The end of a call that wrote settings or strings.
LEMMA ConfigEnds ==
    ASSUME CallsInv, ConfigInv, SeededInv, NEW r \in Requests, call[r] # None, End(r),
           ConfigTypeOK',
           \A k \in Keys : settings'[k] # None /\ ~settings'[k].system =>
              settings'[k].row < made \/ settings'[k].row = 0,
           \A k \in Keys, n \in Nat : n < made /\ Owned(k, n) => Owned(k, n)'
    PROVE  CallsStep /\ ConfigInv' /\ SeededInv'
<1>1. CallsStep /\ call'[r] = None /\ (\A q \in Requests \ {r} : call'[q] = call[q])
      /\ load' = load /\ made' = made /\ Alone' = Alone
  BY EndedCalls DEF End
<1>2. made \in Nat /\ made <= made' BY <1>1 DEF CallsInv
<1>3. ConfigInv' BY <1>1, <1>2, ConfigRest
<1>4. Alone => \A q \in Requests : call'[q] = None BY EndsAlone
<1>5. QED BY <1>1, <1>3, <1>4 DEF SeededInv

\* A form is written.
LEMMA WriteSettingsKeeps ==
    ASSUME CallsInv, ConfigInv, SeededInv, NEW r \in Requests, WriteSettings(r)
    PROVE  CallsStep /\ ConfigInv' /\ SeededInv' /\ ShippedStays
<1> PICK c : c = call[r] OBVIOUS
<1> DEFINE named == {k \in DOMAIN c.set : c.set[k] # c.was[k].value}
<1>1. /\ Doing(r, "set") /\ c # None /\ c.op = "set" /\ End(r) /\ strings' = strings
      /\ \A k \in named : SameNumber(settings[k], c.was[k])
      /\ settings' = [k \in Keys |-> IF k \in named
                                     THEN [settings[k] EXCEPT !.value = c.set[k]]
                                     ELSE settings[k]]
  BY DEF WriteSettings, Doing
<1>2. /\ DOMAIN c.set \subseteq Keys
      /\ \A k \in DOMAIN c.set : c.set[k] \in Values \cup {None}
      /\ \A k \in DOMAIN c.set : c.was[k] # None
  BY <1>1 DEF ConfigInv, ConfigCallOK
<1>3. named \subseteq DOMAIN c.set OBVIOUS
<1> HIDE DEF named
<1>4. settings \in [Keys -> SettingRow \cup {None}] BY DEF ConfigInv, ConfigTypeOK
<1>5. \A k \in named : settings[k] # None BY <1>1, <1>2, <1>3 DEF SameNumber
<1>6. ASSUME NEW k \in Keys, k \in named
      PROVE  /\ settings[k] \in SettingRow /\ settings'[k] \in SettingRow
             /\ settings'[k].row = settings[k].row /\ settings'[k].system = settings[k].system
  <2>1. settings[k] \in SettingRow BY <1>4, <1>5, <1>6
  <2>2. c.set[k] \in Values \cup {None} BY <1>2, <1>3, <1>6
  <2>3. settings'[k] = [settings[k] EXCEPT !.value = c.set[k]] BY <1>1, <1>6
  <2>4. QED BY <2>1, <2>2, <2>3 DEF SettingRow
<1>7. \A k \in Keys : k \notin named => settings'[k] = settings[k] BY <1>1
<1>8. settings' \in [Keys -> SettingRow \cup {None}]
  <2>1. \A k \in Keys : settings'[k] \in SettingRow \cup {None} BY <1>4, <1>6, <1>7
  <2>2. DOMAIN settings' = Keys /\ settings' = [k \in DOMAIN settings' |-> settings'[k]]
    BY <1>1
  <2>3. QED BY <2>1, <2>2
<1>9. ConfigTypeOK' BY <1>1, <1>8 DEF ConfigInv, ConfigTypeOK
<1>10. \A k \in Keys : /\ settings'[k] = None <=> settings[k] = None
                       /\ settings[k] # None => /\ settings'[k].row = settings[k].row
                                                /\ settings'[k].system = settings[k].system
  BY <1>5, <1>6, <1>7, ConfigNoneAssumption
<1>11. \A k \in Keys : settings'[k] # None /\ ~settings'[k].system =>
          settings'[k].row < made \/ settings'[k].row = 0
  BY <1>10 DEF ConfigInv
<1>12. \A k \in Keys, n \in Nat : n < made /\ Owned(k, n) => Owned(k, n)' BY <1>10 DEF Owned
<1>13. ShippedStays BY <1>1, <1>3, <1>7, <1>10 DEF ShippedStays, Shipped
<1>14. QED BY <1>1, <1>9, <1>11, <1>12, <1>13, ConfigEnds

\* A setting is created or deleted: none that ships with the platform is.
LEMMA WriteSettingKeeps ==
    ASSUME CallsInv, ConfigInv, SeededInv, NEW r \in Requests, WriteSetting(r)
    PROVE  CallsStep /\ ConfigInv' /\ SeededInv' /\ ShippedStays
<1> PICK c : c = call[r] OBVIOUS
<1>1. /\ c # None /\ c.op = "setting" /\ End(r) /\ strings' = strings
      /\ c.row # None => settings[c.id] = None
      /\ settings' = IF SameNumber(settings[c.id], c.was)
                     THEN [settings EXCEPT ![c.id] = c.row] ELSE settings
  BY DEF WriteSetting, Doing
<1>2. ConfigCallOK(c, made) BY <1>1 DEF ConfigInv
<1>3. c.id \in Keys /\ c.row \in SettingRow \cup {None} BY <1>1, <1>2 DEF ConfigCallOK
<1>4. settings \in [Keys -> SettingRow \cup {None}] BY DEF ConfigInv, ConfigTypeOK
<1>5. settings' \in [Keys -> SettingRow \cup {None}] BY <1>1, <1>3, <1>4
<1>6. ConfigTypeOK' BY <1>1, <1>5 DEF ConfigInv, ConfigTypeOK
<1>7. \/ settings' = settings
      \/ /\ settings'[c.id] = c.row /\ \A k \in Keys \ {c.id} : settings'[k] = settings[k]
         /\ c.row = None => settings[c.id] # None /\ settings[c.id].row = c.was.row
  <2>1. CASE ~SameNumber(settings[c.id], c.was) BY <1>1, <2>1
  <2>2. CASE SameNumber(settings[c.id], c.was)
    <3>1. settings'[c.id] = c.row /\ \A k \in Keys \ {c.id} : settings'[k] = settings[k]
      BY <1>1, <1>3, <1>4, <2>2
    <3>2. c.row = None => c.was # None BY <1>1, <1>2 DEF ConfigCallOK
    <3>3. QED BY <2>2, <3>1, <3>2 DEF SameNumber
  <2>3. QED BY <2>1, <2>2
<1>8. ~Shipped(c.id) \/ settings' = settings
  <2>1. CASE c.row # None BY <1>1, <2>1 DEF Shipped
  <2>2. CASE c.row = None BY <1>1, <1>2, <1>7, <2>2 DEF ConfigCallOK, Shipped
  <2>3. QED BY <2>1, <2>2
<1>9. ShippedStays BY <1>7, <1>8 DEF ShippedStays, Shipped
<1>10. c.row # None => ~c.row.system /\ c.row.row < made BY <1>1, <1>2 DEF ConfigCallOK
<1>11. \A k \in Keys : settings'[k] # None /\ ~settings'[k].system =>
          settings'[k].row < made \/ settings'[k].row = 0
  BY <1>7, <1>10 DEF ConfigInv
<1>12. \A k \in Keys, n \in Nat : n < made /\ Owned(k, n) => Owned(k, n)'
  BY <1>7, <1>10 DEF Owned
<1>13. QED BY <1>1, <1>6, <1>9, <1>11, <1>12, ConfigEnds

\* A string is created, edited or deleted.
LEMMA WriteStringKeeps ==
    ASSUME CallsInv, ConfigInv, SeededInv, NEW r \in Requests, WriteString(r)
    PROVE  CallsStep /\ ConfigInv' /\ SeededInv' /\ ShippedStays
<1> PICK c : c = call[r] OBVIOUS
<1>1. /\ c # None /\ c.op = "string" /\ End(r) /\ settings' = settings
      /\ strings' = [strings EXCEPT ![c.id] = c.row] \/ strings' = strings
  BY DEF WriteString, Doing
<1>2. c.row \in StringRow \cup {None} BY <1>1 DEF ConfigInv, ConfigCallOK
<1>3. strings' \in [StringKeys \X Languages -> StringRow \cup {None}]
  BY <1>1, <1>2 DEF ConfigInv, ConfigTypeOK
<1>4. ConfigTypeOK' BY <1>1, <1>3 DEF ConfigInv, ConfigTypeOK
<1>5. ShippedStays BY <1>1 DEF ShippedStays, Shipped
<1>6. \A k \in Keys : settings'[k] # None /\ ~settings'[k].system =>
          settings'[k].row < made \/ settings'[k].row = 0
  BY <1>1 DEF ConfigInv
<1>7. \A k \in Keys, n \in Nat : n < made /\ Owned(k, n) => Owned(k, n)' BY <1>1 DEF Owned
<1>8. QED BY <1>1, <1>4, <1>5, <1>6, <1>7, ConfigEnds

\* A seeding inserts the settings that are missing and goes on to the files.
LEMMA WriteSettingsSeedKeeps ==
    ASSUME CallsInv, ConfigInv, SeededInv, NEW r \in Requests, WriteSettingsSeed(r)
    PROVE  CallsStep /\ ConfigInv' /\ SeededInv' /\ ShippedStays
<1> PICK c : c = call[r] OBVIOUS
<1> DEFINE new == [row |-> made, value |-> None, system |-> TRUE]
           next == [op |-> "sync", id |-> None, todo |-> Languages]
<1>1. /\ c # None /\ c.op = "seed" /\ \A k \in c.add : settings[k] = None
      /\ settings' = [k \in Keys |-> IF k \in c.add THEN new ELSE settings[k]]
      /\ call' = [call EXCEPT ![r] = next]
      /\ UNCHANGED <<load, made, strings>>
  BY DEF WriteSettingsSeed, Doing
<1>2. made \in Nat BY DEF CallsInv
<1>3. new \in SettingRow /\ new.system = TRUE /\ new.row = made BY <1>2 DEF SettingRow
<1>4. new # None BY <1>3, ConfigNoneAssumption
<1>5. next.op = "sync" /\ next.todo = Languages /\ next \in Syncing BY DEF Syncing
<1>6. c.add \subseteq Keys BY <1>1 DEF ConfigInv, ConfigCallOK
<1> HIDE DEF new, next
<1>7. settings \in [Keys -> SettingRow \cup {None}] BY DEF ConfigInv, ConfigTypeOK
<1>8. /\ \A k \in c.add : settings'[k] = new
      /\ \A k \in Keys \ c.add : settings'[k] = settings[k]
  BY <1>1, <1>6
<1>9. settings' \in [Keys -> SettingRow \cup {None}]
  <2>1. \A k \in Keys : settings'[k] \in SettingRow \cup {None} BY <1>3, <1>7, <1>8
  <2>2. DOMAIN settings' = Keys /\ settings' = [k \in DOMAIN settings' |-> settings'[k]]
    BY <1>1
  <2>3. QED BY <2>1, <2>2
<1>10. ConfigTypeOK' BY <1>1, <1>9 DEF ConfigInv, ConfigTypeOK
<1>11. ShippedStays BY <1>1, <1>8 DEF ShippedStays, Shipped
<1>12. Moves(r, next) BY <1>1 DEF Moves, CallsInv
<1>13. call'[r] = next /\ (\A q \in Requests \ {r} : call'[q] = call[q]) /\ load' = load
  BY <1>12, Moved
<1>14. \A k \in Keys : settings'[k] # None /\ ~settings'[k].system =>
          settings'[k].row < made \/ settings'[k].row = 0
  BY <1>3, <1>8 DEF ConfigInv
<1>15. \A k \in Keys, n \in Nat : n < made /\ Owned(k, n) => Owned(k, n)'
  BY <1>2, <1>3, <1>8 DEF Owned
<1>16. ConfigCallOK(next, made')
  <2>1. Languages # {} BY ConfigurationAssumption
  <2>2. QED BY <1>5, <2>1 DEF ConfigCallOK
<1>17. ConfigInv'
  <2>1. made' = made /\ made' \in Nat /\ made <= made' BY <1>1, <1>2
  <2>2. next.op # "setting" BY <1>5
  <2>3. QED BY <1>10, <1>13, <1>14, <1>15, <1>16, <2>1, <2>2, ConfigRest
<1>18. ASSUME Alone, NEW q \in Requests, call'[q] # None PROVE ConfigKnows(call[q])'
  <2>1. q = r BY <1>1, <1>13, <1>18, OneCall
  <2>2. ConfigKnows(c) BY <1>1, <1>18 DEF SeededInv
  <2>3. \A k \in SystemKeys : settings'[k] # None
    BY <2>2, <1>1, <1>4, <1>8, ConfigurationAssumption DEF ConfigKnows
  <2>4. call'[q] = next BY <2>1, <1>13
  <2>5. QED BY <1>5, <2>3, <2>4 DEF ConfigKnows
<1>19. SeededInv' BY <1>13, <1>18 DEF SeededInv, Alone
<1>20. QED BY <1>11, <1>12, <1>17, <1>19 DEF CallsStep

\* What the seeding has loaded once it has done another language.
LEMMA SyncedLoads ==
    ASSUME CallsInv, ConfigInv, NEW l \in Languages, strings' = Synced(l)
    PROVE  /\ strings' \in [StringKeys \X Languages -> StringRow \cup {None}]
           /\ Loaded(l)'
           /\ \A m \in Languages : Loaded(m) => Loaded(m)'
<1> DEFINE file(s) == Locale[l][s[1]]
           new(s) == IF s[2] # l \/ file(s) = None THEN strings[s]
                     ELSE IF strings[s] = None THEN [row |-> made, value |-> file(s)]
                     ELSE [strings[s] EXCEPT !.value = file(s)]
<1>1. strings' = [s \in StringKeys \X Languages |-> new(s)] BY DEF Synced
<1>2. strings \in [StringKeys \X Languages -> StringRow \cup {None}] /\ made \in Nat
  BY DEF ConfigInv, ConfigTypeOK, CallsInv
<1>3. ASSUME NEW s \in StringKeys \X Languages
      PROVE  /\ new(s) \in StringRow \cup {None}
             /\ s[2] = l /\ file(s) # None => new(s) \in StringRow /\ new(s).value = file(s)
             /\ s[2] # l \/ file(s) = None => new(s) = strings[s]
  <2>1. file(s) \in Values \cup {None} /\ strings[s] \in StringRow \cup {None}
    BY <1>2, ConfigurationAssumption
  <2> HIDE DEF file
  <2>2. CASE s[2] # l \/ file(s) = None BY <2>1, <2>2
  <2>3. CASE ~(s[2] # l \/ file(s) = None) /\ strings[s] = None
    BY <2>1, <2>3, <1>2 DEF StringRow
  <2>4. CASE ~(s[2] # l \/ file(s) = None) /\ strings[s] # None
    BY <2>1, <2>4 DEF StringRow
  <2>5. QED BY <2>2, <2>3, <2>4
<1> DEFINE some == StringRow \cup {None}
<1>4. \A s \in StringKeys \X Languages : new(s) \in some BY <1>3
<1> HIDE DEF new, some
<1>5. strings' \in [StringKeys \X Languages -> some] BY <1>1, <1>4
<1>6. \A s \in StringKeys \X Languages : strings'[s] = new(s) BY <1>1
<1>7. ASSUME NEW k \in StringKeys, NEW m \in Languages
      PROVE  /\ m = l /\ Locale[m][k] # None =>
                   strings'[<<k, m>>] # None /\ strings'[<<k, m>>].value = Locale[m][k]
             /\ m # l => strings'[<<k, m>>] = strings[<<k, m>>]
  <2>1. <<k, m>> \in StringKeys \X Languages /\ <<k, m>>[1] = k /\ <<k, m>>[2] = m OBVIOUS
  <2>2. strings'[<<k, m>>] = new(<<k, m>>) BY <2>1, <1>6
  <2>3. file(<<k, m>>) = Locale[l][k] BY <2>1
  <2> HIDE DEF file
  <2>4. QED BY <2>1, <2>2, <2>3, <1>3, ConfigNoneAssumption
<1>8. Loaded(l)' BY <1>7 DEF Loaded
<1>9. ASSUME NEW m \in Languages, Loaded(m) PROVE Loaded(m)'
  <2>1. CASE m = l BY <2>1, <1>8
  <2>2. CASE m # l BY <2>2, <1>7, <1>9 DEF Loaded
  <2>3. QED BY <2>1, <2>2
<1>10. QED BY <1>5, <1>8, <1>9 DEF some

\* A file is loaded; with the last one, and while calls do not overlap, nothing
\* of the settings and of the files is missing.
LEMMA SyncLocaleKeeps ==
    ASSUME CallsInv, ConfigInv, SeededInv, NEW r \in Requests, SyncLocale(r)
    PROVE  /\ CallsStep /\ ConfigInv' /\ SeededInv' /\ ShippedStays
           /\ Alone /\ call'[r] = None =>
                 /\ \A k \in SystemKeys : settings'[k] # None
                 /\ \A l \in Languages : Loaded(l)'
<1> PICK c : c = call[r] OBVIOUS
<1> PICK l : l = IF DefaultLanguage \in c.todo THEN DefaultLanguage
                 ELSE CHOOSE m \in c.todo : TRUE
  OBVIOUS
<1>1. /\ c # None /\ c.op = "sync" /\ settings' = settings /\ strings' = Synced(l)
      /\ c.todo = {l} => End(r)
      /\ c.todo # {l} => /\ call' = [call EXCEPT ![r] = [@ EXCEPT !["todo"] = c.todo \ {l}]]
                         /\ UNCHANGED <<load, made>>
  BY DEF SyncLocale, Doing
<1>2. ConfigCallOK(c, made) BY <1>1 DEF ConfigInv
<1>3. c \in Syncing /\ c.todo \subseteq Languages /\ c.todo # {}
  BY <1>1, <1>2 DEF ConfigCallOK, Syncing
<1>4. l \in c.todo /\ l \in Languages BY <1>3
<1>5. /\ strings' \in [StringKeys \X Languages -> StringRow \cup {None}]
      /\ Loaded(l)' /\ \A m \in Languages : Loaded(m) => Loaded(m)'
  BY <1>1, <1>4, SyncedLoads
<1>6. ConfigTypeOK' BY <1>1, <1>5 DEF ConfigInv, ConfigTypeOK
<1>7. ShippedStays BY <1>1 DEF ShippedStays, Shipped
<1>8. \A k \in Keys : settings'[k] # None /\ ~settings'[k].system =>
          settings'[k].row < made \/ settings'[k].row = 0
  BY <1>1 DEF ConfigInv
<1>9. \A k \in Keys, n \in Nat : n < made /\ Owned(k, n) => Owned(k, n)' BY <1>1 DEF Owned
<1>10. ASSUME Alone
       PROVE  /\ \A k \in SystemKeys : settings'[k] # None
              /\ \A m \in Languages \ (c.todo \ {l}) : Loaded(m)'
  <2>1. ConfigKnows(c) BY <1>1, <1>10 DEF SeededInv
  <2>2. QED BY <2>1, <1>1, <1>5 DEF ConfigKnows
<1>11. CASE c.todo = {l}
  <2>1. CallsStep /\ ConfigInv' /\ SeededInv' BY <1>1, <1>6, <1>8, <1>9, <1>11, ConfigEnds
  <2>2. QED BY <2>1, <1>7, <1>10, <1>11
<1>12. CASE c.todo # {l}
  <2> DEFINE next == [c EXCEPT !["todo"] = c.todo \ {l}]
  <2>1. call' = [call EXCEPT ![r] = next] /\ UNCHANGED <<load, made>> BY <1>1, <1>12
  <2>2. next \in Syncing /\ next.op = "sync" /\ next.todo = c.todo \ {l}
    BY <1>3 DEF Syncing
  <2>0. next # None BY <2>2, ConfigNoneAssumption DEF Syncing
  <2> HIDE DEF next
  <2>3. Moves(r, next) BY <1>1, <2>1 DEF Moves, CallsInv
  <2>4. call'[r] = next /\ \A q \in Requests \ {r} : call'[q] = call[q] BY <2>3, Moved
  <2>5. ConfigCallOK(next, made') BY <1>3, <1>4, <1>12, <2>2 DEF ConfigCallOK
  <2>6. ConfigInv'
    <3>1. made' = made /\ made' \in Nat /\ made <= made' BY <2>1 DEF CallsInv
    <3>2. QED BY <1>1, <1>6, <1>8, <1>9, <2>4, <2>5, <3>1, ConfigRest
  <2>7. ASSUME Alone, NEW q \in Requests, call'[q] # None PROVE ConfigKnows(call[q])'
    <3>1. q = r /\ call'[q] = next BY <1>1, <2>4, <2>7, OneCall
    <3>2. QED BY <1>10, <2>2, <2>7, <3>1 DEF ConfigKnows
  <2>8. SeededInv' BY <2>1, <2>7 DEF SeededInv, Alone
  <2>9. QED BY <1>7, <2>0, <2>3, <2>4, <2>6, <2>8 DEF CallsStep
<1>13. QED BY <1>11, <1>12

-----------------------------------------------------------------------------
(* Only a seeding of settings and translations loads files.                *)

\* A step of another part begins no such call.
OtherCalls ==
    \/ call' = call
    \/ \E r \in Requests : \E c : (c = None \/ c.op # "sync") /\ call' = [call EXCEPT ![r] = c]

\* No such call is under way.
NoneLoading == /\ DOMAIN call = Requests
               /\ \A r \in Requests : call[r] # None => call[r].op # "sync"

\* None begins in a step of another part.
LEMMA NoneLoads == ASSUME NoneLoading, OtherCalls PROVE NoneLoading'
<1>1. CASE call' = call BY <1>1 DEF NoneLoading
<1>2. CASE \E r \in Requests : \E c : (c = None \/ c.op # "sync") /\ call' = [call EXCEPT ![r] = c]
  <2> PICK r \in Requests : \E c : (c = None \/ c.op # "sync") /\ call' = [call EXCEPT ![r] = c]
    BY <1>2
  <2> PICK c : (c = None \/ c.op # "sync") /\ call' = [call EXCEPT ![r] = c] OBVIOUS
  <2>1. DOMAIN call' = Requests BY DEF NoneLoading
  <2>2. call'[r] = c /\ \A q \in Requests \ {r} : call'[q] = call[q] BY DEF NoneLoading
  <2>3. QED BY <2>1, <2>2 DEF NoneLoading
<1>3. QED BY <1>1, <1>2 DEF OtherCalls

\* A call of another kind begins.
LEMMA OtherBegins ==
    ASSUME NEW r \in Requests, NEW c, Begin(r, c), c.op # "sync" PROVE OtherCalls
  BY DEF Begin, OtherCalls

\* A call goes on to something else.
LEMMA OtherGoesOn ==
    ASSUME NEW r \in Requests, NEW c, call' = [call EXCEPT ![r] = c], c.op # "sync"
    PROVE  OtherCalls
  BY DEF OtherCalls

\* A call ends.
LEMMA OtherEnds == ASSUME NEW r \in Requests, End(r) PROVE OtherCalls BY DEF End, OtherCalls

\* Categories.
LEMMA TreeOthers == ASSUME TreeNext PROVE OtherCalls
<1>1. ASSUME NEW r \in Requests, TypeCalls(r) PROVE OtherCalls
  BY <1>1, OtherBegins DEF TypeCalls, CreateType, DeleteType, RestoreType
<1>2. ASSUME NEW r \in Requests, CategoryCalls(r) PROVE OtherCalls
  BY <1>2, OtherBegins DEF CategoryCalls, CreateCategory, UpdateCategory, MoveCategory,
     DeleteCategory, RestoreCategory
<1>3. ASSUME NEW r \in Requests, WriteType(r) \/ WriteCategory(r) \/ Die(r) PROVE OtherCalls
  BY <1>3, OtherEnds DEF WriteType, WriteCategory, Die
<1>4. QED BY <1>1, <1>2, <1>3 DEF TreeNext

\* Menus.
LEMMA MenuOthers == ASSUME MenuNext PROVE OtherCalls
<1>1. ASSUME NEW r \in Requests, MenuLoad(r) PROVE OtherCalls
  BY <1>1, OtherBegins DEF MenuLoad, CreateItem, UpdateItem, MoveItem, DeleteItem, RestoreItem
<1>2. ASSUME NEW r \in Requests, WriteItem(r) PROVE OtherCalls
  BY <1>2, OtherEnds DEF WriteItem
<1>3. QED BY <1>1, <1>2, TreeOthers DEF MenuNext

\* Articles.
LEMMA ArticleOthers == ASSUME ArticleNext PROVE OtherCalls
<1>1. ASSUME NEW r \in Requests, NEW a, NEW new, Edit(r, a, new) \/ Insert(r, a, new)
      PROVE  OtherCalls
  BY <1>1, OtherBegins DEF Edit, Insert
<1>2. ASSUME NEW r \in Requests, ArticleLoad(r) PROVE OtherCalls
  BY <1>1, <1>2 DEF ArticleLoad, PageCalls, BlogCalls, AutomationCalls, CourseCalls,
     ConsultancyCalls, Lifecycle, Publish, Unpublish, Archive, DeleteArticle, RestoreArticle,
     CreatePage, UpdatePage, CreateBlog, UpdateBlog, CreateAutomation, UpdateAutomation,
     CreateCourse, UpdateCourse, CreateConsultancy, UpdateConsultancy
<1>3. QED BY <1>2, OtherEnds DEF ArticleNext, WriteArticle, Die

\* Master data.
LEMMA DataOthers == ASSUME DataNext PROVE OtherCalls
<1>1. ASSUME NEW r \in Requests, FieldCalls(r) PROVE OtherCalls
  BY <1>1, OtherBegins DEF FieldCalls, CreateField, UpdateField, DeleteField, RestoreField
<1>2. ASSUME NEW r \in Requests, NEW x, NEW c, NEW form,
             CreateRecord(r, x, c, form) \/ UpdateRecord(r, x, c, form)
      PROVE  OtherCalls
  BY <1>2, OtherBegins DEF CreateRecord, UpdateRecord
<1>3. ASSUME NEW r \in Requests, RecordCalls(r) PROVE OtherCalls
  BY <1>2, <1>3, OtherBegins DEF RecordCalls, DeleteRecord, RestoreRecord
<1>4. ASSUME NEW r \in Requests, WriteField(r) \/ WriteRecord(r) PROVE OtherCalls
  BY <1>4, OtherEnds DEF WriteField, WriteRecord
<1>5. QED BY <1>1, <1>3, <1>4, OtherEnds DEF DataNext, Die

\* Accounts.
LEMMA AcctOthers == ASSUME AcctNext PROVE OtherCalls
<1>1. ASSUME NEW r \in Requests, NEW u, UserCalls(r, u) PROVE OtherCalls
  BY <1>1, OtherBegins DEF UserCalls, CreateUser, UpdateUser, SetPassword, DeleteUser,
     RestoreUser, VerifyEmail
<1>2. ASSUME NEW r \in Requests, NEW u, IdentityCalls(r, u) \/ SocialCalls(r, u) PROVE OtherCalls
  BY <1>2, OtherBegins DEF IdentityCalls, SocialCalls, Link, Unlink, SocialLink, SocialCreate
<1>3. ASSUME NEW r \in Requests, InsertIdentity(r) PROVE OtherCalls
  <2>1. PICK c : c = [op |-> "linking", id |-> call[r].id, social |-> call[r].social,
                    set |-> Mirror(call[r].id, Linked(call[r].id) \cup {call[r].social})]
    OBVIOUS
  <2>2. call' = [call EXCEPT ![r] = c] BY <1>3, <2>1 DEF InsertIdentity
  <2>3. c.op = "linking" BY <2>1
  <2>4. QED BY <2>2, <2>3, OtherGoesOn
<1>6. ASSUME NEW r \in Requests, DeleteIdentity(r) PROVE OtherCalls
  <2>1. PICK c : c = [op |-> "unlinking", id |-> call[r].id, provider |-> call[r].provider,
                    set |-> Mirror(call[r].id,
                                   {s \in Linked(call[r].id) : s.provider # call[r].provider})]
    OBVIOUS
  <2>2. call' = [call EXCEPT ![r] = c] BY <1>6, <2>1 DEF DeleteIdentity
  <2>3. c.op = "unlinking" BY <2>1
  <2>4. QED BY <2>2, <2>3, OtherGoesOn
<1>4. ASSUME NEW r \in Requests, WriteUser(r) \/ WriteRegistration(r) PROVE OtherCalls
  BY <1>4, OtherEnds DEF WriteUser, WriteRegistration
<1>5. QED BY <1>1, <1>2, <1>3, <1>4, <1>6, OtherEnds DEF AcctNext, Die

\* Roles and permissions.
LEMMA AccessOthers == ASSUME AccessNext PROVE OtherCalls
<1>1. ASSUME NEW r \in Requests, RoleCalls(r) \/ PermissionCalls(r) PROVE OtherCalls
  BY <1>1, OtherBegins DEF RoleCalls, PermissionCalls, CreateRole, DeleteRole, RestoreRole,
     CreatePermission, DeletePermission
<1>2. ASSUME NEW r \in Requests, GrantCalls(r) \/ AssignmentCalls(r) PROVE OtherCalls
  BY <1>2, OtherBegins DEF GrantCalls, AssignmentCalls, GrantPermissions, RevokePermissions,
     ReplacePermissions, AssignRoles, RevokeRoles, ReplaceRoles, Give
<1>3. ASSUME NEW r \in Requests, Seeding(r) PROVE OtherCalls
  BY <1>3, OtherBegins DEF Seeding, SeedRoles, SeedPermissions, SeedGrants
<1>4. ASSUME NEW r \in Requests, WriteAssignment(r) PROVE OtherCalls
  <2>1. PICK c : c = [op |-> "entry", id |-> call[r].id, held |-> call[r].held,
                    add |-> call[r].add,
                    now |-> (given[call[r].id] \ call[r].drop) \cup call[r].add]
    OBVIOUS
  <2>2. call' = [call EXCEPT ![r] = c] BY <1>4, <2>1 DEF WriteAssignment
  <2>3. c.op = "entry" BY <2>1
  <2>4. QED BY <2>2, <2>3, OtherGoesOn
<1>5. ASSUME NEW r \in Requests, WriteRole(r) \/ WritePermission(r) \/ WriteGrant(r)
                    \/ WriteSeed(r) \/ WriteEntry(r) \/ LoseCall(r)
      PROVE  OtherCalls
  BY <1>5, OtherEnds DEF WriteRole, WritePermission, WriteGrant, WriteSeed, WriteEntry,
     LoseCall, Die
<1>6. QED BY <1>1, <1>2, <1>3, <1>4, <1>5 DEF AccessNext

\* Profiles.
LEMMA ProfileOthers == ASSUME ProfileNext PROVE OtherCalls
<1>1. ASSUME NEW r \in Requests, NEW o, PictureCalls(r, o) \/ DetailCalls(r, o) PROVE OtherCalls
  BY <1>1, OtherBegins DEF PictureCalls, DetailCalls, SetAvatar, ClearAvatar, EditPicture,
     CreateDetails, UpdateDetails, DeleteDetails
<1>2. ASSUME NEW r \in Requests, StoreUpload(r) PROVE OtherCalls
  <2> PICK u \in Uploads :
            call' = [call EXCEPT ![r] = [op |-> "point", id |-> call[r].id, set |-> u,
                                         old |-> call[r].old]]
    BY <1>2 DEF StoreUpload
  <2>1. PICK c : c = [op |-> "point", id |-> call[r].id, set |-> u, old |-> call[r].old]
    OBVIOUS
  <2>2. call' = [call EXCEPT ![r] = c] BY <2>1
  <2>3. c.op = "point" BY <2>1
  <2>4. QED BY <2>2, <2>3, OtherGoesOn
<1>3. ASSUME NEW r \in Requests, PointPicture(r) PROVE OtherCalls
  <2>1. PICK c : c = [op |-> "discard", id |-> call[r].id, old |-> call[r].old]
    OBVIOUS
  <2>2. call' = [call EXCEPT ![r] = c] BY <1>3, <2>1 DEF PointPicture
  <2>3. c.op = "discard" BY <2>1
  <2>4. QED BY <2>2, <2>3, OtherGoesOn
<1>4. ASSUME NEW r \in Requests, WritePicture(r) \/ WriteDetails(r) \/ Discard(r) \/ Die(r)
      PROVE  OtherCalls
  BY <1>4, OtherEnds DEF WritePicture, WriteDetails, Discard, Die
<1>5. QED BY <1>1, <1>2, <1>3, <1>4 DEF ProfileNext

\* The newsletter list.
LEMMA SubOthers == ASSUME SubNext PROVE OtherCalls
<1>1. ASSUME NEW r \in Requests, PublicCalls(r) PROVE OtherCalls
  BY <1>1, OtherBegins DEF PublicCalls, StartNew, Resume, Confirm, Unsubscribe
<1>2. ASSUME NEW r \in Requests, ListCalls(r) PROVE OtherCalls
  BY <1>2, OtherBegins DEF ListCalls, CreateSubscription, UpdateSubscription, MarkSubscribed,
     MarkUnsubscribed, MarkBounced, DeleteSubscription, RestoreSubscription
<1>3. ASSUME NEW r \in Requests, WriteAndSend(r) PROVE OtherCalls
  <2>1. PICK c : c = [op |-> "deliver", id |-> call[r].id, link |-> call[r].link,
                    to |-> Written(subs[call[r].id], call[r].set).email]
    OBVIOUS
  <2>2. call' = [call EXCEPT ![r] = c] BY <1>3, <2>1 DEF WriteAndSend
  <2>3. c.op = "deliver" BY <2>1
  <2>4. QED BY <2>2, <2>3, OtherGoesOn
<1>4. ASSUME NEW r \in Requests, Deliver(r) \/ WriteSubscription(r) \/ LoseMail(r)
      PROVE  OtherCalls
  BY <1>4, OtherEnds DEF Deliver, WriteSubscription, LoseMail, Die
<1>5. QED BY <1>1, <1>2, <1>3, <1>4 DEF SubNext, OtherCalls, callVars

\* Announcements.
LEMMA NoteOthers == ASSUME NoteNext PROVE OtherCalls
<1>1. ASSUME NEW r \in Requests, NEW n, NEW new, UpdateNote(r, n, new) PROVE OtherCalls
  BY <1>1, OtherBegins DEF UpdateNote
<1>2. ASSUME NEW r \in Requests, DeskCalls(r) PROVE OtherCalls
  BY <1>1, <1>2, OtherBegins DEF DeskCalls, CreateNote, Send, NewNote, DeleteNote, RestoreNote
<1>3. ASSUME NEW r \in Requests, ReaderCalls(r) PROVE OtherCalls
  BY <1>3, OtherBegins DEF ReaderCalls, OpenCopy, ArchiveCopy, MarkAllRead
<1>4. ASSUME NEW r \in Requests, WriteNote(r) \/ WriteCopy(r) \/ WriteSweep(r) PROVE OtherCalls
  BY <1>4, OtherEnds DEF WriteNote, WriteCopy, WriteSweep
<1>5. QED BY <1>2, <1>3, <1>4, OtherEnds DEF NoteNext, Die, OtherCalls, callVars

\* Inquiries.
LEMMA InquiryOthers == ASSUME InquiryNext PROVE OtherCalls
<1>1. ASSUME NEW r \in Requests, NEW x, NEW new, EditInquiry(r, x, new) \/ RestoreInquiry(r, x)
      PROVE  OtherCalls
  BY <1>1, OtherBegins DEF EditInquiry, RestoreInquiry
<1>2. ASSUME NEW r \in Requests, PublicForm(r) PROVE OtherCalls
  BY <1>2, OtherBegins DEF PublicForm, Submit, SubmitAgain
<1>3. ASSUME NEW r \in Requests, Inbox(r) PROVE OtherCalls
  BY <1>1, <1>3 DEF Inbox, OpenInquiry, ChangeStatus, UpdateInquiry, MarkUnread, DeleteInquiry
<1>4. ASSUME NEW r \in Requests, WriteInquiry(r) PROVE OtherCalls
  <2>1. PICK c : c = [op |-> "tell", id |-> call[r].id] OBVIOUS
  <2>2. call' = [call EXCEPT ![r] = c] \/ End(r) BY <1>4, <2>1 DEF WriteInquiry
  <2>3. c.op = "tell" BY <2>1
  <2>4. QED BY <2>2, <2>3, OtherGoesOn, OtherEnds
<1>5. QED
  BY <1>2, <1>3, <1>4, OtherEnds
     DEF InquiryNext, InquiryLoad, TimePasses, Tell, Die, OtherCalls, callVars

\* Off its part, no seeding loads files.
LEMMA OthersOnly == ASSUME [SiteNext]_siteVars, ~On("configuration") PROVE OtherCalls
<1>1. ASSUME ContentNext PROVE OtherCalls
  BY <1>1, TreeOthers, MenuOthers, ArticleOthers, DataOthers DEF ContentNext
<1>2. ASSUME PeopleNext PROVE OtherCalls
  BY <1>2, AcctOthers, AccessOthers, ProfileOthers DEF PeopleNext
<1>3. ASSUME OfficeNext PROVE OtherCalls
  BY <1>3, SubOthers, NoteOthers, InquiryOthers DEF OfficeNext, MigrationNext, OtherCalls, callVars
<1>4. QED BY <1>1, <1>2, <1>3 DEF SiteNext, siteVars, callVars, OtherCalls

-----------------------------------------------------------------------------
(* Settings and translations, on their part and off it.                    *)

\* Every step of the part.
LEMMA ConfigStep ==
    ASSUME CallsInv, ConfigInv, SeededInv, ConfigNext
    PROVE  CallsStep /\ ConfigInv' /\ SeededInv' /\ ShippedStays
  BY ConfigBegins, ConfigCallMoves, WriteSettingsKeeps, WriteSettingKeeps, WriteStringKeeps,
     WriteSettingsSeedKeeps, SyncLocaleKeeps DEF ConfigNext

\* The first state of the part.
LEMMA ConfigStarts == ASSUME CallsInit, ConfigInit PROVE CallsInv /\ ConfigInv /\ SeededInv
<1>1. CallsInv /\ \A r \in Requests : call[r] = None BY DEF CallsInit, CallsInv
<1> DEFINE first == {None} \cup [row : {0}, value : {None}, system : BOOLEAN]
<1>2. settings \in [Keys -> first] /\ strings = [s \in StringKeys \X Languages |-> None]
  BY DEF ConfigInit
<1>3. \A x \in first : x \in SettingRow \cup {None} /\ (x # None => x.row = 0) BY DEF SettingRow
<1> HIDE DEF first
<1>4. settings \in [Keys -> SettingRow \cup {None}] BY <1>2, <1>3
<1>5. \A k \in Keys : settings[k] # None => settings[k].row = 0 BY <1>2, <1>3
<1>6. ConfigTypeOK BY <1>2, <1>4 DEF ConfigTypeOK
<1>7. QED BY <1>1, <1>5, <1>6 DEF ConfigInv, SeededInv

\* Off their part, there are no settings and no strings, and nothing loads any.
ConfigSite == /\ On("configuration") => CallsInv /\ ConfigInv /\ SeededInv
              /\ ~On("configuration") => settings = Nothing(Keys) /\ NoneLoading

\* The invariant of the part is one of the site.
LEMMA ConfigHolds == SiteSpec => []ConfigSite
<1>1. SiteInit => ConfigSite
  <2>1. CallsInit => NoneLoading BY DEF CallsInit, NoneLoading
  <2>2. QED BY <2>1, ConfigStarts DEF ConfigSite, SiteInit, OfficeInit
<1>2. ConfigSite /\ [SiteNext]_siteVars => ConfigSite'
  <2> SUFFICES ASSUME ConfigSite, [SiteNext]_siteVars PROVE ConfigSite' OBVIOUS
  <2>1. On("configuration")' <=> On("configuration") BY LoadStays DEF On
  <2>2. CASE On("configuration")
    <3>0. CallsInv /\ ConfigInv /\ SeededInv BY <2>2 DEF ConfigSite
    <3>1. CASE ConfigNext
      <4>1. CallsInv' /\ ConfigInv' /\ SeededInv' BY <3>0, <3>1, ConfigStep, CallsKept
      <4>2. QED BY <2>1, <2>2, <4>1 DEF ConfigSite
    <3>2. CASE UNCHANGED <<callVars, configVars>>
      <4>1. UNCHANGED <<load, call, made, settings, strings>> BY <3>2 DEF callVars, configVars
      <4>2. CallsInv' BY <3>0, <4>1 DEF CallsInv
      <4>3. ConfigInv'
        <5>1. ConfigTypeOK' BY <3>0, <4>1 DEF ConfigInv, ConfigTypeOK
        <5>2. \A r \in Requests : call'[r] # None => ConfigCallOK(call[r], made)'
          BY <3>0, <4>1 DEF ConfigInv, ConfigCallOK
        <5>3. QED BY <3>0, <4>1, <5>1, <5>2 DEF ConfigInv
      <4>4. SeededInv' BY <3>0, <4>1 DEF SeededInv, ConfigKnows, Alone, Loaded
      <4>5. QED BY <2>1, <2>2, <4>2, <4>3, <4>4 DEF ConfigSite
    <3>3. QED BY <2>2, <3>1, <3>2, OfficePart
  <2>3. CASE ~On("configuration")
    <3>1. settings' = settings BY <2>3, OfficePart DEF configVars
    <3>2. NoneLoading' BY <2>3, OthersOnly, NoneLoads DEF ConfigSite
    <3>3. QED BY <2>1, <2>3, <3>1, <3>2 DEF ConfigSite
  <2>4. QED BY <2>2, <2>3
<1>3. QED BY <1>1, <1>2, PTL DEF SiteSpec

\* With every file in the table, every bundle reads as its file.
LEMMA BundlesRead ==
    ASSUME \A l \in Languages : Loaded(l)', NEW s \in StringKeys \X Languages,
           Locale[s[2]][s[1]] # None
    PROVE  Bundle(s[2])'[s[1]] = Locale[s[2]][s[1]]
<1> PICK k \in StringKeys, l \in Languages : k = s[1] /\ l = s[2] OBVIOUS
<1>1. strings'[<<k, l>>] # None /\ strings'[<<k, l>>].value = Locale[l][k] BY DEF Loaded
<1>2. QED BY <1>1 DEF Bundle

\* However calls and seedings overlap, a setting that ships with the platform
\* stays, and only a form that names it changes its value; and a seeding that
\* comes to its end while calls do not overlap leaves no setting and no string of
\* its files missing, whatever earlier ones that died left behind.
THEOREM SeedingCompleted == SiteSpec => SeedingCompletes
<1> DEFINE Preserved == \A k \in Keys : settings[k] # None /\ settings[k].system =>
                      /\ settings'[k] # None /\ settings'[k].system
                      /\ settings'[k].value # settings[k].value =>
                            \E r \in Requests : Doing(r, "set") /\ k \in DOMAIN call[r].set
           Complete == Alone => \A r \in Requests : SyncLocale(r) /\ call'[r] = None =>
                          /\ \A k \in SystemKeys : settings'[k] # None
                          /\ \A s \in StringKeys \X Languages :
                                Locale[s[2]][s[1]] # None =>
                                    Bundle(s[2])'[s[1]] = Locale[s[2]][s[1]]
<1>1. ConfigSite /\ [SiteNext]_siteVars => [Preserved /\ Complete]_<<callVars, configVars>>
  <2> SUFFICES ASSUME ConfigSite, [SiteNext]_siteVars, ~UNCHANGED <<callVars, configVars>>
               PROVE  Preserved /\ Complete
    OBVIOUS
  <2>1. CASE On("configuration")
    <3>1. CallsInv /\ ConfigInv /\ SeededInv /\ ConfigNext BY <2>1, OfficePart DEF ConfigSite
    <3>2. Preserved BY <3>1, ConfigStep DEF ShippedStays, Shipped
    <3>3. ASSUME Alone, NEW r \in Requests, SyncLocale(r), call'[r] = None
          PROVE  /\ \A k \in SystemKeys : settings'[k] # None
                 /\ \A l \in Languages : Loaded(l)'
      BY <3>1, <3>3, SyncLocaleKeeps
    <3>4. (\A l \in Languages : Loaded(l)') =>
             \A s \in StringKeys \X Languages : Locale[s[2]][s[1]] # None =>
                Bundle(s[2])'[s[1]] = Locale[s[2]][s[1]]
      BY BundlesRead
    <3>5. Complete BY <3>3, <3>4
    <3>6. QED BY <3>2, <3>5
  <2>2. CASE ~On("configuration")
    <3>1. \A k \in Keys : settings[k] = None BY <2>2 DEF ConfigSite, Nothing
    <3>2. \A r \in Requests : ~SyncLocale(r)
      BY <2>2 DEF ConfigSite, NoneLoading, SyncLocale, Doing
    <3>3. QED BY <3>1, <3>2
  <2>3. QED BY <2>1, <2>2
<1>2. QED BY <1>1, ConfigHolds, PTL DEF SiteSpec, SeedingCompletes

-----------------------------------------------------------------------------
(* The revisions of the database.  The invariant is that the database is    *)
(* sound: its tables are those the revisions so far have made, every row is *)
(* in a table that is there, and what those revisions seed is there.  That  *)
(* a revision keeps it so rests on facts about the chain, found revision by *)
(* revision: a table refers to tables made before it, a downgrade drops     *)
(* what its revision made, and deletes rows no other revision seeds.        *)

\* What revision is where in the chain.
LEMMA Chain ==
    /\ Newest = 29
    /\ Revisions[1] = InitialBaseline /\ Revisions[2] = AddTranslations
    /\ Revisions[3] = AddRoles /\ Revisions[4] = SeedSystemRoles
    /\ Revisions[5] = AddPermissions /\ Revisions[6] = SeedPermissionsAndGrants
    /\ Revisions[7] = AddUsers /\ Revisions[8] = AddRefreshTokens
    /\ Revisions[9] = AddSettings /\ Revisions[10] = AddPasswordResetTokens
    /\ Revisions[11] = AddTokensValidFrom /\ Revisions[12] = AddCategories
    /\ Revisions[13] = AddBlogs /\ Revisions[14] = SeedBlogTaxonomies
    /\ Revisions[15] = AddActivityLogs /\ Revisions[16] = AddMenus
    /\ Revisions[17] = SeedMenuTaxonomy /\ Revisions[18] = AddMasterCruds
    /\ Revisions[19] = SeedMasterCrudPermissions /\ Revisions[20] = AddPages
    /\ Revisions[21] = AddUserDetails /\ Revisions[22] = AddCourses
    /\ Revisions[23] = AddConsultancies /\ Revisions[24] = AddAutomations
    /\ Revisions[25] = AddSubscriptions /\ Revisions[26] = AddCourseContents
    /\ Revisions[27] = AddSupportTickets /\ Revisions[28] = AddContactInquiries
    /\ Revisions[29] = AddNotifications
BY DEF Revisions, Newest

\* The tables a revision makes.
Made(rev) == {rev.tables[i].name : i \in DOMAIN rev.tables}

\* The tables and columns of the revisions up to n.
SchemaAt(n) == UNION {Made(Revisions[i]) \cup Revisions[i].columns : i \in 1..n}

\* The tables that others refer to, or that hold rows of the model, and the rest.
Born == [translations |-> 2, roles |-> 3, permissions |-> 5, role_permissions |-> 5,
         users |-> 7, user_identities |-> 7, user_roles |-> 7, refresh_tokens |-> 8,
         settings |-> 9, password_reset_tokens |-> 10, category_types |-> 12,
         categories |-> 12, blogs |-> 13, blog_tags |-> 13, activity_logs |-> 15,
         menus |-> 16, master_crud_fields |-> 18, master_cruds |-> 18,
         master_crud_field_values |-> 18, pages |-> 20, user_details |-> 21,
         courses |-> 22, consultancies |-> 23, automations |-> 24, subscriptions |-> 25,
         certificate_templates |-> 26, course_contents |-> 26, course_faqs |-> 26,
         job_successes |-> 26, projects |-> 26, reviews |-> 26, support_tickets |-> 27,
         support_ticket_activities |-> 27, support_ticket_assignments |-> 27,
         support_ticket_feedback |-> 27, support_ticket_messages |-> 27,
         support_ticket_status_history |-> 27, support_ticket_attachments |-> 27,
         contact_inquiries |-> 28, notifications |-> 29, notification_recipients |-> 29]

\* The columns of users that come with the settings.
LoginColumns == {"users.google_id", "users.facebook_id",
                 "users.social_provider", "users.is_social_login"}

\* The revision that makes a table or a column.
MadeBy(t) == IF t \in LoginColumns THEN 9
             ELSE IF t = "users.tokens_valid_from" THEN 11 ELSE Born[t]

\* The tables a revision seeds, those that have rows of the model, and those
\* that another table refers to.
SeedTables == {"roles", "permissions", "settings", "category_types", "categories"}
RowTables == SeedTables \cup {"blogs", "courses", "support_tickets"}
Referenced == {"roles", "permissions", "users", "category_types", "categories", "courses"}

\* The revision that brought a resource's permissions, a taxonomy, a setting.
Owner == [blog |-> 14, activity_log |-> 15, menu |-> 17, master_crud |-> 19,
          master_crud_field |-> 19, consultancy |-> 23, automation |-> 24,
          subscription |-> 25, ticket |-> 27, inquiry |-> 28]

Taxonomy == [blog_category |-> 14, blog_tag |-> 14, menu_category |-> 17, support_ticket |-> 27]

PermissionBy(res, key) ==
    IF res \in DOMAIN Owner THEN Owner[res]
    ELSE IF res = "notification" /\ key \in {"create", "update", "delete"} THEN 29 ELSE 6

SettingBy(key) ==
    IF key \in FirstSettings THEN 9
    ELSE IF key = "password_reset_path" THEN 10
    ELSE IF key \in {"newsletter_confirm_path", "newsletter_unsubscribe_path"} THEN 25
    ELSE IF key \in {"support_ticket_reopen_days", "support_ticket_max_upload_mb",
                     "support_ticket_max_attachments",
                     "support_ticket_allowed_extensions"} THEN 27
    ELSE 28

\* The revision a row is seeded by.
SeededBy(x) ==
    IF x.table = "roles" THEN 4
    ELSE IF x.table = "permissions" THEN PermissionBy(x.of, x.key)
    ELSE IF x.table = "settings" THEN SettingBy(x.key)
    ELSE IF x.table = "category_types" THEN Taxonomy[x.key]
    ELSE 27

\* The tables a table refers to.
Refers(t) == t.restrict \cup t.loose

\* A table finds those it refers to, of an earlier revision or made before it.
TableOK(n, tables, i) ==
    LET t == tables[i]
    IN  /\ i \in Nat \ {0} /\ MadeBy(t.name) = n
        /\ t.restrict \cap {"roles", "permissions", "settings"} = {}
        /\ "category_types" \in t.restrict => t.name = "categories"
        /\ "categories" \in t.restrict =>
              t.name \notin {"roles", "permissions", "settings", "category_types"}
        /\ \A u \in Refers(t) : \/ u \in Referenced /\ MadeBy(u) < n
                               \/ \E j \in DOMAIN tables : j <= i /\ u = tables[j].name

TablesOK(n, tables) == \A i \in DOMAIN tables : TableOK(n, tables, i)

\* A revision drops what it made, a table that refers to another before that.
DropsOK(tables, drops) ==
    /\ \A i \in DOMAIN drops : i \in Nat \ {0}
    /\ {drops[i] : i \in DOMAIN drops} = {tables[i].name : i \in DOMAIN tables}
    /\ \A i \in DOMAIN drops, k \in DOMAIN tables :
          drops[i] \in Refers(tables[k]) =>
              \E j \in DOMAIN drops : j <= i /\ tables[k].name = drops[j]

\* A column is added by one revision.
ColumnsOK(n, columns) == \A u \in columns : MadeBy(u) = n /\ u \notin RowTables

\* A row is seeded by one revision, into a table that is there.
SeedOK(n, x) ==
    /\ x.table \in SeedTables /\ MadeBy(x.table) <= n /\ SeededBy(x) = n
    /\ x.table = "category_types" => x.key = x.name /\ x.key \in DOMAIN Taxonomy
    /\ x.table = "categories" => x.of = "support_ticket" /\ x.key = "general-inquiry"

SeedsOK(n, seeds) == \A x \in seeds : SeedOK(n, x)

\* What a downgrade deletes is of the revision it reverts.
UnseedsOK(n, rev) ==
    /\ \A x \in rev.exactly : x \in rev.seeds /\ x.table \in {"settings", "permissions"}
    /\ \A res \in rev.resources : res \in DOMAIN Owner /\ Owner[res] = n
    /\ rev.system => n = 6
    /\ rev.slugs # {} => n = 4
    /\ \A t \in rev.emptied \cup rev.cleared : t \in DOMAIN Taxonomy /\ Taxonomy[t] = n
    /\ rev.cleared = IF n = 27 THEN {"support_ticket"} ELSE {}

\* All that the invariant needs of a revision.
RevisionOK(n, rev) ==
    /\ TablesOK(n, rev.tables) /\ DropsOK(rev.tables, rev.drops) /\ ColumnsOK(n, rev.columns)
    /\ SeedsOK(n, rev.seeds) /\ UnseedsOK(n, rev)

\* Which revision made which table.
LEMMA Makers ==
    /\ MadeBy("translations") = 2
    /\ MadeBy("roles") = 3
    /\ MadeBy("permissions") = 5
    /\ MadeBy("role_permissions") = 5
    /\ MadeBy("users") = 7
    /\ MadeBy("user_identities") = 7
    /\ MadeBy("user_roles") = 7
    /\ MadeBy("refresh_tokens") = 8
    /\ MadeBy("settings") = 9
    /\ MadeBy("password_reset_tokens") = 10
    /\ MadeBy("category_types") = 12
    /\ MadeBy("categories") = 12
    /\ MadeBy("blogs") = 13
    /\ MadeBy("blog_tags") = 13
    /\ MadeBy("activity_logs") = 15
    /\ MadeBy("menus") = 16
    /\ MadeBy("master_crud_fields") = 18
    /\ MadeBy("master_cruds") = 18
    /\ MadeBy("master_crud_field_values") = 18
    /\ MadeBy("pages") = 20
    /\ MadeBy("user_details") = 21
    /\ MadeBy("courses") = 22
    /\ MadeBy("consultancies") = 23
    /\ MadeBy("automations") = 24
    /\ MadeBy("subscriptions") = 25
    /\ MadeBy("certificate_templates") = 26
    /\ MadeBy("course_contents") = 26
    /\ MadeBy("course_faqs") = 26
    /\ MadeBy("job_successes") = 26
    /\ MadeBy("projects") = 26
    /\ MadeBy("reviews") = 26
    /\ MadeBy("support_tickets") = 27
    /\ MadeBy("support_ticket_activities") = 27
    /\ MadeBy("support_ticket_assignments") = 27
    /\ MadeBy("support_ticket_feedback") = 27
    /\ MadeBy("support_ticket_messages") = 27
    /\ MadeBy("support_ticket_status_history") = 27
    /\ MadeBy("support_ticket_attachments") = 27
    /\ MadeBy("contact_inquiries") = 28
    /\ MadeBy("notifications") = 29
    /\ MadeBy("notification_recipients") = 29
    /\ \A u \in LoginColumns : MadeBy(u) = 9
    /\ MadeBy("users.tokens_valid_from") = 11
BY DEF MadeBy, Born, LoginColumns

\* The revisions that seed nothing.
LEMMA BareRevisions ==
    /\ RevisionOK(1, InitialBaseline)
    /\ RevisionOK(2, AddTranslations)
    /\ RevisionOK(3, AddRoles)
    /\ RevisionOK(5, AddPermissions)
    /\ RevisionOK(7, AddUsers)
    /\ RevisionOK(8, AddRefreshTokens)
    /\ RevisionOK(11, AddTokensValidFrom)
    /\ RevisionOK(12, AddCategories)
    /\ RevisionOK(13, AddBlogs)
    /\ RevisionOK(16, AddMenus)
    /\ RevisionOK(18, AddMasterCruds)
    /\ RevisionOK(20, AddPages)
    /\ RevisionOK(21, AddUserDetails)
    /\ RevisionOK(22, AddCourses)
    /\ RevisionOK(26, AddCourseContents)
<1>1. RevisionOK(1, InitialBaseline)
  <2>1. TablesOK(1, InitialBaseline.tables) /\ ColumnsOK(1, InitialBaseline.columns)
    BY Makers DEF TablesOK, TableOK, ColumnsOK, Refers, Referenced, RowTables, SeedTables, Table,
       InitialBaseline, Plain
  <2>2. DropsOK(InitialBaseline.tables, InitialBaseline.drops)
    BY DEF DropsOK, Refers, Table, InitialBaseline, Plain
  <2>3. QED BY <2>1, <2>2 DEF InitialBaseline, Plain, RevisionOK, SeedsOK, UnseedsOK
<1>2. RevisionOK(2, AddTranslations)
  <2>1. TablesOK(2, AddTranslations.tables) /\ ColumnsOK(2, AddTranslations.columns)
    BY Makers DEF TablesOK, TableOK, ColumnsOK, Refers, Referenced, RowTables, SeedTables, Table,
       AddTranslations, Plain
  <2>2. DropsOK(AddTranslations.tables, AddTranslations.drops)
    BY DEF DropsOK, Refers, Table, AddTranslations, Plain
  <2>3. QED BY <2>1, <2>2 DEF AddTranslations, Plain, RevisionOK, SeedsOK, UnseedsOK
<1>3. RevisionOK(3, AddRoles)
  <2>1. TablesOK(3, AddRoles.tables) /\ ColumnsOK(3, AddRoles.columns)
    BY Makers DEF TablesOK, TableOK, ColumnsOK, Refers, Referenced, RowTables, SeedTables, Table,
       AddRoles, Plain
  <2>2. DropsOK(AddRoles.tables, AddRoles.drops)
    BY DEF DropsOK, Refers, Table, AddRoles, Plain
  <2>3. QED BY <2>1, <2>2 DEF AddRoles, Plain, RevisionOK, SeedsOK, UnseedsOK
<1>4. RevisionOK(5, AddPermissions)
  <2>1. TablesOK(5, AddPermissions.tables) /\ ColumnsOK(5, AddPermissions.columns)
    BY Makers DEF TablesOK, TableOK, ColumnsOK, Refers, Referenced, RowTables, SeedTables, Table,
       AddPermissions, Plain
  <2>2. DropsOK(AddPermissions.tables, AddPermissions.drops)
    BY DEF DropsOK, Refers, Table, AddPermissions, Plain
  <2>3. QED BY <2>1, <2>2 DEF AddPermissions, Plain, RevisionOK, SeedsOK, UnseedsOK
<1>5. RevisionOK(7, AddUsers)
  <2>1. TablesOK(7, AddUsers.tables) /\ ColumnsOK(7, AddUsers.columns)
    BY Makers DEF TablesOK, TableOK, ColumnsOK, Refers, Referenced, RowTables, SeedTables, Table,
       AddUsers, Plain
  <2>2. DropsOK(AddUsers.tables, AddUsers.drops)
    BY DEF DropsOK, Refers, Table, AddUsers, Plain
  <2>3. QED BY <2>1, <2>2 DEF AddUsers, Plain, RevisionOK, SeedsOK, UnseedsOK
<1>6. RevisionOK(8, AddRefreshTokens)
  <2>1. TablesOK(8, AddRefreshTokens.tables) /\ ColumnsOK(8, AddRefreshTokens.columns)
    BY Makers DEF TablesOK, TableOK, ColumnsOK, Refers, Referenced, RowTables, SeedTables, Table,
       AddRefreshTokens, Plain
  <2>2. DropsOK(AddRefreshTokens.tables, AddRefreshTokens.drops)
    BY DEF DropsOK, Refers, Table, AddRefreshTokens, Plain
  <2>3. QED BY <2>1, <2>2 DEF AddRefreshTokens, Plain, RevisionOK, SeedsOK, UnseedsOK
<1>7. RevisionOK(11, AddTokensValidFrom)
  <2>1. TablesOK(11, AddTokensValidFrom.tables) /\ ColumnsOK(11, AddTokensValidFrom.columns)
    BY Makers DEF TablesOK, TableOK, ColumnsOK, Refers, Referenced, RowTables, SeedTables, Table,
       AddTokensValidFrom, Plain
  <2>2. DropsOK(AddTokensValidFrom.tables, AddTokensValidFrom.drops)
    BY DEF DropsOK, Refers, Table, AddTokensValidFrom, Plain
  <2>3. QED BY <2>1, <2>2 DEF AddTokensValidFrom, Plain, RevisionOK, SeedsOK, UnseedsOK
<1>8. RevisionOK(12, AddCategories)
  <2>1. TablesOK(12, AddCategories.tables) /\ ColumnsOK(12, AddCategories.columns)
    BY Makers DEF TablesOK, TableOK, ColumnsOK, Refers, Referenced, RowTables, SeedTables, Table,
       AddCategories, Plain
  <2>2. DropsOK(AddCategories.tables, AddCategories.drops)
    BY DEF DropsOK, Refers, Table, AddCategories, Plain
  <2>3. QED BY <2>1, <2>2 DEF AddCategories, Plain, RevisionOK, SeedsOK, UnseedsOK
<1>9. RevisionOK(13, AddBlogs)
  <2>1. TablesOK(13, AddBlogs.tables) /\ ColumnsOK(13, AddBlogs.columns)
    BY Makers DEF TablesOK, TableOK, ColumnsOK, Refers, Referenced, RowTables, SeedTables, Table,
       AddBlogs, Plain
  <2>2. DropsOK(AddBlogs.tables, AddBlogs.drops)
    BY DEF DropsOK, Refers, Table, AddBlogs, Plain
  <2>3. QED BY <2>1, <2>2 DEF AddBlogs, Plain, RevisionOK, SeedsOK, UnseedsOK
<1>10. RevisionOK(16, AddMenus)
  <2>1. TablesOK(16, AddMenus.tables) /\ ColumnsOK(16, AddMenus.columns)
    BY Makers DEF TablesOK, TableOK, ColumnsOK, Refers, Referenced, RowTables, SeedTables, Table,
       AddMenus, Plain
  <2>2. DropsOK(AddMenus.tables, AddMenus.drops)
    BY DEF DropsOK, Refers, Table, AddMenus, Plain
  <2>3. QED BY <2>1, <2>2 DEF AddMenus, Plain, RevisionOK, SeedsOK, UnseedsOK
<1>11. RevisionOK(18, AddMasterCruds)
  <2>1. TablesOK(18, AddMasterCruds.tables) /\ ColumnsOK(18, AddMasterCruds.columns)
    BY Makers DEF TablesOK, TableOK, ColumnsOK, Refers, Referenced, RowTables, SeedTables, Table,
       AddMasterCruds, Plain, MasterFields, MasterRecords, MasterValues
  <2>2. DropsOK(AddMasterCruds.tables, AddMasterCruds.drops)
    BY DEF DropsOK, Refers, Table, AddMasterCruds, Plain, MasterFields, MasterRecords, MasterValues
  <2>3. QED BY <2>1, <2>2 DEF AddMasterCruds, Plain, RevisionOK, SeedsOK, UnseedsOK
<1>12. RevisionOK(20, AddPages)
  <2>1. TablesOK(20, AddPages.tables) /\ ColumnsOK(20, AddPages.columns)
    BY Makers DEF TablesOK, TableOK, ColumnsOK, Refers, Referenced, RowTables, SeedTables, Table,
       AddPages, Plain
  <2>2. DropsOK(AddPages.tables, AddPages.drops)
    BY DEF DropsOK, Refers, Table, AddPages, Plain
  <2>3. QED BY <2>1, <2>2 DEF AddPages, Plain, RevisionOK, SeedsOK, UnseedsOK
<1>13. RevisionOK(21, AddUserDetails)
  <2>1. TablesOK(21, AddUserDetails.tables) /\ ColumnsOK(21, AddUserDetails.columns)
    BY Makers DEF TablesOK, TableOK, ColumnsOK, Refers, Referenced, RowTables, SeedTables, Table,
       AddUserDetails, Plain
  <2>2. DropsOK(AddUserDetails.tables, AddUserDetails.drops)
    BY DEF DropsOK, Refers, Table, AddUserDetails, Plain
  <2>3. QED BY <2>1, <2>2 DEF AddUserDetails, Plain, RevisionOK, SeedsOK, UnseedsOK
<1>14. RevisionOK(22, AddCourses)
  <2>1. TablesOK(22, AddCourses.tables) /\ ColumnsOK(22, AddCourses.columns)
    BY Makers DEF TablesOK, TableOK, ColumnsOK, Refers, Referenced, RowTables, SeedTables, Table,
       AddCourses, Plain
  <2>2. DropsOK(AddCourses.tables, AddCourses.drops)
    BY DEF DropsOK, Refers, Table, AddCourses, Plain
  <2>3. QED BY <2>1, <2>2 DEF AddCourses, Plain, RevisionOK, SeedsOK, UnseedsOK
<1>15. RevisionOK(26, AddCourseContents)
  <2>1. TablesOK(26, AddCourseContents.tables) /\ ColumnsOK(26, AddCourseContents.columns)
    BY Makers DEF TablesOK, TableOK, ColumnsOK, Refers, Referenced, RowTables, SeedTables, Table,
       AddCourseContents, Plain, CertificateTemplates, CourseContents, CourseFaqs, JobSuccesses,
           Projects, Reviews
  <2>2. DropsOK(AddCourseContents.tables, AddCourseContents.drops)
    BY DEF DropsOK, Refers, Table, AddCourseContents, Plain, CertificateTemplates,
       CourseContents, CourseFaqs, JobSuccesses,
           Projects, Reviews
  <2>3. QED BY <2>1, <2>2 DEF AddCourseContents, Plain, RevisionOK, SeedsOK, UnseedsOK
<1>16. QED
  BY <1>1, <1>2, <1>3, <1>4, <1>5, <1>6, <1>7, <1>8, <1>9, <1>10, <1>11, <1>12, <1>13, <1>14, <1>15

\* Permissions as seeds.
LEMMA PermissionSeeds ==
    ASSUME NEW n \in Nat, NEW res, NEW actions, 5 <= n,
           \A k \in actions : PermissionBy(res, k) = n
    PROVE  \A x \in Permissions(res, actions) : SeedOK(n, x)
<1> SUFFICES ASSUME NEW k \in actions, NEW x,
                    x = [table |-> "permissions", of |-> res, key |-> k, name |-> k,
                         seeded |-> TRUE]
    PROVE  SeedOK(n, x)
  BY DEF Permissions, Seeded, Row
<1>1. QED BY Makers DEF SeedOK, SeedTables, SeededBy

\* Settings as seeds.
LEMMA SettingSeeds ==
    ASSUME NEW n \in Nat, NEW keys, 9 <= n, \A k \in keys : SettingBy(k) = n
    PROVE  \A x \in Settings(keys) : SeedOK(n, x)
<1> SUFFICES ASSUME NEW k \in keys, NEW x,
                    x = [table |-> "settings", of |-> None, key |-> k, name |-> k, seeded |-> TRUE]
    PROVE  SeedOK(n, x)
  BY DEF Settings, Seeded, Row
<1>1. QED BY Makers DEF SeedOK, SeedTables, SeededBy

\* Types of categories as seeds.
LEMMA TypeSeeds ==
    ASSUME NEW n \in Nat, NEW keys, 12 <= n,
           \A k \in keys : k \in DOMAIN Taxonomy /\ Taxonomy[k] = n
    PROVE  \A x \in Seeded("category_types", None, keys) : SeedOK(n, x)
<1> SUFFICES ASSUME NEW k \in keys, NEW x,
                    x = [table |-> "category_types", of |-> None, key |-> k, name |-> k,
                         seeded |-> TRUE]
    PROVE  SeedOK(n, x)
  BY DEF Seeded, Row
<1>1. QED BY Makers DEF SeedOK, SeedTables, SeededBy

\* What the revisions seed into settings is in settings.
LEMMA SettingRows == ASSUME NEW keys PROVE \A x \in Settings(keys) : x.table = "settings"
BY DEF Settings, Seeded, Row

\* The revisions that seed something, one by one.
LEMMA Revision4 == RevisionOK(4, SeedSystemRoles)
<1>1. TablesOK(4, SeedSystemRoles.tables) /\ ColumnsOK(4, SeedSystemRoles.columns)
  BY Makers DEF TablesOK, TableOK, ColumnsOK, Refers, Referenced, RowTables, SeedTables, Table,
     LoginColumns, SeedSystemRoles, Plain
<1>2. DropsOK(SeedSystemRoles.tables, SeedSystemRoles.drops)
  BY DEF DropsOK, Refers, Table, SeedSystemRoles, Plain
<1>3. SeedsOK(4, SeedSystemRoles.seeds)
  <2>1. SeedsOK(4, Seeded("roles", None, SeededRoles))
    BY Makers DEF SeedsOK, SeedOK, Seeded, Row, SeededBy, SeedTables
  <2>2. QED BY <2>1 DEF SeedsOK, SeedSystemRoles, Plain
<1>4. UnseedsOK(4, SeedSystemRoles)
  BY DEF UnseedsOK, SeedSystemRoles, Plain
<1>5. QED BY <1>1, <1>2, <1>3, <1>4 DEF RevisionOK

\* The permissions of the first thirteen resources.
LEMMA Revision6 == RevisionOK(6, SeedPermissionsAndGrants)
<1>1. SeedsOK(6, OriginalPermissions)
  <2>1. ASSUME NEW res \in DOMAIN SystemPermissions
        PROVE  SeedsOK(6, Permissions(res, SystemPermissions[res]))
    BY PermissionSeeds DEF SeedsOK, PermissionBy, Owner, SystemPermissions, View
  <2>2. QED BY <2>1 DEF SeedsOK, OriginalPermissions
<1>2. QED
  BY <1>1 DEF SeedPermissionsAndGrants, Plain, RevisionOK, TablesOK, DropsOK, ColumnsOK, UnseedsOK

\* The settings of social sign-in.
LEMMA Revision9 == RevisionOK(9, AddSettings)
<1>1. TablesOK(9, AddSettings.tables) /\ ColumnsOK(9, AddSettings.columns)
  BY Makers DEF TablesOK, TableOK, ColumnsOK, Refers, Referenced, RowTables, SeedTables, Table,
     LoginColumns, AddSettings, Plain
<1>2. DropsOK(AddSettings.tables, AddSettings.drops)
  BY DEF DropsOK, Refers, Table, AddSettings, Plain
<1>3. SeedsOK(9, AddSettings.seeds)
  <2>1. SeedsOK(9, Settings(FirstSettings))
    BY SettingSeeds DEF SeedsOK, SettingBy, FirstSettings
  <2>2. QED BY <2>1 DEF SeedsOK, AddSettings, Plain
<1>4. UnseedsOK(9, AddSettings)
  BY DEF UnseedsOK, AddSettings, Plain
<1>5. QED BY <1>1, <1>2, <1>3, <1>4 DEF RevisionOK

\* The path of the password reset page.
LEMMA Revision10 == RevisionOK(10, AddPasswordResetTokens)
<1>1. TablesOK(10, AddPasswordResetTokens.tables) /\ ColumnsOK(10, AddPasswordResetTokens.columns)
  BY Makers DEF TablesOK, TableOK, ColumnsOK, Refers, Referenced, RowTables, SeedTables, Table,
     LoginColumns, AddPasswordResetTokens, Plain
<1>2. DropsOK(AddPasswordResetTokens.tables, AddPasswordResetTokens.drops)
  BY DEF DropsOK, Refers, Table, AddPasswordResetTokens, Plain
<1>3. SeedsOK(10, AddPasswordResetTokens.seeds)
  <2>1. SeedsOK(10, Settings({"password_reset_path"}))
    BY SettingSeeds DEF SeedsOK, SettingBy, FirstSettings
  <2>2. QED BY <2>1 DEF SeedsOK, AddPasswordResetTokens, Plain
<1>4. UnseedsOK(10, AddPasswordResetTokens)
  BY SettingRows DEF UnseedsOK, AddPasswordResetTokens, Plain
<1>5. QED BY <1>1, <1>2, <1>3, <1>4 DEF RevisionOK

\* The taxonomies of the blog.
LEMMA Revision14 == RevisionOK(14, SeedBlogTaxonomies)
<1>1. TablesOK(14, SeedBlogTaxonomies.tables) /\ ColumnsOK(14, SeedBlogTaxonomies.columns)
  BY Makers DEF TablesOK, TableOK, ColumnsOK, Refers, Referenced, RowTables, SeedTables, Table,
     LoginColumns, SeedBlogTaxonomies, Plain
<1>2. DropsOK(SeedBlogTaxonomies.tables, SeedBlogTaxonomies.drops)
  BY DEF DropsOK, Refers, Table, SeedBlogTaxonomies, Plain
<1>3. SeedsOK(14, SeedBlogTaxonomies.seeds)
  <2>1. SeedsOK(14, Seeded("category_types", None, BlogTypes))
    BY TypeSeeds DEF SeedsOK, Taxonomy, BlogTypes
  <2>2. SeedsOK(14, Permissions("blog", View \cup {"publish"}))
    BY PermissionSeeds DEF SeedsOK, PermissionBy, Owner, View
  <2>3. QED BY <2>1, <2>2 DEF SeedsOK, SeedBlogTaxonomies, Plain
<1>4. UnseedsOK(14, SeedBlogTaxonomies)
  BY DEF UnseedsOK, Owner, Taxonomy, BlogTypes, SeedBlogTaxonomies, Plain
<1>5. QED BY <1>1, <1>2, <1>3, <1>4 DEF RevisionOK

\* The permissions of the activity log.
LEMMA Revision15 == RevisionOK(15, AddActivityLogs)
<1>1. TablesOK(15, AddActivityLogs.tables) /\ ColumnsOK(15, AddActivityLogs.columns)
  BY Makers DEF TablesOK, TableOK, ColumnsOK, Refers, Referenced, RowTables, SeedTables, Table,
     LoginColumns, AddActivityLogs, Plain
<1>2. DropsOK(AddActivityLogs.tables, AddActivityLogs.drops)
  BY DEF DropsOK, Refers, Table, AddActivityLogs, Plain
<1>3. SeedsOK(15, AddActivityLogs.seeds)
  <2>1. SeedsOK(15, Permissions("activity_log", {"view", "export"}))
    BY PermissionSeeds DEF SeedsOK, PermissionBy, Owner
  <2>2. QED BY <2>1 DEF SeedsOK, AddActivityLogs, Plain
<1>4. UnseedsOK(15, AddActivityLogs)
  BY DEF UnseedsOK, Owner, AddActivityLogs, Plain
<1>5. QED BY <1>1, <1>2, <1>3, <1>4 DEF RevisionOK

\* The taxonomy of the menus.
LEMMA Revision17 == RevisionOK(17, SeedMenuTaxonomy)
<1>1. TablesOK(17, SeedMenuTaxonomy.tables) /\ ColumnsOK(17, SeedMenuTaxonomy.columns)
  BY Makers DEF TablesOK, TableOK, ColumnsOK, Refers, Referenced, RowTables, SeedTables, Table,
     LoginColumns, SeedMenuTaxonomy, Plain
<1>2. DropsOK(SeedMenuTaxonomy.tables, SeedMenuTaxonomy.drops)
  BY DEF DropsOK, Refers, Table, SeedMenuTaxonomy, Plain
<1>3. SeedsOK(17, SeedMenuTaxonomy.seeds)
  <2>1. SeedsOK(17, Seeded("category_types", None, {"menu_category"}))
    BY TypeSeeds DEF SeedsOK, Taxonomy
  <2>2. SeedsOK(17, Permissions("menu", View))
    BY PermissionSeeds DEF SeedsOK, PermissionBy, Owner, View
  <2>3. QED BY <2>1, <2>2 DEF SeedsOK, SeedMenuTaxonomy, Plain
<1>4. UnseedsOK(17, SeedMenuTaxonomy)
  BY DEF UnseedsOK, Owner, Taxonomy, SeedMenuTaxonomy, Plain
<1>5. QED BY <1>1, <1>2, <1>3, <1>4 DEF RevisionOK

\* The permissions of master data.
LEMMA Revision19 == RevisionOK(19, SeedMasterCrudPermissions)
<1>1. /\ TablesOK(19, SeedMasterCrudPermissions.tables)
      /\ ColumnsOK(19, SeedMasterCrudPermissions.columns)
  BY Makers DEF TablesOK, TableOK, ColumnsOK, Refers, Referenced, RowTables, SeedTables, Table,
     LoginColumns, SeedMasterCrudPermissions, Plain
<1>2. DropsOK(SeedMasterCrudPermissions.tables, SeedMasterCrudPermissions.drops)
  BY DEF DropsOK, Refers, Table, SeedMasterCrudPermissions, Plain
<1>3. SeedsOK(19, SeedMasterCrudPermissions.seeds)
  <2>1. SeedsOK(19, Permissions("master_crud", View))
    BY PermissionSeeds DEF SeedsOK, PermissionBy, Owner, View
  <2>2. SeedsOK(19, Permissions("master_crud_field", View))
    BY PermissionSeeds DEF SeedsOK, PermissionBy, Owner, View
  <2>3. QED BY <2>1, <2>2 DEF SeedsOK, SeedMasterCrudPermissions, Plain
<1>4. UnseedsOK(19, SeedMasterCrudPermissions)
  BY DEF UnseedsOK, Owner, SeedMasterCrudPermissions, Plain
<1>5. QED BY <1>1, <1>2, <1>3, <1>4 DEF RevisionOK

\* The permissions of consultancies.
LEMMA Revision23 == RevisionOK(23, AddConsultancies)
<1>1. TablesOK(23, AddConsultancies.tables) /\ ColumnsOK(23, AddConsultancies.columns)
  BY Makers DEF TablesOK, TableOK, ColumnsOK, Refers, Referenced, RowTables, SeedTables, Table,
     LoginColumns, AddConsultancies, Plain
<1>2. DropsOK(AddConsultancies.tables, AddConsultancies.drops)
  BY DEF DropsOK, Refers, Table, AddConsultancies, Plain
<1>3. SeedsOK(23, AddConsultancies.seeds)
  <2>1. SeedsOK(23, Permissions("consultancy", View))
    BY PermissionSeeds DEF SeedsOK, PermissionBy, Owner, View
  <2>2. QED BY <2>1 DEF SeedsOK, AddConsultancies, Plain
<1>4. UnseedsOK(23, AddConsultancies)
  BY DEF UnseedsOK, Owner, AddConsultancies, Plain
<1>5. QED BY <1>1, <1>2, <1>3, <1>4 DEF RevisionOK

\* The permissions of automations.
LEMMA Revision24 == RevisionOK(24, AddAutomations)
<1>1. TablesOK(24, AddAutomations.tables) /\ ColumnsOK(24, AddAutomations.columns)
  BY Makers DEF TablesOK, TableOK, ColumnsOK, Refers, Referenced, RowTables, SeedTables, Table,
     LoginColumns, AddAutomations, Plain
<1>2. DropsOK(AddAutomations.tables, AddAutomations.drops)
  BY DEF DropsOK, Refers, Table, AddAutomations, Plain
<1>3. SeedsOK(24, AddAutomations.seeds)
  <2>1. SeedsOK(24, Permissions("automation", View \cup {"publish"}))
    BY PermissionSeeds DEF SeedsOK, PermissionBy, Owner, View
  <2>2. QED BY <2>1 DEF SeedsOK, AddAutomations, Plain
<1>4. UnseedsOK(24, AddAutomations)
  BY DEF UnseedsOK, Owner, AddAutomations, Plain
<1>5. QED BY <1>1, <1>2, <1>3, <1>4 DEF RevisionOK

\* The permissions and the settings of the newsletter.
LEMMA Revision25 == RevisionOK(25, AddSubscriptions)
<1>1. TablesOK(25, AddSubscriptions.tables) /\ ColumnsOK(25, AddSubscriptions.columns)
  BY Makers DEF TablesOK, TableOK, ColumnsOK, Refers, Referenced, RowTables, SeedTables, Table,
     LoginColumns, AddSubscriptions, Plain
<1>2. DropsOK(AddSubscriptions.tables, AddSubscriptions.drops)
  BY DEF DropsOK, Refers, Table, AddSubscriptions, Plain
<1>3. SeedsOK(25, AddSubscriptions.seeds)
  <2>1. SeedsOK(25, Permissions("subscription", View))
    BY PermissionSeeds DEF SeedsOK, PermissionBy, Owner, View
  <2>2. SeedsOK(25, NewsletterSettings)
    BY SettingSeeds DEF SeedsOK, SettingBy, FirstSettings, NewsletterSettings
  <2>3. QED BY <2>1, <2>2 DEF SeedsOK, AddSubscriptions, Plain
<1>4. UnseedsOK(25, AddSubscriptions)
  BY SettingRows DEF UnseedsOK, Owner, NewsletterSettings, AddSubscriptions, Plain
<1>5. QED BY <1>1, <1>2, <1>3, <1>4 DEF RevisionOK

\* The support desk: permissions, settings, a taxonomy and its topics.
LEMMA Revision27 == RevisionOK(27, AddSupportTickets)
<1>1. TablesOK(27, AddSupportTickets.tables) /\ ColumnsOK(27, AddSupportTickets.columns)
  BY Makers DEF TablesOK, TableOK, ColumnsOK, Refers, Referenced, RowTables, SeedTables, Table,
     LoginColumns, AddSupportTickets, Plain, SupportTables, TicketsTable, OfTicket,
     TicketActivities, TicketAssignments, TicketFeedback, TicketMessages, TicketHistory,
     TicketFiles, SupportDrops
<1>2. DropsOK(AddSupportTickets.tables, AddSupportTickets.drops)
  BY DEF DropsOK, Refers, Table, AddSupportTickets, Plain, SupportTables, TicketsTable, OfTicket,
     TicketActivities, TicketAssignments, TicketFeedback, TicketMessages, TicketHistory,
     TicketFiles, SupportDrops
<1>3. SeedsOK(27, AddSupportTickets.seeds)
  <2>1. SeedsOK(27, Permissions("ticket", SupportActions))
    BY PermissionSeeds DEF SeedsOK, PermissionBy, Owner, SupportActions
  <2>2. SeedsOK(27, SupportSettings)
    BY SettingSeeds DEF SeedsOK, SettingBy, FirstSettings, SupportSettings
  <2>3. SeedsOK(27, Seeded("category_types", None, {"support_ticket"}))
    BY TypeSeeds DEF SeedsOK, Taxonomy
  <2>4. SeedsOK(27, Seeded("categories", "support_ticket", {"general-inquiry"}))
    BY Makers DEF SeedsOK, SeedOK, Seeded, Row, SeededBy, SeedTables
  <2>5. QED BY <2>1, <2>2, <2>3, <2>4 DEF SeedsOK, AddSupportTickets, Plain, SupportSeeds
<1>4. UnseedsOK(27, AddSupportTickets)
  BY SettingRows DEF UnseedsOK, Owner, Taxonomy, SupportSettings, SupportSeeds, SupportUnseed,
        AddSupportTickets, Plain
<1>5. QED BY <1>1, <1>2, <1>3, <1>4 DEF RevisionOK

\* The permissions and the settings of the contact form.
LEMMA Revision28 == RevisionOK(28, AddContactInquiries)
<1>1. TablesOK(28, AddContactInquiries.tables) /\ ColumnsOK(28, AddContactInquiries.columns)
  BY Makers DEF TablesOK, TableOK, ColumnsOK, Refers, Referenced, RowTables, SeedTables, Table,
     LoginColumns, AddContactInquiries, Plain
<1>2. DropsOK(AddContactInquiries.tables, AddContactInquiries.drops)
  BY DEF DropsOK, Refers, Table, AddContactInquiries, Plain
<1>3. SeedsOK(28, AddContactInquiries.seeds)
  <2>1. SeedsOK(28, InquirySettings)
    BY SettingSeeds DEF SeedsOK, SettingBy, FirstSettings, InquirySettings
  <2>2. SeedsOK(28, Permissions("inquiry", {"view", "update", "delete", "export"}))
    BY PermissionSeeds DEF SeedsOK, PermissionBy, Owner
  <2>3. QED BY <2>1, <2>2 DEF SeedsOK, AddContactInquiries, Plain
<1>4. UnseedsOK(28, AddContactInquiries)
  BY SettingRows DEF UnseedsOK, Owner, InquirySettings, AddContactInquiries, Plain
<1>5. QED BY <1>1, <1>2, <1>3, <1>4 DEF RevisionOK

\* The permissions of announcements that an earlier revision had not brought.
LEMMA Revision29 == RevisionOK(29, AddNotifications)
<1>1. TablesOK(29, AddNotifications.tables) /\ ColumnsOK(29, AddNotifications.columns)
  BY Makers DEF TablesOK, TableOK, ColumnsOK, Refers, Referenced, RowTables, SeedTables, Table,
     LoginColumns, AddNotifications, Plain, NotificationsTable, RecipientsTable
<1>2. DropsOK(AddNotifications.tables, AddNotifications.drops)
  BY DEF DropsOK, Refers, Table, AddNotifications, Plain, NotificationsTable, RecipientsTable
<1>3. SeedsOK(29, AddNotifications.seeds)
  <2>1. SeedsOK(29, NotificationPermissions)
    BY PermissionSeeds DEF SeedsOK, PermissionBy, Owner, NotificationPermissions
  <2>2. QED BY <2>1 DEF SeedsOK, AddNotifications, Plain
<1>4. UnseedsOK(29, AddNotifications)
  BY DEF UnseedsOK, NotificationPermissions, NotificationUnseed, Permissions, Seeded, Row,
         AddNotifications, Plain
<1>5. QED BY <1>1, <1>2, <1>3, <1>4 DEF RevisionOK

\* So every revision is as the invariant needs it.
LEMMA RevisionsOK == \A n \in 1..Newest : RevisionOK(n, Revisions[n])
BY Chain, BareRevisions, Revision4, Revision6, Revision9, Revision10, Revision14, Revision15,
   Revision17, Revision19, Revision23, Revision24, Revision25, Revision27, Revision28, Revision29

\* What there is after the first n revisions.
LEMMA MadeThere ==
    ASSUME NEW rev, NEW t
    PROVE  t \in Made(rev) <=> \E i \in DOMAIN rev.tables : t = rev.tables[i].name
BY DEF Made

\* A table or a column is there when a revision so far made it.
LEMMA ThereAt ==
    ASSUME NEW n, NEW t
    PROVE  t \in SchemaAt(n) <=>
               \E i \in 1..n : t \in Made(Revisions[i]) \cup Revisions[i].columns
BY DEF SchemaAt

\* The revision that makes a table is the one it is known by.
LEMMA MadeInTurn ==
    ASSUME NEW n \in 1..Newest, NEW t \in Made(Revisions[n]) \cup Revisions[n].columns
    PROVE  MadeBy(t) = n
<1>1. RevisionOK(n, Revisions[n]) BY RevisionsOK
<1>2. CASE t \in Revisions[n].columns BY <1>1, <1>2 DEF RevisionOK, ColumnsOK
<1>3. CASE t \in Made(Revisions[n])
  <2>1. PICK i \in DOMAIN Revisions[n].tables : t = Revisions[n].tables[i].name
    BY <1>3, MadeThere
  <2>2. TableOK(n, Revisions[n].tables, i) BY <1>1 DEF RevisionOK, TablesOK
  <2>3. QED BY <2>1, <2>2 DEF TableOK
<1>4. QED BY <1>2, <1>3

\* What is there was made by then.
LEMMA ThereByThen ==
    ASSUME NEW n \in 0..Newest, NEW t \in SchemaAt(n)
    PROVE  MadeBy(t) \in 1..n
<1>1. PICK i \in 1..n : t \in Made(Revisions[i]) \cup Revisions[i].columns BY ThereAt
<1>2. i \in 1..Newest BY Chain
<1>3. QED BY <1>1, <1>2, MadeInTurn

\* A revision adds what it makes and nothing that was there.
LEMMA SchemaGrows ==
    ASSUME NEW n \in 0..Newest, n < Newest
    PROVE  LET new == Made(Revisions[n + 1]) \cup Revisions[n + 1].columns
           IN  /\ SchemaAt(n + 1) = SchemaAt(n) \cup new
               /\ SchemaAt(n) = SchemaAt(n + 1) \ new
<1> DEFINE new == Made(Revisions[n + 1]) \cup Revisions[n + 1].columns
<1>1. n + 1 \in 1..Newest /\ n \in Nat BY Chain
<1>2. ASSUME NEW t PROVE t \in SchemaAt(n + 1) <=> t \in SchemaAt(n) \cup new
  <2>1. \A i : i \in 1..(n + 1) <=> i \in 1..n \/ i = n + 1 BY <1>1
  <2>2. QED BY <2>1, ThereAt
<1>3. ASSUME NEW t \in SchemaAt(n), t \in new PROVE FALSE
  <2>1. MadeBy(t) = n + 1 BY <1>1, <1>3, MadeInTurn
  <2>2. MadeBy(t) \in 1..n BY ThereByThen
  <2>3. QED BY <1>1, <2>1, <2>2
<1> HIDE DEF new
<1>4. SchemaAt(n + 1) = SchemaAt(n) \cup new BY <1>2
<1>5. QED BY <1>3, <1>4 DEF new

\* The tables that others refer to are there.
LEMMA BaseThere ==
    ASSUME NEW n \in 0..Newest, NEW u \in Referenced \cup SeedTables, MadeBy(u) <= n
    PROVE  u \in SchemaAt(n)
<1>1. MadeBy(u) \in 1..Newest BY Makers, Chain DEF Referenced, SeedTables
<1>2. u \in Made(Revisions[MadeBy(u)])
  <2>1. "roles" \in Made(Revisions[3])
    <3>1. AddRoles.tables[1].name = "roles" /\ 1 \in DOMAIN AddRoles.tables
      BY DEF AddRoles, Plain, Table
    <3>2. QED BY <3>1, Chain, MadeThere
  <2>2. "permissions" \in Made(Revisions[5])
    <3>1. AddPermissions.tables[1].name = "permissions" /\ 1 \in DOMAIN AddPermissions.tables
      BY DEF AddPermissions, Plain, Table
    <3>2. QED BY <3>1, Chain, MadeThere
  <2>3. "users" \in Made(Revisions[7])
    <3>1. AddUsers.tables[1].name = "users" /\ 1 \in DOMAIN AddUsers.tables
      BY DEF AddUsers, Plain, Table
    <3>2. QED BY <3>1, Chain, MadeThere
  <2>4. "settings" \in Made(Revisions[9])
    <3>1. AddSettings.tables[1].name = "settings" /\ 1 \in DOMAIN AddSettings.tables
      BY DEF AddSettings, Plain, Table
    <3>2. QED BY <3>1, Chain, MadeThere
  <2>5. "category_types" \in Made(Revisions[12]) /\ "categories" \in Made(Revisions[12])
    <3>1. /\ AddCategories.tables[1].name = "category_types" /\ 1 \in DOMAIN AddCategories.tables
          /\ AddCategories.tables[2].name = "categories" /\ 2 \in DOMAIN AddCategories.tables
      BY DEF AddCategories, Plain, Table
    <3>2. QED BY <3>1, Chain, MadeThere
  <2>6. "courses" \in Made(Revisions[22])
    <3>1. AddCourses.tables[1].name = "courses" /\ 1 \in DOMAIN AddCourses.tables
      BY DEF AddCourses, Plain, Table
    <3>2. QED BY <3>1, Chain, MadeThere
  <2>7. QED BY <2>1, <2>2, <2>3, <2>4, <2>5, <2>6, Makers DEF Referenced, SeedTables
<1>3. MadeBy(u) \in 1..n BY <1>1, Chain
<1>4. QED BY <1>2, <1>3, ThereAt

\* Every table a revision makes finds those its keys refer to.
LEMMA AllCreatable ==
    ASSUME NEW n \in 0..Newest, n < Newest, NEW db, db.schema = SchemaAt(n)
    PROVE  Creatable(Revisions[n + 1], db)
<1> DEFINE rev == Revisions[n + 1]
<1>1. n + 1 \in 1..Newest /\ n \in Nat BY Chain
<1>2. RevisionOK(n + 1, rev) BY <1>1, RevisionsOK
<1>3. ASSUME NEW i \in DOMAIN rev.tables, NEW u \in Refers(rev.tables[i])
      PROVE  u \in db.schema \/ \E j \in DOMAIN rev.tables : j <= i /\ u = rev.tables[j].name
  <2>1. TableOK(n + 1, rev.tables, i) BY <1>2 DEF RevisionOK, TablesOK
  <2>2. CASE u \in Referenced /\ MadeBy(u) < n + 1
    <3>1. MadeBy(u) <= n BY <1>1, <2>2, Makers DEF Referenced
    <3>2. QED BY <2>2, <3>1, BaseThere
  <2>3. QED BY <2>1, <2>2 DEF TableOK
<1>4. \A j \in DOMAIN rev.tables : j \in Nat \ {0}
  BY <1>2 DEF RevisionOK, TablesOK, TableOK
<1>5. ASSUME NEW i \in DOMAIN rev.tables
      PROVE  Refers(rev.tables[i]) \subseteq db.schema \cup {rev.tables[j].name : j \in 1..i}
  <2>1. \A j \in DOMAIN rev.tables : j <= i => j \in 1..i BY <1>4
  <2>2. QED BY <1>3, <2>1
<1>6. QED BY <1>5 DEF Creatable, Refers

\* A key refers to a table of an earlier revision, or of its own.
LEMMA KeyPointsBack ==
    ASSUME NEW t, NEW u, <<t, u>> \in References
    PROVE  \E n \in 1..Newest : \E k \in DOMAIN Revisions[n].tables :
              /\ Revisions[n].tables[k].name = t /\ u \in Refers(Revisions[n].tables[k])
              /\ MadeBy(t) = n /\ MadeBy(u) <= n
<1>1. PICK s \in TableSet : s.name = t /\ u \in Refers(s) BY DEF References, Refers
<1>2. PICK n \in 1..Newest : s \in {Revisions[n].tables[k] : k \in DOMAIN Revisions[n].tables}
  BY <1>1 DEF TableSet
<1>2a. PICK k \in DOMAIN Revisions[n].tables : s = Revisions[n].tables[k] BY <1>2
<1>3. RevisionOK(n, Revisions[n]) /\ n \in Nat BY RevisionsOK
<1>4. TableOK(n, Revisions[n].tables, k) BY <1>3 DEF RevisionOK, TablesOK
<1>5. MadeBy(t) = n BY <1>1, <1>2a, <1>4 DEF TableOK
<1>6. CASE u \in Referenced /\ MadeBy(u) < n
  <2>1. MadeBy(u) \in Nat BY <1>6, Makers DEF Referenced
  <2>2. QED BY <1>1, <1>2a, <1>3, <1>5, <1>6, <2>1
<1>7. ASSUME NEW j \in DOMAIN Revisions[n].tables, u = Revisions[n].tables[j].name
      PROVE  MadeBy(u) = n
  BY <1>3, <1>7 DEF RevisionOK, TablesOK, TableOK
<1>8. QED BY <1>1, <1>2a, <1>3, <1>4, <1>5, <1>6, <1>7 DEF TableOK

\* Every table a revision drops is referred to by none that is left.
LEMMA AllDroppable ==
    ASSUME NEW n \in 1..Newest, NEW db, db.schema = SchemaAt(n)
    PROVE  Droppable(Revisions[n], db)
<1> DEFINE rev == Revisions[n]
<1>1. RevisionOK(n, rev) /\ n \in Nat /\ n \in 0..Newest BY RevisionsOK, Chain
<1>2. DropsOK(rev.tables, rev.drops) BY <1>1 DEF RevisionOK
<1>3. ASSUME NEW i \in DOMAIN rev.drops, NEW t \in db.schema, <<t, rev.drops[i]>> \in References
      PROVE  \E j \in DOMAIN rev.drops : j <= i /\ t = rev.drops[j]
  <2>1. PICK m \in 1..Newest : \E k \in DOMAIN Revisions[m].tables :
              /\ Revisions[m].tables[k].name = t /\ rev.drops[i] \in Refers(Revisions[m].tables[k])
              /\ MadeBy(t) = m /\ MadeBy(rev.drops[i]) <= m
    BY <1>3, KeyPointsBack
  <2>2. MadeBy(t) \in 1..n BY <1>1, ThereByThen
  <2>3. rev.drops[i] \in Made(rev)
    <3>1. rev.drops[i] \in {rev.drops[k] : k \in DOMAIN rev.drops} OBVIOUS
    <3>2. QED BY <1>2, <3>1 DEF DropsOK, Made
  <2>4. MadeBy(rev.drops[i]) = n BY <2>3, MadeInTurn
  <2>5. m = n BY <2>1, <2>2, <2>4
  <2>6. QED BY <2>1, <2>5, <1>2 DEF DropsOK
<1>4. \A j \in DOMAIN rev.drops : j \in Nat \ {0} BY <1>2 DEF DropsOK
<1>5. ASSUME NEW i \in DOMAIN rev.drops, NEW t \in db.schema, t \notin {rev.drops[j] : j \in 1..i}
      PROVE  <<t, rev.drops[i]>> \notin References
  <2>1. \A j \in DOMAIN rev.drops : j <= i => j \in 1..i BY <1>4
  <2>2. QED BY <1>3, <1>5, <2>1
<1>6. QED BY <1>5 DEF Droppable

\* What a revision seeds is among the rows the model gives names to.
LEMMA SeedsAreRows ==
    ASSUME NEW n \in 1..Newest, NEW x \in Revisions[n].seeds
    PROVE  x \in SeedRows /\ SeedOK(n, x)
BY RevisionsOK DEF SeedRows, RevisionOK, SeedsOK

\* What a row of the model looks like.
LEMMA RowShapes ==
    ASSUME NEW y \in SeedRows \cup OwnRows
    PROVE  /\ y.table \in RowTables
           /\ y.table = "category_types" =>
                 y.key = "own" \/ (y.key = y.name /\ y.key \in DOMAIN Taxonomy)
           /\ y.table = "categories" => y.key = "own" \/ y.key = "general-inquiry"
           /\ y.table = "categories" /\ ~(y.key = "own") => y.of = "support_ticket"
<1>1. CASE y \in OwnRows BY <1>1 DEF OwnRows, RowTables, SeedTables
<1>2. CASE y \in SeedRows
  <2>1. PICK n \in 1..Newest : y \in Revisions[n].seeds BY <1>2 DEF SeedRows
  <2>2. SeedOK(n, y) BY <2>1, SeedsAreRows
  <2>3. QED BY <2>2 DEF SeedOK, RowTables
<1>3. QED BY <1>1, <1>2

\* A database is as the first n revisions and the administrators left it.
Sound(n, db) ==
    /\ db \in Databases
    /\ db.schema = SchemaAt(n)
    /\ \A x \in db.stored : x.table \in db.schema
    /\ SeedsThere(n, db.stored)

\* What a revision makes has a name.
LEMMA NamesOfRevisions ==
    ASSUME NEW n \in 1..Newest, NEW t \in Made(Revisions[n]) \cup Revisions[n].columns
    PROVE  t \in Names
<1>1. CASE t \in Revisions[n].columns BY <1>1 DEF Names
<1>2. CASE t \in Made(Revisions[n])
  <2>1. PICK i \in DOMAIN Revisions[n].tables : t = Revisions[n].tables[i].name
    BY <1>2, MadeThere
  <2>2. Revisions[n].tables[i] \in TableSet BY DEF TableSet
  <2>3. QED BY <2>1, <2>2 DEF Names
<1>3. QED BY <1>1, <1>2

\* A revision applies unless a type has a name it seeds, and seeds what it should.
LEMMA Applies ==
    ASSUME NEW n \in 0..Newest, n < Newest, NEW db, Sound(n, db)
    PROVE  /\ Applied(Revisions[n + 1], db) = None <=> NameTaken(Revisions[n + 1], db.stored)
           /\ Applied(Revisions[n + 1], db) # None => Sound(n + 1, Applied(Revisions[n + 1], db))
<1> DEFINE rev == Revisions[n + 1]
           seeded == {x \in rev.seeds : ~Standing(rev, x, db.stored)}
           new == [schema |-> db.schema \cup (Made(rev) \cup rev.columns),
                   stored |-> db.stored \cup seeded]
<1>1. n + 1 \in 1..Newest /\ n \in Nat /\ n + 1 \in 0..Newest BY Chain
<1>2. db # None /\ Creatable(rev, db) BY AllCreatable, MigrationNoneAssumption DEF Sound
<1>3. Applied(rev, db) = IF NameTaken(rev, db.stored) THEN None ELSE new
  BY <1>2 DEF Applied, Made
<1>4. new.schema = SchemaAt(n + 1) BY SchemaGrows DEF Sound
<1> HIDE DEF rev
<1>5. new \in Databases
  <2>1. db.schema \subseteq Names /\ db.stored \subseteq SeedRows \cup OwnRows
    BY DEF Sound, Databases
  <2>2. Made(rev) \cup rev.columns \subseteq Names BY <1>1, NamesOfRevisions DEF rev
  <2>3. seeded \subseteq SeedRows BY <1>1, SeedsAreRows DEF rev
  <2>4. QED BY <2>1, <2>2, <2>3 DEF Databases
<1>6. ASSUME NEW x \in new.stored PROVE x.table \in new.schema
  <2>1. CASE x \in db.stored BY <2>1 DEF Sound
  <2>2. CASE x \in rev.seeds
    <3>1. SeedOK(n + 1, x) BY <1>1, <2>2, SeedsAreRows DEF rev
    <3>2. QED BY <1>1, <1>4, <3>1, BaseThere DEF SeedOK
  <2>3. QED BY <1>6, <2>1, <2>2
<1>7. SeedsThere(n + 1, new.stored)
  <2> SUFFICES ASSUME NEW i \in 1..(n + 1), NEW x \in Revisions[i].seeds
      PROVE  \E y \in new.stored : SameUnique(x, y) \/ SameName(x, y)
    BY <1>1, Chain DEF SeedsThere, Standing
  <2>1. CASE i \in 1..n
    <3>1. \E y \in db.stored : SameUnique(x, y) \/ SameName(x, y)
      BY <2>1 DEF Sound, SeedsThere, Standing
    <3>2. QED BY <3>1
  <2>2. CASE i = n + 1
    <3>1. CASE x \in seeded
      <4>1. SameUnique(x, x) BY DEF SameUnique
      <4>2. QED BY <3>1, <4>1
    <3>2. CASE Standing(rev, x, db.stored) BY <3>2 DEF Standing
    <3>3. QED BY <2>2, <3>1, <3>2 DEF rev
  <2>3. QED BY <1>1, <2>1, <2>2
<1>8. new # None BY <1>5, MigrationNoneAssumption
<1> HIDE DEF new
<1>9. Sound(n + 1, new) BY <1>4, <1>5, <1>6, <1>7 DEF Sound
<1>10. QED BY <1>3, <1>8, <1>9 DEF rev

\* What a RESTRICT key can hold back.
LEMMA RestrictKeys ==
    ASSUME NEW t, NEW u, <<t, u>> \in Restricts
    PROVE  /\ u \notin {"roles", "permissions", "settings"}
           /\ u = "category_types" => t = "categories"
           /\ u = "categories" => t \notin {"roles", "permissions", "settings", "category_types"}
<1>1. PICK s \in TableSet : s.name = t /\ u \in s.restrict BY DEF Restricts
<1>2. PICK n \in 1..Newest : s \in {Revisions[n].tables[k] : k \in DOMAIN Revisions[n].tables}
  BY <1>1 DEF TableSet
<1>3. PICK k \in DOMAIN Revisions[n].tables : s = Revisions[n].tables[k] BY <1>2
<1>4. TableOK(n, Revisions[n].tables, k) BY RevisionsOK DEF RevisionOK, TablesOK
<1>5. QED BY <1>1, <1>3, <1>4 DEF TableOK

\* What a revert deletes is of the revision it reverts.
DoomedBy(n, there, y) ==
    /\ y \in there /\ y.table \in SeedTables
    /\ y.table = "category_types" =>
          /\ y.key \in DOMAIN Taxonomy /\ Taxonomy[y.key] = n
          /\ n = 27 => y.key = "support_ticket"
          /\ n # 27 => Filed(y.key, there) = {}
    /\ y.table = "categories" => n = 27 /\ y.of = "support_ticket"
    /\ y.table = "roles" => n = 4
    /\ y.table = "permissions" =>
          \/ y.of \in DOMAIN Owner /\ Owner[y.of] = n
          \/ n = 6
          \/ \E z \in Revisions[n].seeds : SameUnique(y, z)
    /\ y.table = "settings" => \E z \in Revisions[n].seeds : SameUnique(y, z)

LEMMA Dooms ==
    ASSUME NEW n \in 1..Newest, NEW there, there \subseteq SeedRows \cup OwnRows,
           NEW y \in Unseeded(Revisions[n], there)
    PROVE  DoomedBy(n, there, y)
<1> DEFINE rev == Revisions[n]
<1>1. UnseedsOK(n, rev) BY RevisionsOK DEF RevisionOK
<1> HIDE DEF rev
<1>2. \A t \in rev.cleared : n = 27 /\ t = "support_ticket" BY <1>1 DEF UnseedsOK
<1>3. \A z \in rev.exactly : z \in rev.seeds /\ z.table \in {"settings", "permissions"}
  BY <1>1 DEF UnseedsOK
<1>4. y \in there /\
       \/ y.table = "permissions" /\ (y.of \in rev.resources \/ (rev.system /\ y.seeded))
       \/ y.table = "roles" /\ y.seeded /\ y.key \in rev.slugs
       \/ y.table = "category_types" /\ y.key \in rev.cleared
       \/ y.table = "category_types" /\ y.key \in rev.emptied /\ Filed(y.key, there) = {}
       \/ y.table = "categories" /\ y.of \in rev.cleared
       \/ \E z \in rev.exactly : SameUnique(y, z)
  BY DEF Unseeded, rev
<1>5. n = 27 => \A t \in rev.emptied : t = "support_ticket"
  BY <1>1 DEF UnseedsOK, Taxonomy
<1>6. CASE y.table = "permissions"
  <2>1. y.of \in rev.resources \/ rev.system \/ \E z \in rev.exactly : SameUnique(y, z)
    BY <1>4, <1>6
  <2>2. QED BY <1>1, <1>3, <1>4, <1>6, <2>1 DEF UnseedsOK, SeedTables, DoomedBy, rev
<1>7. CASE y.table = "roles"
  <2>1. rev.slugs # {} BY <1>3, <1>4, <1>7 DEF SameUnique
  <2>2. QED BY <1>1, <1>4, <1>7, <2>1 DEF UnseedsOK, SeedTables, DoomedBy
<1>8. CASE y.table = "category_types"
  <2>1. y.key \in rev.cleared \/ (y.key \in rev.emptied /\ Filed(y.key, there) = {})
    BY <1>3, <1>4, <1>8 DEF SameUnique
  <2>2. QED BY <1>1, <1>2, <1>4, <1>5, <1>8, <2>1 DEF UnseedsOK, SeedTables, DoomedBy
<1>9. CASE y.table = "categories"
  <2>1. y.of \in rev.cleared BY <1>3, <1>4, <1>9 DEF SameUnique
  <2>2. QED BY <1>2, <1>4, <1>9, <2>1 DEF SeedTables, DoomedBy
<1>10. CASE y.table \notin {"permissions", "roles", "category_types", "categories"}
  <2>1. PICK z \in rev.exactly : SameUnique(y, z) BY <1>4, <1>10
  <2>2. QED BY <1>3, <1>4, <1>10, <2>1 DEF SameUnique, SeedTables, DoomedBy, rev
<1>11. QED BY <1>6, <1>7, <1>8, <1>9, <1>10 DEF DoomedBy

\* A row that stands for one seeded earlier is not deleted, nor is its table.
LEMMA SeedsOutlive ==
    ASSUME NEW n \in 1..Newest, NEW there, there \subseteq SeedRows \cup OwnRows,
           NEW i \in 1..(n - 1), NEW x \in Revisions[i].seeds,
           NEW y \in there, SameUnique(x, y) \/ SameName(x, y)
    PROVE  y \notin Unseeded(Revisions[n], there) /\ y.table \notin Dropped(Revisions[n])
<1>1. i \in 1..Newest /\ i < n /\ n \in Nat /\ i \in Nat BY Chain
<1>2. SeedOK(i, x) BY <1>1, SeedsAreRows
<1>3. y.table = x.table BY DEF SameUnique, SameName
<1>4. y.table \notin Dropped(Revisions[n])
  <2>1. SUFFICES ASSUME y.table \in Dropped(Revisions[n]) PROVE FALSE OBVIOUS
  <2>2. DropsOK(Revisions[n].tables, Revisions[n].drops) BY RevisionsOK DEF RevisionOK
  <2>3. y.table \in Made(Revisions[n]) BY <2>1, <2>2 DEF DropsOK, Dropped, Made
  <2>4. MadeBy(y.table) = n BY <2>3, MadeInTurn
  <2>5. QED BY <1>1, <1>2, <1>3, <2>4 DEF SeedOK
<1>5. ASSUME y \in Unseeded(Revisions[n], there) PROVE FALSE
  <2>0. DoomedBy(n, there, y) BY <1>5, Dooms
  <2>1. ASSUME NEW z \in Revisions[n].seeds, SameUnique(x, z) PROVE FALSE
    <3>1. SeededBy(z) = n BY SeedsAreRows DEF SeedOK
    <3>2. SeededBy(x) = SeededBy(z)
      BY <2>1 DEF SameUnique, SeededBy
    <3>3. QED BY <1>1, <1>2, <3>1, <3>2 DEF SeedOK
  <2>2. CASE x.table = "category_types"
    <3>0. SeededBy(x) = Taxonomy[x.key] BY <2>2 DEF SeededBy
    <3>1. Taxonomy[x.key] = i /\ x.key = x.name /\ x.key \in DOMAIN Taxonomy
      BY <1>2, <2>2, <3>0 DEF SeedOK
    <3>a. y.table = "category_types" BY <1>3, <2>2
    <3>2. y.key \in DOMAIN Taxonomy /\ Taxonomy[y.key] = n BY <2>0, <3>a DEF DoomedBy
    <3>3. y.key = "own" \/ y.key = y.name BY <1>3, <2>2, RowShapes
    <3>4. "own" \notin DOMAIN Taxonomy BY DEF Taxonomy
    <3>5. y.key = x.key BY <3>1, <3>2, <3>3, <3>4 DEF SameUnique, SameName
    <3>6. QED BY <1>1, <3>1, <3>2, <3>5
  <2>3. CASE x.table # "category_types"
    <3>1. SameUnique(x, y) BY <2>3 DEF SameName
    <3>2. \A z \in Revisions[n].seeds : ~SameUnique(y, z)
      BY <2>1, <3>1 DEF SameUnique
    <3>3. CASE x.table = "permissions"
      <4>1. y.of = x.of /\ y.key = x.key BY <3>1, <3>3 DEF SameUnique
      <4>2. CASE y.of \in DOMAIN Owner /\ Owner[y.of] = n
        <5>1. SeededBy(x) = n BY <3>3, <4>1, <4>2 DEF SeededBy, PermissionBy
        <5>2. QED BY <1>1, <1>2, <5>1 DEF SeedOK
      <4>3. CASE n = 6
        <5>1. SeededBy(x) >= 6 BY <3>3 DEF SeededBy, PermissionBy, Owner
        <5>2. QED BY <1>1, <1>2, <4>3, <5>1 DEF SeedOK
      <4>4. QED BY <1>3, <2>0, <3>2, <3>3, <4>2, <4>3 DEF DoomedBy
    <3>4. CASE x.table = "roles"
      <4>1. n = 4 /\ SeededBy(x) = 4 BY <1>3, <2>0, <3>4 DEF DoomedBy, SeededBy
      <4>2. QED BY <1>1, <1>2, <4>1 DEF SeedOK
    <3>5. CASE x.table = "settings"
      <4>1. y.table = "settings" BY <1>3, <3>5
      <4>2. \E z \in Revisions[n].seeds : SameUnique(y, z) BY <2>0, <4>1 DEF DoomedBy
      <4>3. QED BY <3>2, <4>2
    <3>6. CASE x.table = "categories"
      <4>0. y.table = "categories" BY <1>3, <3>6
      <4>1. n = 27 BY <2>0, <4>0 DEF DoomedBy
      <4>3. SeededBy(x) = 27 BY <3>6 DEF SeededBy
      <4>2. QED BY <1>1, <1>2, <4>1, <4>3 DEF SeedOK
    <3>7. QED BY <1>2, <2>3, <3>3, <3>4, <3>5, <3>6 DEF SeedOK, SeedTables
  <2>4. QED BY <2>2, <2>3
<1>6. QED BY <1>4, <1>5

\* What a revert keeps of a database.
LeftBy(rev, db) ==
    [schema |-> db.schema \ (Dropped(rev) \cup rev.columns),
     stored |-> {x \in db.stored \ Unseeded(rev, db.stored) : x.table \notin Dropped(rev)}]

\* What makes the revert of a revision fail.
TopicFilled(there) == \E x \in there, y \in Filed("support_ticket", there) : HoldsUp(x, y)

\* A key refuses a DELETE only where something is filed under a topic.
LEMMA Refuses ==
    ASSUME NEW n \in 1..Newest, NEW there, there \subseteq SeedRows \cup OwnRows
    PROVE  LET doomed == Unseeded(Revisions[n], there)
           IN  (\E y \in doomed, x \in there \ doomed : HoldsUp(x, y))
               <=> n = 27 /\ TopicFilled(there)
<1> DEFINE rev == Revisions[n]
           doomed == Unseeded(rev, there)
<1>1. rev.cleared = IF n = 27 THEN {"support_ticket"} ELSE {}
  BY RevisionsOK DEF RevisionOK, UnseedsOK
<1> HIDE DEF rev
<1>2. ASSUME n = 27, NEW x \in Filed("support_ticket", there)
      PROVE  x \in doomed
  BY <1>1, <1>2 DEF Filed, Unseeded
<1>3. ASSUME NEW y \in doomed, NEW x \in there, x \notin doomed, HoldsUp(x, y)
      PROVE  n = 27 /\ TopicFilled(there)
  <2>1. DoomedBy(n, there, y) BY Dooms DEF rev
  <2>2. x.of = y.key /\ <<x.table, y.table>> \in Restricts BY <1>3 DEF HoldsUp
  <2>3. CASE y.table = "category_types"
    <3>1. x.table = "categories" BY <2>2, <2>3, RestrictKeys
    <3>2. x \in Filed(y.key, there) BY <2>2, <3>1 DEF Filed
    <3>3. n = 27 /\ y.key = "support_ticket" BY <2>1, <2>3, <3>2 DEF DoomedBy
    <3>4. QED BY <1>2, <1>3, <3>2, <3>3
  <2>4. CASE y.table = "categories"
    <3>1. n = 27 /\ y.of = "support_ticket" /\ y \in there BY <2>1, <2>4 DEF DoomedBy
    <3>2. y \in Filed("support_ticket", there) BY <2>4, <3>1 DEF Filed
    <3>3. QED BY <1>3, <3>1, <3>2 DEF TopicFilled
  <2>5. y.table \in {"category_types", "categories"}
    BY <2>1, <2>2, RestrictKeys DEF DoomedBy, SeedTables
  <2>6. QED BY <2>3, <2>4, <2>5
<1>4. ASSUME n = 27, NEW x \in there, NEW y \in Filed("support_ticket", there), HoldsUp(x, y)
      PROVE  y \in doomed /\ x \notin doomed
  <2>1. y \in doomed BY <1>2, <1>4
  <2>2. y \in there /\ y.table = "categories" BY DEF Filed
  <2>3. x.of = y.key /\ x.table \notin {"roles", "permissions", "settings", "category_types"}
    BY <1>4, <2>2, RestrictKeys DEF HoldsUp
  <2>4. y.key = "own" \/ y.key = "general-inquiry" BY <2>2, RowShapes
  <2>5. ASSUME x \in doomed PROVE FALSE
    <3>1. DoomedBy(n, there, x) BY <2>5, Dooms DEF rev
    <3>2. x.table = "categories" BY <2>3, <3>1 DEF DoomedBy, SeedTables
    <3>3. x.of = "support_ticket" BY <3>1, <3>2 DEF DoomedBy
    <3>4. QED BY <2>3, <2>4, <3>3
  <2>6. QED BY <2>1, <2>5
<1> HIDE DEF doomed
<1>5. (\E y \in doomed, x \in there \ doomed : HoldsUp(x, y)) => n = 27 /\ TopicFilled(there)
  BY <1>3
<1>6. n = 27 /\ TopicFilled(there) => \E y \in doomed, x \in there \ doomed : HoldsUp(x, y)
  <2> SUFFICES ASSUME n = 27, TopicFilled(there)
               PROVE  \E y \in doomed, x \in there \ doomed : HoldsUp(x, y)
    OBVIOUS
  <2>1. PICK x \in there : \E y \in Filed("support_ticket", there) : HoldsUp(x, y)
    BY DEF TopicFilled
  <2>2. PICK y \in Filed("support_ticket", there) : HoldsUp(x, y) BY <2>1
  <2>3. QED BY <1>4, <2>2
<1>7. QED BY <1>5, <1>6 DEF doomed, rev

\* What is left is as the revisions before it, and the administrators, left it.
LEMMA LeavesSound ==
    ASSUME NEW n \in 1..Newest, NEW db, Sound(n, db)
    PROVE  LET back == LeftBy(Revisions[n], db)
           IN  /\ Sound(n - 1, back)
               /\ "categories" \in back.schema => Vocabulary(back.stored) = Vocabulary(db.stored)
<1> DEFINE rev == Revisions[n]
           there == db.stored
           back == LeftBy(rev, db)
<1>0. n - 1 \in 0..Newest /\ n - 1 < Newest /\ n = (n - 1) + 1 /\ n \in Nat BY Chain
<1>1. there \subseteq SeedRows \cup OwnRows /\ db.schema \subseteq Names BY DEF Sound, Databases
<1>2. RevisionOK(n, rev) BY RevisionsOK
<1>3. Dropped(rev) = Made(rev) BY <1>2 DEF RevisionOK, DropsOK, Dropped, Made
<1>4. back.schema = db.schema \ (Dropped(rev) \cup rev.columns)
      /\ back.stored = {x \in there \ Unseeded(rev, there) : x.table \notin Dropped(rev)}
      /\ back \in [schema : {back.schema}, stored : {back.stored}]
  BY DEF LeftBy
<1>5. back.schema = SchemaAt(n - 1)
  <2>1. SchemaAt(n - 1) = SchemaAt(n) \ (Made(rev) \cup rev.columns) BY <1>0, SchemaGrows
  <2>2. QED BY <1>3, <1>4, <2>1 DEF Sound
<1> HIDE DEF rev, back
<1>6. back \in Databases
  <2>1. back.schema \subseteq Names /\ back.stored \subseteq SeedRows \cup OwnRows BY <1>1, <1>4
  <2>2. QED BY <1>4, <2>1 DEF Databases
<1>7. ASSUME NEW x \in back.stored PROVE x.table \in back.schema
  <2>1. x \in there /\ x.table \notin Dropped(rev) BY <1>4
  <2>2. x.table \in db.schema BY <2>1 DEF Sound
  <2>3. x.table \in RowTables BY <1>1, <2>1, RowShapes
  <2>4. x.table \notin rev.columns BY <1>2, <2>3 DEF RevisionOK, ColumnsOK
  <2>5. QED BY <1>4, <2>1, <2>2, <2>4
<1>8. SeedsThere(n - 1, back.stored)
  <2> SUFFICES ASSUME NEW i \in 1..(n - 1), NEW x \in Revisions[i].seeds
               PROVE  \E y \in back.stored : SameUnique(x, y) \/ SameName(x, y)
    BY <1>0, Chain DEF SeedsThere, Standing
  <2>1. i \in 1..n BY <1>0
  <2>2. \E y \in there : SameUnique(x, y) \/ SameName(x, y) BY <2>1 DEF Sound, SeedsThere, Standing
  <2>3. PICK y \in there : SameUnique(x, y) \/ SameName(x, y) BY <2>2
  <2>4. y \notin Unseeded(rev, there) /\ y.table \notin Dropped(rev)
    BY <1>1, <2>3, SeedsOutlive DEF rev
  <2>5. QED BY <1>4, <2>3, <2>4
<1>9. Sound(n - 1, back) BY <1>5, <1>6, <1>7, <1>8 DEF Sound
<1>10. ASSUME "categories" \in back.schema, NEW x \in Vocabulary(there)
       PROVE  x \in back.stored
  <2>1. x \in there /\ x.table = "categories" /\ x.of # "support_ticket" BY DEF Vocabulary
  <2>2. ASSUME x \in Unseeded(rev, there) PROVE FALSE
    <3>1. DoomedBy(n, there, x) BY <1>1, <2>2, Dooms DEF rev
    <3>2. QED BY <2>1, <3>1 DEF DoomedBy
  <2>3. QED BY <1>4, <1>10, <2>1, <2>2
<1>11. back.stored \subseteq there BY <1>4
<1>12. "categories" \in back.schema => Vocabulary(back.stored) = Vocabulary(there)
  BY <1>10, <1>11 DEF Vocabulary
<1>13. QED BY <1>9, <1>12 DEF back, rev

\* So a revision is reverted unless something is filed under a topic.
LEMMA Reverts ==
    ASSUME NEW n \in 1..Newest, NEW db, Sound(n, db)
    PROVE  LET back == Reverted(Revisions[n], db)
           IN  /\ back = None <=> n = 27 /\ TopicFilled(db.stored)
               /\ back # None => back = LeftBy(Revisions[n], db) /\ Sound(n - 1, back)
<1> DEFINE rev == Revisions[n]
           doomed == Unseeded(rev, db.stored)
<1>1. db \in Databases /\ db.stored \subseteq SeedRows \cup OwnRows BY DEF Sound, Databases
<1>2. db # None /\ Droppable(rev, db) BY <1>1, AllDroppable, MigrationNoneAssumption DEF Sound
<1>3. (\E y \in doomed, x \in db.stored \ doomed : HoldsUp(x, y))
      <=> n = 27 /\ TopicFilled(db.stored)
  BY <1>1, Refuses
<1>4. Reverted(rev, db) = IF n = 27 /\ TopicFilled(db.stored) THEN None ELSE LeftBy(rev, db)
  BY <1>2, <1>3 DEF Reverted, LeftBy
<1>5. Sound(n - 1, LeftBy(rev, db)) BY LeavesSound
<1>6. LeftBy(rev, db) # None BY <1>5, MigrationNoneAssumption DEF Sound
<1> HIDE DEF rev
<1>7. QED BY <1>4, <1>5, <1>6 DEF rev

\* The order of the natural numbers as a set of pairs.
Smaller == {ss \in Nat \X Nat : ss[1] < ss[2]}

\* A set of numbers up to N that has 0 and the successors of its members.
LEMMA Climb ==
    ASSUME NEW N \in Nat, NEW T, 0 \in T, \A n \in 0..N : n < N /\ n \in T => n + 1 \in T
    PROVE  0..N \subseteq T
<1>1. IsWellFoundedOn(Smaller, Nat) BY NatLessThanWellFounded DEF OpToRel, Smaller
<1> DEFINE missing == (0..N) \ T
<1>2. ASSUME missing # {} PROVE FALSE
  <2>1. missing \subseteq Nat OBVIOUS
  <2>2. PICK n \in missing : \A m \in missing : <<m, n>> \notin Smaller
    BY <1>1, <1>2, <2>1, WFMin
  <2>3. n # 0 /\ n \in 1..N BY <2>2
  <2>4. n - 1 \in 0..N /\ n - 1 \in Nat /\ n \in Nat BY <2>3
  <2>5. n - 1 \notin T BY <2>2, <2>3, <2>4
  <2>6. <<n - 1, n>> \in Smaller BY <2>4 DEF Smaller
  <2>7. QED BY <2>2, <2>4, <2>5, <2>6
<1>3. QED BY <1>2

\* One more revision applied to what an upgrade from a has reached.
NextUp(f, a, start, i) == IF i = a THEN start ELSE Applied(Revisions[i], f[i - 1])

\* The whole upgrade.
GoesUp(f, a, n, start) == f = [i \in a..n |-> NextUp(f, a, start, i)]

\* One more revision reverted.
NextDown(f, a, start, i) == IF i = a THEN start ELSE Reverted(Revisions[i + 1], f[i + 1])

\* The whole downgrade.
GoesDown(f, a, n, start) == f = [i \in n..a |-> NextDown(f, a, start, i)]

\* An upgrade reaches something at each revision.
LEMMA UpwardWalk ==
    ASSUME NEW a \in Nat, NEW n \in Nat, a <= n, NEW start
    PROVE  \E f : GoesUp(f, a, n, start)
<1> DEFINE T == {k \in 0..(n - a) : \E f : f = [i \in a..(a + k) |-> NextUp(f, a, start, i)]}
<1>1. 0 \in T
  <2>1. PICK f : f = [i \in a..(a + 0) |-> start] OBVIOUS
  <2>2. \A i \in a..(a + 0) : i = a OBVIOUS
  <2>3. f = [i \in a..(a + 0) |-> NextUp(f, a, start, i)] BY <2>1, <2>2 DEF NextUp
  <2>4. QED BY <2>3
<1>2. ASSUME NEW k \in 0..(n - a), k < n - a, k \in T PROVE k + 1 \in T
  <2>1. PICK f : f = [i \in a..(a + k) |-> NextUp(f, a, start, i)] BY <1>2
  <2>2. PICK g : g = [i \in a..(a + (k + 1)) |->
                         IF i = a + (k + 1) THEN Applied(Revisions[i], f[i - 1]) ELSE f[i]]
    OBVIOUS
  <2>3. ASSUME NEW i \in a..(a + (k + 1)) PROVE g[i] = NextUp(g, a, start, i)
    <3>1. CASE i = a + (k + 1)
      <4>1. i # a /\ i - 1 \in a..(a + k) /\ i - 1 \in a..(a + (k + 1))
            /\ i - 1 # a + (k + 1)
        BY <3>1
      <4>2. g[i - 1] = f[i - 1] BY <2>2, <4>1
      <4>3. g[i] = Applied(Revisions[i], f[i - 1]) BY <2>2, <3>1
      <4>4. QED BY <4>1, <4>2, <4>3 DEF NextUp
    <3>2. CASE i # a + (k + 1)
      <4>1. i \in a..(a + k) BY <3>2
      <4>2. g[i] = f[i] /\ f[i] = NextUp(f, a, start, i) BY <2>1, <2>2, <3>2, <4>1
      <4>3. CASE i = a BY <4>2, <4>3 DEF NextUp
      <4>4. CASE i # a
        <5>1. i - 1 \in a..(a + (k + 1)) /\ i - 1 # a + (k + 1) BY <4>1, <4>4
        <5>2. g[i - 1] = f[i - 1] BY <2>2, <5>1
        <5>3. QED BY <4>2, <4>4, <5>2 DEF NextUp
      <4>5. QED BY <4>3, <4>4
    <3>3. QED BY <3>1, <3>2
  <2>4. g = [i \in a..(a + (k + 1)) |-> NextUp(g, a, start, i)] BY <2>2, <2>3
  <2>5. k + 1 \in 0..(n - a) BY <1>2
  <2>6. QED BY <2>4, <2>5
<1> HIDE DEF T
<1>3. n - a \in Nat OBVIOUS
<1>4. n - a \in T
  <2>1. 0..(n - a) \subseteq T BY <1>1, <1>2, <1>3, Climb
  <2>2. QED BY <1>3, <2>1
<1>5. a + (n - a) = n OBVIOUS
<1>6. QED BY <1>4, <1>5 DEF T, GoesUp

\* A downgrade too.
LEMMA DownwardWalk ==
    ASSUME NEW a \in Nat, NEW n \in Nat, n <= a, NEW start
    PROVE  \E f : GoesDown(f, a, n, start)
<1> DEFINE T == {k \in 0..(a - n) : \E f : f = [i \in (a - k)..a |-> NextDown(f, a, start, i)]}
<1>1. 0 \in T
  <2>1. PICK f : f = [i \in (a - 0)..a |-> start] OBVIOUS
  <2>2. \A i \in (a - 0)..a : i = a OBVIOUS
  <2>3. f = [i \in (a - 0)..a |-> NextDown(f, a, start, i)] BY <2>1, <2>2 DEF NextDown
  <2>4. QED BY <2>3
<1>2. ASSUME NEW k \in 0..(a - n), k < a - n, k \in T PROVE k + 1 \in T
  <2>1. PICK f : f = [i \in (a - k)..a |-> NextDown(f, a, start, i)] BY <1>2
  <2>2. PICK g : g = [i \in (a - (k + 1))..a |->
                         IF i = a - (k + 1) THEN Reverted(Revisions[i + 1], f[i + 1]) ELSE f[i]]
    OBVIOUS
  <2>3. ASSUME NEW i \in (a - (k + 1))..a PROVE g[i] = NextDown(g, a, start, i)
    <3>1. CASE i = a - (k + 1)
      <4>1. i # a /\ i + 1 \in (a - k)..a /\ i + 1 \in (a - (k + 1))..a
            /\ i + 1 # a - (k + 1)
        BY <3>1
      <4>2. g[i + 1] = f[i + 1] BY <2>2, <4>1
      <4>3. g[i] = Reverted(Revisions[i + 1], f[i + 1]) BY <2>2, <3>1
      <4>4. QED BY <4>1, <4>2, <4>3 DEF NextDown
    <3>2. CASE i # a - (k + 1)
      <4>1. i \in (a - k)..a BY <3>2
      <4>2. g[i] = f[i] /\ f[i] = NextDown(f, a, start, i) BY <2>1, <2>2, <3>2, <4>1
      <4>3. CASE i = a BY <4>2, <4>3 DEF NextDown
      <4>4. CASE i # a
        <5>1. i + 1 \in (a - (k + 1))..a /\ i + 1 # a - (k + 1) BY <4>1, <4>4
        <5>2. g[i + 1] = f[i + 1] BY <2>2, <5>1
        <5>3. QED BY <4>2, <4>4, <5>2 DEF NextDown
      <4>5. QED BY <4>3, <4>4
    <3>3. QED BY <3>1, <3>2
  <2>4. g = [i \in (a - (k + 1))..a |-> NextDown(g, a, start, i)] BY <2>2, <2>3
  <2>5. k + 1 \in 0..(a - n) BY <1>2
  <2>6. QED BY <2>4, <2>5
<1> HIDE DEF T
<1>3. a - n \in Nat OBVIOUS
<1>4. a - n \in T
  <2>1. 0..(a - n) \subseteq T BY <1>1, <1>2, <1>3, Climb
  <2>2. QED BY <1>3, <2>1
<1>5. a - (a - n) = n OBVIOUS
<1>6. QED BY <1>4, <1>5 DEF T, GoesDown

\* An upgrade is refused, or leaves a sound database.
LEMMA UpgradeSound ==
    ASSUME NEW n \in 0..Newest, at \in 0..Newest, at <= n, Sound(at, Database)
    PROVE  UpTo(n) = None \/ Sound(n, UpTo(n))
<1> DEFINE up == CHOOSE f : GoesUp(f, at, n, Database)
           T == {k \in 0..(n - at) : up[at + k] = None \/ Sound(at + k, up[at + k])}
<1>1. at \in Nat /\ n \in Nat /\ n <= Newest BY Chain
<1>2. UpTo(n) = up[n]
  <2>1. UpTo(n) = (CHOOSE f : f = [i \in at..n |-> IF i = at THEN Database
                                   ELSE Applied(Revisions[i], f[i - 1])])[n]
    BY DEF UpTo
  <2>2. QED BY <2>1 DEF GoesUp, NextUp
<1>3. \E f : GoesUp(f, at, n, Database) BY <1>1, UpwardWalk
<1> HIDE DEF up
<1>4. GoesUp(up, at, n, Database) BY <1>3, Zenon DEF up
<1>5. \A i \in at..n : up[i] = NextUp(up, at, Database, i) BY <1>4 DEF GoesUp
<1>6. 0 \in T
  <2>1. at \in at..n /\ at + 0 = at BY <1>1
  <2>2. up[at] = Database BY <1>5, <2>1 DEF NextUp
  <2>3. QED BY <1>1, <2>1, <2>2
<1>7. ASSUME NEW k \in 0..(n - at), k < n - at, k \in T PROVE k + 1 \in T
  <2> DEFINE i == at + k
  <2>1. i + 1 \in at..n /\ i + 1 # at /\ i \in 0..Newest /\ i < Newest /\ (i + 1) - 1 = i
        /\ at + (k + 1) = i + 1 /\ k + 1 \in 0..(n - at)
    BY <1>1, <1>7, Chain
  <2>2. up[i] = None \/ Sound(i, up[i]) BY <1>7
  <2> HIDE DEF i
  <2>3. up[i + 1] = Applied(Revisions[i + 1], up[i]) BY <1>5, <2>1 DEF NextUp
  <2>4. CASE up[i] = None BY <2>1, <2>3, <2>4 DEF Applied
  <2>5. CASE Sound(i, up[i])
    <3>1. up[i + 1] = None \/ Sound(i + 1, up[i + 1]) BY <2>1, <2>3, <2>5, Applies
    <3>2. QED BY <2>1, <3>1
  <2>6. QED BY <2>2, <2>4, <2>5
<1>8. n - at \in T
  <2> HIDE DEF T
  <2>1. n - at \in Nat BY <1>1
  <2>2. 0..(n - at) \subseteq T BY <1>6, <1>7, <2>1, Climb
  <2>3. QED BY <2>1, <2>2
<1>9. at + (n - at) = n BY <1>1
<1>10. QED BY <1>2, <1>8, <1>9

\* A downgrade is refused, or leaves a sound database.
LEMMA DowngradeSound ==
    ASSUME NEW n \in 0..Newest, at \in 0..Newest, n <= at, Sound(at, Database)
    PROVE  DownTo(n) = None \/ Sound(n, DownTo(n))
<1> DEFINE down == CHOOSE f : GoesDown(f, at, n, Database)
           T == {k \in 0..(at - n) : down[at - k] = None \/ Sound(at - k, down[at - k])}
<1>1. at \in Nat /\ n \in Nat /\ at <= Newest BY Chain
<1>2. DownTo(n) = down[n]
  <2>1. DownTo(n) = (CHOOSE f : f = [i \in n..at |-> IF i = at THEN Database
                                     ELSE Reverted(Revisions[i + 1], f[i + 1])])[n]
    BY DEF DownTo
  <2>2. QED BY <2>1 DEF GoesDown, NextDown
<1>3. \E f : GoesDown(f, at, n, Database) BY <1>1, DownwardWalk
<1> HIDE DEF down
<1>4. GoesDown(down, at, n, Database) BY <1>3, Zenon DEF down
<1>5. \A i \in n..at : down[i] = NextDown(down, at, Database, i) BY <1>4 DEF GoesDown
<1>6. 0 \in T
  <2>1. at \in n..at /\ at - 0 = at BY <1>1
  <2>2. down[at] = Database BY <1>5, <2>1 DEF NextDown
  <2>3. QED BY <1>1, <2>1, <2>2
<1>7. ASSUME NEW k \in 0..(at - n), k < at - n, k \in T PROVE k + 1 \in T
  <2> DEFINE i == at - (k + 1)
  <2>1. i \in n..at /\ i # at /\ i + 1 \in 1..Newest /\ (i + 1) - 1 = i
        /\ at - k = i + 1 /\ k + 1 \in 0..(at - n)
    BY <1>1, <1>7, Chain
  <2>2. down[i + 1] = None \/ Sound(i + 1, down[i + 1]) BY <1>7, <2>1
  <2> HIDE DEF i
  <2>3. down[i] = Reverted(Revisions[i + 1], down[i + 1]) BY <1>5, <2>1 DEF NextDown
  <2>4. down[i] = None \/ Sound(i, down[i])
    <3>1. CASE down[i + 1] = None BY <2>3, <3>1 DEF Reverted
    <3>2. CASE Sound(i + 1, down[i + 1]) BY <2>1, <2>3, <3>2, Reverts
    <3>3. QED BY <2>2, <3>1, <3>2
  <2>5. QED BY <2>1, <2>4 DEF i
<1>8. at - n \in T
  <2> HIDE DEF T
  <2>1. at - n \in Nat BY <1>1
  <2>2. 0..(at - n) \subseteq T BY <1>6, <1>7, <2>1, Climb
  <2>3. QED BY <2>1, <2>2
<1>9. at - (at - n) = n BY <1>1
<1>10. QED BY <1>2, <1>8, <1>9

\* The database is as its revisions and the administrators left it.
MigrationInv == at \in 0..Newest /\ Sound(at, Database)

\* The database, field by field.
LEMMA DatabaseFields == Database.schema = schema /\ Database.stored = stored
BY DEF Database

\* The chain is finite.
LEMMA NewestNat == Newest \in Nat
BY Chain

\* A command leaves it so.
LEMMA CommandKeeps ==
    ASSUME MigrationInv, NEW n \in Stops, Upgrade(n) \/ Downgrade(n)
    PROVE  MigrationInv'
<1>1. n \in 0..Newest /\ at \in 0..Newest BY StopsAssumption DEF MigrationInv
<1>2. Sound(at, Database) BY DEF MigrationInv
<1>3. \E db : Sound(n, db) /\ Command(n, db)
  <2>1. CASE Upgrade(n)
    <3>1. at <= n BY <1>1, <2>1, NewestNat DEF Upgrade
    <3>2. UpTo(n) = None \/ Sound(n, UpTo(n)) BY <1>1, <1>2, <3>1, UpgradeSound
    <3>3. QED BY <2>1, <3>2 DEF Upgrade, Command
  <2>2. CASE Downgrade(n)
    <3>1. n <= at BY <1>1, <2>2, NewestNat DEF Downgrade
    <3>2. DownTo(n) = None \/ Sound(n, DownTo(n)) BY <1>1, <1>2, <3>1, DowngradeSound
    <3>3. QED BY <2>2, <3>2 DEF Downgrade, Command
  <2>3. QED BY <2>1, <2>2
<1>4. PICK db : Sound(n, db) /\ Command(n, db) BY <1>3
<1>5. at' = n /\ Database' = db
  <2>1. at' = n /\ schema' = db.schema /\ stored' = db.stored BY <1>4 DEF Command
  <2>2. db \in [schema : SUBSET Names, stored : SUBSET (SeedRows \cup OwnRows)]
    BY <1>4 DEF Sound, Databases
  <2>3. db = [schema |-> db.schema, stored |-> db.stored] BY <2>2
  <2>4. QED BY <2>1, <2>3 DEF Database
<1>6. Sound(n, db) BY <1>4
<1>7. QED BY <1>1, <1>5, <1>6 DEF MigrationInv

\* A row of the administrators' leaves it so.
LEMMA AddKeeps ==
    ASSUME MigrationInv, NEW row \in OwnRows, Add(row)
    PROVE  MigrationInv'
<1>1. at' = at /\ schema' = schema /\ stored' = stored \cup {row} /\ row.table \in schema
  BY DEF Add
<1>2. Sound(at, Database) BY DEF MigrationInv
<1> DEFINE db == [schema |-> schema, stored |-> stored \cup {row}]
<1>3. Database' = db BY <1>1 DEF Database
<1>4. db.schema = schema /\ db.stored = stored \cup {row} OBVIOUS
<1>5. db \in Databases
  <2>1. schema \subseteq Names /\ stored \subseteq SeedRows \cup OwnRows
    BY <1>2, DatabaseFields DEF Sound, Databases
  <2>2. QED BY <2>1 DEF Databases
<1> HIDE DEF db
<1>6. \A x \in db.stored : x.table \in db.schema BY <1>1, <1>2, <1>4, DatabaseFields DEF Sound
<1>7. SeedsThere(at, db.stored) BY <1>2, <1>4, DatabaseFields DEF Sound, SeedsThere, Standing
<1>8. Sound(at, db) BY <1>2, <1>4, <1>5, <1>6, <1>7, DatabaseFields DEF Sound
<1>9. QED BY <1>1, <1>3, <1>8 DEF MigrationInv

\* The keys that rows of the model refer to.
LEMMA KeysKnown ==
    ASSUME MigrationInv, NEW x \in stored
    PROVE  x.key \in {y.key : y \in SeedRows} \cup {"own"}
<1>1. x \in SeedRows \cup OwnRows BY DatabaseFields DEF MigrationInv, Sound, Databases
<1>2. CASE x \in OwnRows BY <1>2 DEF OwnRows
<1>3. QED BY <1>1, <1>2

\* Every action leaves it so.
LEMMA MigrationStep ==
    ASSUME MigrationInv, MigrationNext
    PROVE  MigrationInv'
<1> DEFINE keys == {y.key : y \in SeedRows}
<1>2. CASE \E n \in Stops : Upgrade(n) \/ Downgrade(n) BY <1>2, CommandKeeps
<1>3. ASSUME NEW res \in OwnResources, AddPermission(res) PROVE MigrationInv'
  <2>1. Row("permissions", res, "own", "own", FALSE) \in OwnRows BY DEF Row, OwnRows, OwnNames
  <2>2. QED BY <1>3, <2>1, AddKeeps DEF AddPermission
<1>4. ASSUME NEW name \in OwnNames, AddType(name) PROVE MigrationInv'
  <2>1. Row("category_types", None, "own", name, FALSE) \in OwnRows BY DEF Row, OwnRows
  <2>2. QED BY <1>4, <2>1, AddKeeps DEF AddType
<1>5. ASSUME NEW type \in TypesThere, AddCategory(type) PROVE MigrationInv'
  <2>1. PICK y \in stored : type = y.key BY DEF TypesThere
  <2>2. type \in keys \cup {"own"} BY <2>1, KeysKnown
  <2> HIDE DEF keys
  <2>3. type \in OwnResources \cup keys \cup {"own", None} BY <2>2
  <2>4. Row("categories", type, "own", "own", FALSE) \in OwnRows
    BY <2>3 DEF Row, OwnRows, OwnNames, keys
  <2>5. QED BY <1>5, <2>4, AddKeeps DEF AddCategory
<1>6. ASSUME NEW table \in DOMAIN Takes, NEW c \in stored, FileUnder(table, c)
      PROVE  MigrationInv'
  <2>1. table \in {"blogs", "support_tickets", "courses"} BY DEF Takes
  <2>2. c.key \in keys \cup {"own"} BY KeysKnown
  <2> HIDE DEF keys
  <2>3. c.key \in OwnResources \cup keys \cup {"own", None} BY <2>2
  <2>4. Row(table, c.key, "own", "own", FALSE) \in OwnRows
    BY <2>1, <2>3 DEF Row, OwnRows, OwnNames, keys
  <2>5. QED BY <1>6, <2>4, AddKeeps DEF FileUnder
<1>7. QED BY <1>2, <1>3, <1>4, <1>5, <1>6 DEF MigrationNext

\* An empty database is sound before the first revision.
LEMMA MigrationStarts == MigrationInit => MigrationInv
<1> SUFFICES ASSUME MigrationInit PROVE MigrationInv OBVIOUS
<1>1. at = 0 /\ schema = {} /\ stored = {} BY DEF MigrationInit
<1>2. Database \in Databases BY <1>1 DEF Database, Databases
<1>3. SchemaAt(0) = {} BY DEF SchemaAt
<1>4. SeedsThere(0, {}) BY DEF SeedsThere
<1>5. Sound(0, Database) BY <1>1, <1>2, <1>3, <1>4, DatabaseFields DEF Sound
<1>6. QED BY <1>1, <1>5, NewestNat DEF MigrationInv

\* What the database is made of.
LEMMA MigrationTyped == MigrationInv => MigrationTypeOK
BY DatabaseFields DEF MigrationInv, MigrationTypeOK, Sound

\* Whatever part of the site the load is on.
LEMMA MigrationHolds == SiteSpec => []MigrationInv
<1>1. SiteInit => MigrationInv BY MigrationStarts DEF SiteInit, OfficeInit
<1>2. MigrationInv /\ [SiteNext]_siteVars => MigrationInv'
  <2> SUFFICES ASSUME MigrationInv, [SiteNext]_siteVars PROVE MigrationInv' OBVIOUS
  <2>1. MigrationNext \/ UNCHANGED migrationVars
    BY DEF SiteNext, OfficeNext, siteVars, officeVars
  <2>2. CASE UNCHANGED migrationVars BY <2>2 DEF MigrationInv, Database, migrationVars
  <2>3. QED BY <2>1, <2>2, MigrationStep
<1>3. QED BY <1>1, <1>2, PTL DEF SiteSpec

\* Which revision made the support desk, by what its revert clears.
LEMMA SupportRevision ==
    ASSUME NEW n \in 1..Newest
    PROVE  Revisions[n] = AddSupportTickets <=> n = 27
<1>1. Revisions[n].cleared = IF n = 27 THEN {"support_ticket"} ELSE {}
  BY RevisionsOK DEF RevisionOK, UnseedsOK
<1>2. AddSupportTickets.cleared # {} BY DEF AddSupportTickets, Plain, SupportUnseed
<1>3. QED BY <1>1, <1>2, Chain

\* In whatever order deployments apply, revert and re-apply the revisions
\* while administrators add rows, what an applied revision seeded is there,
\* the next one applies unless a type has the name it seeds, and the last one
\* can be reverted unless something is filed under a topic of the support
\* desk, and then leaves what the earlier ones seeded and the categories
\* administrators made in the other taxonomies.
THEOREM RevisionsHold == SiteSpec => []RevisionsApplyAndRevert
<1>1. MigrationInv => RevisionsApplyAndRevert
  <2> SUFFICES ASSUME MigrationInv PROVE RevisionsApplyAndRevert OBVIOUS
  <2>1. at \in 0..Newest /\ Sound(at, Database) BY DEF MigrationInv
  <2>2. SeedsThere(at, stored) BY <2>1, DatabaseFields DEF Sound
  <2>3. ASSUME at < Newest
        PROVE  Applied(Revisions[at + 1], Database) = None <=> NameClash(Revisions[at + 1])
    BY <2>1, <2>3, Applies, DatabaseFields DEF NameClash
  <2>4. ASSUME at > 0
        PROVE  LET back == Reverted(Revisions[at], Database)
               IN  /\ back = None <=> Revisions[at] = AddSupportTickets /\ TopicInUse
                   /\ back # None =>
                         /\ SeedsThere(at - 1, back.stored)
                         /\ "categories" \in back.schema =>
                               Vocabulary(back.stored) = Vocabulary(stored)
    <3> DEFINE back == Reverted(Revisions[at], Database)
    <3>1. at \in 1..Newest BY <2>1, <2>4, NewestNat
    <3>2. /\ back = None <=> at = 27 /\ TopicFilled(stored)
          /\ back # None => back = LeftBy(Revisions[at], Database) /\ Sound(at - 1, back)
      BY <2>1, <3>1, Reverts, DatabaseFields
    <3>3. TopicFilled(stored) <=> TopicInUse BY DEF TopicFilled, TopicInUse
    <3>4. Revisions[at] = AddSupportTickets <=> at = 27 BY <3>1, SupportRevision
    <3>5. LET left == LeftBy(Revisions[at], Database)
          IN  "categories" \in left.schema => Vocabulary(left.stored) = Vocabulary(stored)
      BY <2>1, <3>1, LeavesSound, DatabaseFields
    <3> HIDE DEF back
    <3>6. ASSUME back # None
          PROVE  /\ SeedsThere(at - 1, back.stored)
                 /\ "categories" \in back.schema => Vocabulary(back.stored) = Vocabulary(stored)
      BY <3>2, <3>5, <3>6 DEF Sound
    <3>7. QED BY <3>2, <3>3, <3>4, <3>6 DEF back
  <2>5. QED BY <2>2, <2>3, <2>4 DEF RevisionsApplyAndRevert
<1>2. QED BY <1>1, MigrationHolds, PTL
=============================================================================

--------------------------- MODULE CommentsProofs ---------------------------
(***************************************************************************)
(* Proofs about Comments for any number of pages and of fetches under way, *)
(* and any contents of the two collections.                                *)
(***************************************************************************)
EXTENDS Comments, WellFoundedInduction, TLAPS

(* A page the user never visited is empty; the page on the screen and those *)
(* a fetch is under way for were visited and have their protocol.           *)
PageInv ==
    /\ \A v \in Visits : v \notin visited => comments[v] = <<>> /\ answer[v] = <<>>
    /\ visible # Nil => visible \in visited /\ project[visible] \in Projects
    /\ \A f \in Slots : fetch[f] \in Visits =>
          fetch[f] \in visited /\ project[fetch[f]] \in Projects

(* The handler of the button: while no answer comes into it, the list is    *)
(* the one its id was computed from, and the copy it writes back is that    *)
(* list.                                                                    *)
SendInv ==
    send.at # "idle" =>
        /\ visible # Nil
        /\ send.newId # 0
        /\ send.at = "write" => \A i \in DOMAIN send.copy :
                                   send.copy[i].project = project[visible]
        /\ ~raced[visible] =>
             /\ send.newId \notin Ids(comments[visible])
             /\ send.at = "write" => send.copy = comments[visible]

CommentsInv ==
    TypeOK /\ PageInv /\ SendInv /\ UniqueIds /\ PageShowsItsProtocol

USE IdAssumption

(* A non-empty set of ids has a largest one.                                *)
LEMMA LargestId ==
    ASSUME NEW S, S \subseteq 1..MaxId, S # {}
    PROVE  \E n \in S : \A m \in S : m <= n
  <1> DEFINE T == {n \in Nat : \A m \in S : m <= n}
  <1>1. MaxId \in T OBVIOUS
  <1>2. PICK n \in T : \A k \in T : ~(k < n)
    <2> DEFINE R == OpToRel(<, Nat)
    <2>1. T \subseteq Nat /\ T # {} BY <1>1
    <2> HIDE DEF T
    <2>2. PICK n \in T : \A k \in T : ~(<<k, n>> \in R)
      BY <2>1, NatLessThanWellFounded, WFMin
    <2> QED BY <2>1, <2>2 DEF OpToRel
  <1>3. n \in Nat /\ \A m \in S : m \in Nat /\ m >= 1 /\ m <= n BY <1>2
  <1>4. n \in S
    <2> SUFFICES ASSUME n \notin S PROVE FALSE OBVIOUS
    <2>1. PICK m0 \in S : TRUE OBVIOUS
    <2>2. n > 0 BY <1>3, <2>1
    <2>3. ASSUME NEW m \in S PROVE m <= n - 1 BY <1>3
    <2>4. n - 1 \in T BY <1>3, <2>2, <2>3
    <2> QED BY <1>2, <1>3, <2>4
  <1> QED BY <1>3, <1>4

(* NextId is an id that no comment of the list has.                         *)
LEMMA NextIdFresh ==
    ASSUME NEW s \in Seq(Comment)
    PROVE  NextId(s) \in Nat \ {0} /\ NextId(s) \notin Ids(s)
  <1>1. Ids(s) \subseteq 1..MaxId
    <2>1. \A i \in DOMAIN s : s[i] \in Comment OBVIOUS
    <2> QED BY <2>1 DEF Ids, Comment
  <1>2. CASE s = <<>> BY <1>2 DEF NextId, Ids
  <1>3. CASE s # <<>>
    <2> DEFINE n == CHOOSE n \in Ids(s) : \A m \in Ids(s) : m <= n
    <2>1. Ids(s) # {}
      <3>1. 1 \in DOMAIN s BY <1>3
      <3> QED BY <3>1 DEF Ids
    <2>2. n \in Ids(s) /\ \A m \in Ids(s) : m <= n BY <1>1, <2>1, LargestId
    <2>3. NextId(s) = 1 + n BY <1>3 DEF NextId
    <2> HIDE DEF n
    <2> QED BY <1>1, <2>2, <2>3
  <1> QED BY <1>2, <1>3

(* The answer for project p is a list of its comments, with distinct ids.   *)
LEMMA AnswerFits ==
    ASSUME NEW p \in Projects, NEW docs \in Threads
    PROVE  /\ CommentsOf(p, docs) \in Seq(Comment)
           /\ \A i \in DOMAIN CommentsOf(p, docs) : CommentsOf(p, docs)[i].project = p
           /\ \A i, j \in DOMAIN CommentsOf(p, docs) :
                 CommentsOf(p, docs)[i].id = CommentsOf(p, docs)[j].id => i = j
  <1> DEFINE d == Decode(docs)
  <1>1. d \in Seq(1..MaxId) /\ Distinct(d) BY ThreadAssumption
  <1>2. CommentsOf(p, docs) =
           [i \in DOMAIN d |-> [project |-> p, id |-> d[i], own |-> FALSE]]
    BY DEF CommentsOf
  <1> HIDE DEF d
  <1>3. \A i \in DOMAIN d : [project |-> p, id |-> d[i], own |-> FALSE] \in Comment
    BY <1>1 DEF Comment
  <1>4. CommentsOf(p, docs) \in Seq(Comment)
    <2>1. DOMAIN d = 1..Len(d) /\ Len(d) \in Nat BY <1>1
    <2>2. CommentsOf(p, docs) \in [1..Len(d) -> Comment] BY <1>2, <1>3, <2>1
    <2> QED BY <2>1, <2>2
  <1> QED BY <1>1, <1>2, <1>4 DEF Distinct

(* The button takes an id that its page does not show, or traps.            *)
LEMMA SendChoice ==
    ASSUME TypeOK, PageInv, SendComment
    PROVE  \/ UNCHANGED send
           \/ \E n \in 1..MaxId :
                 /\ n \notin Ids(comments[visible])
                 /\ send' = [at |-> "read", newId |-> n, copy |-> <<>>]
  <1> DEFINE n == NextId(comments[visible])
  <1>1. comments[visible] \in Seq(Comment)
    BY DEF SendComment, PageInv, TypeOK
  <1>2. n \in Nat \ {0} /\ n \notin Ids(comments[visible]) BY <1>1, NextIdFresh
  <1>3. \/ UNCHANGED send
        \/ n <= MaxId /\ send' = [at |-> "read", newId |-> n, copy |-> <<>>]
    BY DEF SendComment
  <1> HIDE DEF n
  <1>4. n <= MaxId => n \in 1..MaxId BY <1>2
  <1> QED BY <1>2, <1>3, <1>4

(* An answer lands on a page with a protocol: the page shows the comments   *)
(* of that protocol in some contents of the collection, and no more.        *)
LEMMA Landing ==
    ASSUME TypeOK, PageInv, NEW f \in Slots, CommentsLand(f)
    PROVE  /\ fetch[f] \in Visits /\ project[fetch[f]] \in Projects
           /\ \E docs \in Threads :
                 LET a == CommentsOf(project[fetch[f]], docs) IN
                 /\ comments' = [comments EXCEPT ![fetch[f]] = a]
                 /\ answer' = [answer EXCEPT ![fetch[f]] = a]
  <1>1. fetch[f] \in Visits /\ project[fetch[f]] \in Projects
    BY DEF CommentsLand, PageInv
  <1>2. PICK docs \in Threads :
           answer' = [answer EXCEPT ![fetch[f]] = CommentsOf(project[fetch[f]], docs)]
    BY DEF CommentsLand
  <1>3. answer'[fetch[f]] = CommentsOf(project[fetch[f]], docs)
    BY <1>1, <1>2 DEF TypeOK
  <1>4. comments' = [comments EXCEPT ![fetch[f]] = answer'[fetch[f]]]
    BY DEF CommentsLand
  <1> QED BY <1>1, <1>2, <1>3, <1>4

(* Every step keeps the types.                                              *)
LEMMA TypeStep ==
    ASSUME CommentsInv, [Next]_vars
    PROVE  TypeOK'
  <1>0. TypeOK /\ PageInv BY DEF CommentsInv
  <1>a. \A v \in Visits : comments[v] \in Seq(Comment) BY <1>0 DEF TypeOK
  <1>b. visible # Nil => visible \in Visits /\ project[visible] \in Projects
    BY <1>0 DEF PageInv, TypeOK
  <1>c. Resting \in [at : {"idle", "read", "write"}, newId : 0..MaxId, copy : Seq(Comment)]
    BY DEF Resting
  <1> USE DEF navigation, pages, MainIdle
  <1>1. ASSUME NEW v \in Visits, Enter(v) PROVE TypeOK'
    <2>1. PICK i \in DOMAIN items : project' = [project EXCEPT ![v] = items[i]]
      BY <1>1 DEF Enter
    <2>2. project' \in [Visits -> Projects \union {Nil}] BY <1>0, <2>1 DEF TypeOK
    <2> QED BY <1>0, <1>1, <2>2 DEF Enter, Fetch, TypeOK
  <1>2. CASE Leave BY <1>0, <1>2 DEF Leave, Fetch, TypeOK
  <1>3. CASE PassRecorded BY <1>0, <1>3 DEF PassRecorded, TypeOK
  <1>4. ASSUME NEW f \in Slots, FetchFails(f) PROVE TypeOK'
    BY <1>0, <1>4 DEF FetchFails, TypeOK
  <1>5. ASSUME NEW f \in Slots, ListLands(f) PROVE TypeOK'
    BY <1>0, <1>5, CatalogAssumption DEF ListLands, TypeOK
  <1>6. ASSUME NEW f \in Slots, CommentsLand(f) PROVE TypeOK'
    <2> DEFINE a(docs) == CommentsOf(project[fetch[f]], docs)
    <2>1. PICK docs \in Threads :
             /\ comments' = [comments EXCEPT ![fetch[f]] = a(docs)]
             /\ answer' = [answer EXCEPT ![fetch[f]] = a(docs)]
      BY <1>0, <1>6, Landing
    <2>2. a(docs) \in Seq(Comment) BY <1>0, <1>6, AnswerFits, Landing
    <2> HIDE DEF a
    <2>3. /\ comments' \in [Visits -> Seq(Comment)]
          /\ answer' \in [Visits -> Seq(Comment)]
      BY <1>0, <2>1, <2>2 DEF TypeOK
    <2> QED BY <1>0, <1>6, <2>3 DEF CommentsLand, TypeOK
  <1>7. CASE TypeText BY <1>0, <1>7 DEF TypeText, TypeOK
  <1>8. CASE SendComment
    <2>1. \/ UNCHANGED send
          \/ \E n \in 1..MaxId : send' = [at |-> "read", newId |-> n, copy |-> <<>>]
      BY <1>0, <1>8, SendChoice
    <2>2. send' \in [at : {"idle", "read", "write"}, newId : 0..MaxId, copy : Seq(Comment)]
      <3>1. ASSUME NEW n \in 1..MaxId
            PROVE  [at |-> "read", newId |-> n, copy |-> <<>>]
                     \in [at : {"idle", "read", "write"}, newId : 0..MaxId, copy : Seq(Comment)]
        OBVIOUS
      <3>2. send \in [at : {"idle", "read", "write"}, newId : 0..MaxId, copy : Seq(Comment)]
        BY <1>0 DEF TypeOK
      <3> QED BY <2>1, <3>1, <3>2
    <2>3. trap' \in {"none", "try!", "overflow"}
      BY <1>0, <1>8 DEF SendComment, TypeOK
    <2> QED BY <1>0, <1>8, <2>2, <2>3 DEF SendComment, TypeOK
  <1>9. CASE ReadComments
    <2>1. comments[visible] \in Seq(Comment)
      BY <1>9, <1>a, <1>b DEF ReadComments, CommentsInv, SendInv
    <2> QED BY <1>0, <1>9, <2>1 DEF ReadComments, TypeOK
  <1>10. CASE WriteComments
    <2>1. send.newId \in 1..MaxId /\ visible \in Visits /\ project[visible] \in Projects
      BY <1>0, <1>10, <1>b DEF WriteComments, CommentsInv, SendInv, TypeOK
    <2>2. [project |-> project[visible], id |-> send.newId, own |-> TRUE] \in Comment
      BY <2>1 DEF Comment
    <2>3. send.copy \in Seq(Comment) BY <1>0 DEF TypeOK
    <2> DEFINE new == Append(send.copy,
          [project |-> project[visible], id |-> send.newId, own |-> TRUE])
    <2>4. new \in Seq(Comment) BY <2>2, <2>3
    <2>5. comments' = [comments EXCEPT ![visible] = new]
      BY <1>10 DEF WriteComments
    <2> HIDE DEF new
    <2>6. comments' \in [Visits -> Seq(Comment)]
      BY <1>0, <2>4, <2>5 DEF TypeOK
    <2>7. newCommentText' \in [Visits -> BOOLEAN]
      BY <1>0, <1>10 DEF WriteComments, TypeOK
    <2> QED BY <1>0, <1>10, <1>c, <2>6, <2>7
            DEF WriteComments, TypeOK
  <1>11. CASE Relaunch BY <1>0, <1>11, <1>c DEF Relaunch, ListOnly,
          NoComments, TypeOK
  <1>12. CASE UNCHANGED vars BY <1>0, <1>12 DEF vars, TypeOK
  <1> QED BY <1>1, <1>2, <1>3, <1>4, <1>5, <1>6, <1>7, <1>8, <1>9, <1>10,
             <1>11, <1>12 DEF Next, FetchStep

(* Every step keeps PageInv.                                                *)
LEMMA PageStep ==
    ASSUME CommentsInv, [Next]_vars
    PROVE  PageInv'
  <1>0. TypeOK /\ PageInv BY DEF CommentsInv
  <1> USE NilAssumption DEF navigation, pages, MainIdle
  <1>1. ASSUME NEW v \in Visits, Enter(v) PROVE PageInv'
    <2>1. PICK i \in DOMAIN items : project' = [project EXCEPT ![v] = items[i]]
      BY <1>1 DEF Enter
    <2>2. project'[v] \in Projects /\ \A u \in Visits \ {v} : project'[u] = project[u]
      BY <1>0, <2>1 DEF TypeOK
    <2>3. \A f \in Slots : fetch'[f] = v \/ fetch'[f] = fetch[f]
      BY <1>0, <1>1 DEF Enter, Fetch, TypeOK
    <2> QED BY <1>0, <1>1, <2>2, <2>3 DEF Enter, PageInv
  <1>2. CASE Leave BY <1>0, <1>2 DEF Leave, Fetch, PageInv, TypeOK
  <1>3. CASE PassRecorded BY <1>0, <1>3 DEF PassRecorded, PageInv
  <1>4. ASSUME NEW f \in Slots, FetchStep(f) PROVE PageInv'
    <2>1. CASE FetchFails(f) BY <1>0, <2>1 DEF FetchFails, PageInv
    <2>2. CASE ListLands(f) BY <1>0, <2>2 DEF ListLands, PageInv, TypeOK
    <2>3. CASE CommentsLand(f)
      BY <1>0, <2>3, Landing DEF CommentsLand, PageInv, TypeOK
    <2> QED BY <1>4, <2>1, <2>2, <2>3 DEF FetchStep
  <1>5. CASE TypeText \/ SendComment \/ ReadComments \/ UNCHANGED vars
    BY <1>0, <1>5 DEF TypeText, SendComment, ReadComments, PageInv, vars
  <1>6. CASE WriteComments
    <2>1. visible \in visited
      BY <1>0, <1>6 DEF WriteComments, CommentsInv, SendInv, PageInv
    <2> QED BY <1>0, <1>6, <2>1 DEF WriteComments, PageInv, TypeOK
  <1>7. CASE Relaunch
    BY <1>0, <1>7 DEF Relaunch, ListOnly, NoComments, PageInv, TypeOK
  <1> QED BY <1>1, <1>2, <1>3, <1>4, <1>5, <1>6, <1>7 DEF Next

(* Every step keeps the handler's view of its list.                         *)
LEMMA SendStep ==
    ASSUME CommentsInv, [Next]_vars
    PROVE  SendInv'
  <1>0. TypeOK /\ PageInv /\ SendInv BY DEF CommentsInv
  <1> USE NilAssumption DEF navigation, pages, MainIdle, Resting
  <1>1. CASE send'.at = "idle" BY <1>1 DEF SendInv
  <1>2. ASSUME UNCHANGED <<send, visible, project, comments, raced>> PROVE SendInv'
    BY <1>0, <1>2 DEF SendInv
  <1>3. CASE (\E v \in Visits : Enter(v)) \/ Leave
    BY <1>1, <1>3 DEF Enter, Leave
  <1>4. CASE PassRecorded \/ TypeText \/ UNCHANGED vars
    BY <1>2, <1>4 DEF PassRecorded, TypeText, vars
  <1>5. ASSUME NEW f \in Slots, FetchStep(f) PROVE SendInv'
    <2>1. CASE FetchFails(f) \/ ListLands(f)
      BY <1>2, <2>1 DEF FetchFails, ListLands
    <2>2. CASE CommentsLand(f)
      BY <1>0, <2>2 DEF CommentsLand, SendInv, PageInv, TypeOK
    <2> QED BY <1>5, <2>1, <2>2 DEF FetchStep
  <1>6. CASE SendComment
    <2>1. UNCHANGED <<visible, comments, project, raced>> /\ visible # Nil
          /\ send.at = "idle"
      BY <1>6 DEF SendComment
    <2>2. \/ UNCHANGED send
          \/ \E n \in 1..MaxId :
                /\ n \notin Ids(comments[visible])
                /\ send' = [at |-> "read", newId |-> n, copy |-> <<>>]
      BY <1>0, <1>6, SendChoice
    <2> QED BY <2>1, <2>2 DEF SendInv, Ids
  <1>7. CASE ReadComments
    <2>1. /\ send'.at = "write" /\ send'.newId = send.newId
          /\ send'.copy = comments[visible]
          /\ send.at = "read"
          /\ UNCHANGED <<visible, comments, project, raced>>
      BY <1>0, <1>7 DEF ReadComments, TypeOK
    <2>2. visible \in Visits BY <1>0, <2>1 DEF SendInv, TypeOK
    <2> QED BY <1>0, <2>1, <2>2 DEF SendInv, Ids, CommentsInv, PageShowsItsProtocol
  <1>8. CASE WriteComments \/ Relaunch
    BY <1>1, <1>8 DEF WriteComments, Relaunch
  <1> QED BY <1>3, <1>4, <1>5, <1>6, <1>7, <1>8 DEF Next

(* Every step keeps the lists: distinct ids, of the page's own protocol.    *)
LEMMA ListStep ==
    ASSUME CommentsInv, [Next]_vars
    PROVE  UniqueIds' /\ PageShowsItsProtocol'
  <1>0. TypeOK /\ PageInv /\ SendInv /\ UniqueIds /\ PageShowsItsProtocol
    BY DEF CommentsInv
  <1> USE NilAssumption DEF navigation, pages, MainIdle
  <1>1. ASSUME UNCHANGED <<comments, project, raced>>
        PROVE  UniqueIds' /\ PageShowsItsProtocol'
    BY <1>0, <1>1 DEF UniqueIds, PageShowsItsProtocol
  <1>2. ASSUME NEW v \in Visits, Enter(v)
        PROVE  UniqueIds' /\ PageShowsItsProtocol'
    <2>1. UNCHANGED <<comments, raced>> /\ comments[v] = <<>>
          /\ \A u \in Visits \ {v} : project'[u] = project[u]
      BY <1>0, <1>2 DEF Enter, PageInv, TypeOK
    <2> QED BY <1>0, <2>1 DEF UniqueIds, PageShowsItsProtocol
  <1>3. ASSUME NEW f \in Slots, CommentsLand(f)
        PROVE  UniqueIds' /\ PageShowsItsProtocol'
    <2> DEFINE v == fetch[f]
    <2>1. v \in Visits /\ project[v] \in Projects /\ UNCHANGED project
      BY <1>0, <1>3 DEF CommentsLand, PageInv
    <2>2. PICK docs \in Threads :
             comments' = [comments EXCEPT ![v] = CommentsOf(project[v], docs)]
      BY <1>0, <1>3, Landing
    <2>3. comments'[v] = CommentsOf(project[v], docs)
          /\ \A u \in Visits \ {v} : comments'[u] = comments[u] /\ raced'[u] = raced[u]
      BY <1>0, <1>3, <2>1, <2>2 DEF CommentsLand, TypeOK
    <2> HIDE DEF v
    <2>4. /\ \A i \in DOMAIN comments'[v] : comments'[v][i].project = project[v]
          /\ \A i, j \in DOMAIN comments'[v] :
                comments'[v][i].id = comments'[v][j].id => i = j
      <3> DEFINE a == CommentsOf(project[v], docs)
      <3>1. /\ \A i \in DOMAIN a : a[i].project = project[v]
            /\ \A i, j \in DOMAIN a : a[i].id = a[j].id => i = j
        BY <2>1, AnswerFits
      <3> HIDE DEF a
      <3> QED BY <2>3, <3>1 DEF a
    <2>5. UniqueIds' BY <1>0, <2>1, <2>3, <2>4 DEF UniqueIds
    <2>6. PageShowsItsProtocol' BY <1>0, <2>1, <2>3, <2>4 DEF PageShowsItsProtocol
    <2> QED BY <2>5, <2>6
  <1>4. CASE WriteComments
    <2>1. visible \in Visits /\ project[visible] \in Projects
      BY <1>0, <1>4 DEF WriteComments, SendInv, PageInv, TypeOK
    <2> DEFINE c == [project |-> project[visible], id |-> send.newId, own |-> TRUE]
    <2>2. /\ comments'[visible] = Append(send.copy, c)
          /\ \A u \in Visits \ {visible} : comments'[u] = comments[u]
          /\ UNCHANGED <<project, raced>>
          /\ send.at = "write"
      BY <1>0, <1>4, <2>1 DEF WriteComments, TypeOK
    <2>3. send.copy \in Seq(Comment) BY <1>0 DEF TypeOK
    <2>4. c.project = project[visible] /\ c.id = send.newId OBVIOUS
    <2> HIDE DEF c
    <2>5. /\ DOMAIN comments'[visible] = 1..(Len(send.copy) + 1)
          /\ \A i \in DOMAIN send.copy : comments'[visible][i] = send.copy[i]
          /\ comments'[visible][Len(send.copy) + 1] = c
          /\ DOMAIN send.copy = 1..Len(send.copy) /\ Len(send.copy) \in Nat
      BY <2>2, <2>3
    <2>6. PageShowsItsProtocol'
      <3>1. \A i \in DOMAIN send.copy : send.copy[i].project = project[visible]
        BY <1>0, <2>2 DEF SendInv
      <3>2. \A i \in DOMAIN comments'[visible] :
               comments'[visible][i].project = project[visible]
        BY <2>4, <2>5, <3>1
      <3> QED BY <1>0, <2>2, <3>2 DEF PageShowsItsProtocol
    <2>7. ASSUME ~raced[visible], NEW i \in DOMAIN comments'[visible],
                 NEW j \in DOMAIN comments'[visible],
                 comments'[visible][i].id = comments'[visible][j].id
          PROVE  i = j
      <3>1. /\ send.copy = comments[visible]
            /\ \A k \in DOMAIN send.copy : send.copy[k].id # send.newId
        BY <1>0, <2>2, <2>7 DEF SendInv, Ids
      <3>2. \A k, l \in DOMAIN send.copy : send.copy[k].id = send.copy[l].id => k = l
        BY <1>0, <2>1, <2>7, <3>1 DEF UniqueIds
      <3>3. \A k \in DOMAIN comments'[visible] :
               k \in DOMAIN send.copy \/ k = Len(send.copy) + 1
        BY <2>5
      <3>4. CASE i \in DOMAIN send.copy /\ j \in DOMAIN send.copy
        BY <2>5, <2>7, <3>2, <3>4
      <3>5. CASE i = Len(send.copy) + 1 /\ j = Len(send.copy) + 1 BY <3>5
      <3>6. CASE i \in DOMAIN send.copy /\ j = Len(send.copy) + 1
        BY <2>4, <2>5, <2>7, <3>1, <3>6
      <3>7. CASE i = Len(send.copy) + 1 /\ j \in DOMAIN send.copy
        BY <2>4, <2>5, <2>7, <3>1, <3>7
      <3> QED BY <2>7, <3>3, <3>4, <3>5, <3>6, <3>7
    <2>8. UniqueIds' BY <1>0, <2>2, <2>7 DEF UniqueIds
    <2> QED BY <2>6, <2>8
  <1>5. CASE \/ Leave \/ PassRecorded \/ TypeText \/ SendComment \/ ReadComments
             \/ UNCHANGED vars
             \/ \E f \in Slots : FetchFails(f) \/ ListLands(f)
    BY <1>1, <1>5 DEF Leave, PassRecorded, TypeText, SendComment, ReadComments,
       FetchFails, ListLands, vars
  <1>6. CASE Relaunch
    BY <1>6 DEF Relaunch, NoComments, UniqueIds, PageShowsItsProtocol
  <1> QED BY <1>2, <1>3, <1>4, <1>5, <1>6 DEF Next, FetchStep

(* The invariant of the pages, whatever order the answers come in.          *)
THEOREM CommentsInvariant == Spec => []CommentsInv
  <1>1. Init => CommentsInv
    <2> SUFFICES ASSUME Init PROVE CommentsInv OBVIOUS
    <2>1. TypeOK
      <3>1. Resting \in [at : {"idle", "read", "write"}, newId : 0..MaxId, copy : Seq(Comment)]
        BY DEF Resting
      <3>2. items \in Seq(Projects) /\ comments \in [Visits -> Seq(Comment)]
             /\ answer \in [Visits -> Seq(Comment)]
        BY DEF Init, NoComments
      <3>3. fetch \in [Slots -> Visits \union {"list", Nil}]
        BY DEF Init, ListOnly
      <3> QED BY <3>1, <3>2, <3>3 DEF Init, TypeOK
    <2> QED BY <2>1, NilAssumption DEF Init, NoComments, ListOnly, Resting, CommentsInv,
            PageInv, SendInv, UniqueIds, PageShowsItsProtocol
  <1>2. CommentsInv /\ [Next]_vars => CommentsInv'
    BY TypeStep, PageStep, SendStep, ListStep DEF CommentsInv
  <1> QED BY <1>1, <1>2, PTL DEF Spec

(* The variables of the list and of its pages keep their types.             *)
THEOREM CommentTypes == Spec => []TypeOK
  BY CommentsInvariant, PTL DEF CommentsInv

(* ForEach(comments) tells the rows of every page apart, unless an answer   *)
(* came into the handler of its button.                                     *)
THEOREM IdsAreUnique == Spec => []UniqueIds
  BY CommentsInvariant, PTL DEF CommentsInv

(* No late answer brings the comments of another protocol.                  *)
THEOREM PagesKeepTheirProtocol == Spec => []PageShowsItsProtocol
  BY CommentsInvariant, PTL DEF CommentsInv

-----------------------------------------------------------------------------
(* The copy that the button's handler is about to write back is one whole   *)
(* answer with the user's comments after it, too.                           *)
CopyInv ==
    send.at = "write" => \E a \in Answers(project[visible]) : Follows(send.copy, a)

(* The answers of a project are lists of comments.                          *)
LEMMA AnswerType ==
    ASSUME NEW p \in Projects, NEW a \in Answers(p)
    PROVE  a \in Seq(Comment)
  <1>1. CASE a = <<>>
    <2>1. <<>> \in Seq(Comment) OBVIOUS
    <2> QED BY <1>1, <2>1
  <1>2. ASSUME NEW docs \in Threads, a = CommentsOf(p, docs)
        PROVE  a \in Seq(Comment)
    BY <1>2, AnswerFits
  <1> QED BY <1>1, <1>2 DEF Answers

(* A list follows itself.                                                   *)
LEMMA FollowsItself ==
    ASSUME NEW a \in Seq(Comment)
    PROVE  Follows(a, a)
  BY DEF Follows

(* An empty page follows the empty answer it starts with.                   *)
LEMMA EmptyFollows == Follows(<<>>, <<>>) /\ \A p : <<>> \in Answers(p)
  <1>1. <<>> \in Seq(Comment) OBVIOUS
  <1>2. Follows(<<>>, <<>>) BY <1>1, FollowsItself
  <1> QED BY <1>2 DEF Answers

(* One more comment of the user's after a list that follows an answer.      *)
LEMMA FollowsAppend ==
    ASSUME NEW s \in Seq(Comment), NEW a \in Seq(Comment), Follows(s, a),
           NEW c \in Comment, c.own
    PROVE  Follows(Append(s, c), a)
  <1> DEFINE t == Append(s, c)
  <1>1. /\ DOMAIN t = 1..(Len(s) + 1) /\ Len(t) = Len(s) + 1
        /\ \A i \in DOMAIN s : t[i] = s[i]
        /\ t[Len(s) + 1] = c
        /\ DOMAIN s = 1..Len(s) /\ Len(s) \in Nat /\ Len(a) \in Nat
    OBVIOUS
  <1> HIDE DEF t
  <1>2. Len(a) <= Len(t) BY <1>1 DEF Follows
  <1>3. ASSUME NEW i \in DOMAIN t
        PROVE  IF i <= Len(a) THEN t[i] = a[i] ELSE t[i].own
    <2>1. CASE i \in DOMAIN s BY <1>1, <2>1 DEF Follows
    <2>2. CASE i = Len(s) + 1 BY <1>1, <2>2 DEF Follows
    <2> QED BY <1>1, <1>3, <2>1, <2>2
  <1>4. Follows(t, a) BY <1>2, <1>3 DEF Follows
  <1> QED BY <1>4 DEF t

(* Every step keeps the answers whole, and the last one on the page.        *)
LEMMA AnswerStep ==
    ASSUME CommentsInv, CopyInv, LastAnswerShown, [Next]_vars
    PROVE  CopyInv' /\ LastAnswerShown'
  <1>0. TypeOK /\ PageInv /\ SendInv BY DEF CommentsInv
  <1> USE NilAssumption DEF navigation, pages, MainIdle
  <1>1. ASSUME UNCHANGED <<comments, project, raced, answer>>
        PROVE  LastAnswerShown'
    BY <1>1 DEF LastAnswerShown
  <1>2. ASSUME UNCHANGED <<send, visible, project>> PROVE CopyInv'
    BY <1>2 DEF CopyInv
  <1>3. ASSUME send'.at # "write" PROVE CopyInv' BY <1>3 DEF CopyInv
  <1>4. ASSUME NEW v \in Visits, Enter(v) PROVE CopyInv' /\ LastAnswerShown'
    <2>1. CopyInv' BY <1>3, <1>4 DEF Enter
    <2>2. /\ UNCHANGED <<comments, raced, answer>>
          /\ comments[v] = <<>> /\ answer[v] = <<>>
          /\ \A u \in Visits \ {v} : project'[u] = project[u]
      BY <1>0, <1>4 DEF Enter, PageInv, TypeOK
    <2>3. <<>> \in Answers(project'[v]) /\ Follows(<<>>, <<>>)
      BY EmptyFollows
    <2>4. LastAnswerShown' BY <2>2, <2>3 DEF LastAnswerShown
    <2> QED BY <2>1, <2>4
  <1>5. CASE Leave BY <1>1, <1>3, <1>5 DEF Leave
  <1>6. CASE \/ PassRecorded \/ TypeText \/ UNCHANGED vars
             \/ \E f \in Slots : FetchFails(f) \/ ListLands(f)
    BY <1>1, <1>2, <1>6 DEF PassRecorded, TypeText, FetchFails, ListLands, vars
  <1>7. ASSUME NEW f \in Slots, CommentsLand(f) PROVE CopyInv' /\ LastAnswerShown'
    <2> DEFINE v == fetch[f]
               a(docs) == CommentsOf(project[v], docs)
    <2>1. v \in Visits /\ project[v] \in Projects BY <1>0, <1>7, Landing
    <2>2. PICK docs \in Threads : /\ comments' = [comments EXCEPT ![v] = a(docs)]
                                  /\ answer' = [answer EXCEPT ![v] = a(docs)]
      BY <1>0, <1>7, Landing
    <2>3. a(docs) \in Answers(project[v]) /\ Follows(a(docs), a(docs))
      BY <2>1, AnswerFits, FollowsItself DEF Answers
    <2>4. UNCHANGED <<send, visible, project>> BY <1>7 DEF CommentsLand
    <2>5. \A u \in Visits \ {v} : raced'[u] = raced[u]
      BY <1>0, <1>7 DEF CommentsLand, TypeOK
    <2> HIDE DEF a, v
    <2>6. /\ comments'[v] = a(docs) /\ answer'[v] = a(docs)
          /\ \A u \in Visits \ {v} :
                comments'[u] = comments[u] /\ answer'[u] = answer[u]
      BY <1>0, <2>1, <2>2 DEF TypeOK
    <2>7. LastAnswerShown'
      BY <2>1, <2>3, <2>4, <2>5, <2>6 DEF LastAnswerShown
    <2> QED BY <1>2, <2>4, <2>7
  <1>8. CASE SendComment
    <2>1. send'.at # "write"
      BY <1>0, <1>8, SendChoice DEF SendComment
    <2> QED BY <1>1, <1>3, <1>8, <2>1 DEF SendComment
  <1>9. CASE ReadComments
    <2>1. /\ send'.copy = comments[visible] /\ send.at = "read"
          /\ UNCHANGED <<visible, comments, project, raced, answer>>
      BY <1>0, <1>9 DEF ReadComments, TypeOK
    <2>2. visible \in Visits BY <1>0, <2>1 DEF SendInv, TypeOK
    <2>3. CopyInv' BY <2>1, <2>2 DEF CopyInv, LastAnswerShown
    <2> QED BY <1>1, <2>1, <2>3
  <1>10. CASE WriteComments
    <2> DEFINE c == [project |-> project[visible], id |-> send.newId, own |-> TRUE]
    <2>1. /\ visible \in Visits /\ project[visible] \in Projects
          /\ send.at = "write" /\ send.newId \in 1..MaxId
      BY <1>0, <1>10 DEF WriteComments, SendInv, PageInv, TypeOK
    <2>2. c \in Comment /\ c.own BY <2>1 DEF Comment
    <2>3. send.copy \in Seq(Comment) BY <1>0 DEF TypeOK
    <2>4. /\ comments' = [comments EXCEPT ![visible] = Append(send.copy, c)]
          /\ UNCHANGED <<visible, project, raced, answer>>
      BY <1>10 DEF WriteComments
    <2> HIDE DEF c
    <2>5. PICK a \in Answers(project[visible]) :
             /\ Follows(send.copy, a)
             /\ ~raced[visible] => a = answer[visible]
      <3>1. CASE raced[visible] BY <2>1, <3>1 DEF CopyInv
      <3>2. CASE ~raced[visible]
        <4>1. send.copy = comments[visible] BY <1>0, <2>1, <3>2 DEF SendInv
        <4> QED BY <2>1, <4>1 DEF LastAnswerShown
      <3> QED BY <3>1, <3>2
    <2>6. Follows(Append(send.copy, c), a)
      BY <2>1, <2>2, <2>3, <2>5, AnswerType, FollowsAppend
    <2>7. /\ comments'[visible] = Append(send.copy, c)
          /\ \A u \in Visits \ {visible} : comments'[u] = comments[u]
      BY <1>0, <2>1, <2>4 DEF TypeOK
    <2>8. LastAnswerShown'
      BY <2>1, <2>4, <2>5, <2>6, <2>7 DEF LastAnswerShown
    <2>9. CopyInv' BY <1>3, <1>10 DEF WriteComments, Resting
    <2> QED BY <2>8, <2>9
  <1>11. CASE Relaunch
    <2>1. CopyInv' BY <1>3, <1>11 DEF Relaunch, Resting
    <2>2. \A v \in Visits : comments'[v] = <<>> /\ answer'[v] = <<>>
      BY <1>11 DEF Relaunch, NoComments
    <2>3. Follows(<<>>, <<>>) /\ \A v \in Visits : <<>> \in Answers(project'[v])
      BY EmptyFollows
    <2>4. LastAnswerShown' BY <2>2, <2>3 DEF LastAnswerShown
    <2> QED BY <2>1, <2>4
  <1> QED BY <1>4, <1>5, <1>6, <1>7, <1>8, <1>9, <1>10, <1>11
          DEF Next, FetchStep

(* A page shows one whole answer and then the user's comments, and it is    *)
(* the last answer unless that came into the handler of the button, for     *)
(* any number of fetches under way and in whichever order they land.        *)
THEOREM AnswersStayWhole == Spec => []LastAnswerShown
  <1>1. Init => CopyInv /\ LastAnswerShown
    <2> SUFFICES ASSUME Init PROVE CopyInv /\ LastAnswerShown OBVIOUS
    <2>1. CopyInv BY DEF Init, Resting, CopyInv
    <2>2. \A v \in Visits : comments[v] = <<>> /\ answer[v] = <<>>
      BY DEF Init, NoComments
    <2>3. Follows(<<>>, <<>>) /\ \A v \in Visits : <<>> \in Answers(project[v])
      BY EmptyFollows
    <2> QED BY <2>1, <2>2, <2>3 DEF LastAnswerShown
  <1>2. CommentsInv /\ CopyInv /\ LastAnswerShown /\ [Next]_vars
          => CopyInv' /\ LastAnswerShown'
    BY AnswerStep
  <1> QED BY <1>1, <1>2, CommentsInvariant, PTL DEF Spec
=============================================================================

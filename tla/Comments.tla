------------------------------ MODULE Comments ------------------------------
(***************************************************************************)
(* What the app reads from Firestore: the protocols of the list            *)
(* (ContentView.items) and the comments of a protocol's page               *)
(* (ProtocolDetailView.comments), and the comments the user adds there,    *)
(* which stay in the page.                                                 *)
(*                                                                         *)
(* Every appearance of the list or of a page starts a detached fetch whose *)
(* answer replaces the whole list, whenever it comes.  The fetch writes    *)
(* the @State from its own thread, so it also comes between the accesses   *)
(* of the comment button, which reads the list for the next id, reads it   *)
(* again for the append and writes it back.                                *)
(***************************************************************************)
EXTENDS Naturals, Sequences, FiniteSets

CONSTANTS
    Visits,      \* visits to a protocol's page
    Slots,       \* fetches that can be under way at a time
    Projects,    \* ids of protocols
    Catalogs,    \* what "projects" can hold: sequences of ids
    Threads,     \* what "comments" can hold for a project: sequences of ids
    Broken,      \* stands for a document that does not decode
    MaxId,       \* the largest Int
    Nil

Distinct(s) == \A i, j \in DOMAIN s : s[i] = s[j] => i = j

(* Documents that do not decode are dropped: compactMap with try?. *)
Decode(docs) == SelectSeq(docs, LAMBDA id : id # Broken)

ASSUME IdAssumption ==
    /\ MaxId \in Nat \ {0}
    /\ Broken \notin 1..MaxId
    /\ Projects \subseteq 1..MaxId
ASSUME CatalogAssumption ==
    \A s \in Catalogs :
        /\ s \in Seq(Projects \union {Broken})
        /\ Decode(s) \in Seq(Projects)
        /\ Distinct(Decode(s))
ASSUME ThreadAssumption ==
    \A s \in Threads :
        /\ s \in Seq(1..MaxId \union {Broken})
        /\ Decode(s) \in Seq(1..MaxId)
        /\ Distinct(Decode(s))
ASSUME NilAssumption == Nil \notin Visits \union Projects /\ "list" \notin Visits

VARIABLES
    purchased_pass,     \* UserDefaults
    items,              \* ContentView
    visible, visited,   \* navigation
    project, comments, newCommentText,  \* per visit
    send,               \* the handler of the comment button
    fetch,              \* the fetches under way: for the list or for a page
    trap,               \* failed try! or arithmetic overflow
    raced, answer       \* history: an answer came into the button's handler;
                        \* the last answer

navigation == <<visible, visited>>
pages == <<project, comments, newCommentText>>
vars == <<purchased_pass, items, navigation, pages, send, fetch,
          trap, raced, answer>>

Comment == [project : Projects, id : 1..MaxId, own : BOOLEAN]
Ids(s) == {s[i].id : i \in DOMAIN s}

(* The comments of project p in documents docs. *)
CommentsOf(p, docs) ==
    [i \in DOMAIN Decode(docs) |->
        [project |-> p, id |-> Decode(docs)[i], own |-> FALSE]]

Resting == [at |-> "idle", newId |-> 0, copy |-> <<>>]

(* The main thread takes touches when no handler runs. *)
Alive == trap = "none"
MainIdle == Alive /\ send.at = "idle"

TypeOK ==
    /\ purchased_pass \in BOOLEAN
    /\ items \in Seq(Projects)
    /\ visible \in Visits \union {Nil}
    /\ visited \subseteq Visits
    /\ project \in [Visits -> Projects \union {Nil}]
    /\ comments \in [Visits -> Seq(Comment)]
    /\ newCommentText \in [Visits -> BOOLEAN]      \* is there a text?
    /\ send \in [at : {"idle", "read", "write"}, newId : 0..MaxId, copy : Seq(Comment)]
    /\ fetch \in [Slots -> Visits \union {"list", Nil}]
    /\ trap \in {"none", "try!", "overflow"}
    /\ raced \in [Visits -> BOOLEAN]
    /\ answer \in [Visits -> Seq(Comment)]

-----------------------------------------------------------------------------
(* .onAppear of the list or of a page: a slot takes the fetch. *)
Fetch(f, target) ==
    /\ fetch[f] = Nil
    /\ fetch' = [fetch EXCEPT ![f] = target]

(* What a launch leaves under way: the fetch of the list. *)
ListOnly(f) == [g \in Slots |-> IF g = f THEN "list" ELSE Nil]

NoComments == [v \in Visits |-> <<>>]

(* The first launch: the list has appeared. *)
Init ==
    /\ purchased_pass = FALSE
    /\ items = <<>>
    /\ visible = Nil /\ visited = {}
    /\ project = [v \in Visits |-> Nil]
    /\ comments = NoComments
    /\ newCommentText = [v \in Visits |-> FALSE]
    /\ send = Resting
    /\ \E f \in Slots : fetch = ListOnly(f)
    /\ trap = "none"
    /\ raced = [v \in Visits |-> FALSE]
    /\ answer = NoComments

(* A link of the list: the page keeps the protocol it was made for. *)
Enter(v) ==
    /\ MainIdle
    /\ visible = Nil
    /\ v \notin visited
    /\ visible' = v
    /\ visited' = visited \union {v}
    /\ \E i \in DOMAIN items : project' = [project EXCEPT ![v] = items[i]]
    /\ \E f \in Slots : Fetch(f, v)
    /\ UNCHANGED <<purchased_pass, items, comments, newCommentText, send, trap,
                   raced, answer>>

(* Back to the list, which appears and fetches again. *)
Leave ==
    /\ MainIdle
    /\ visible # Nil
    /\ visible' = Nil
    /\ \E f \in Slots : Fetch(f, "list")
    /\ UNCHANGED <<purchased_pass, items, visited, pages, send, trap, raced,
                   answer>>

(* A mint or a deposit records the pass (modules PremiumPass, Deposit). *)
PassRecorded ==
    /\ Alive
    /\ purchased_pass' = TRUE
    /\ UNCHANGED <<items, navigation, pages, send, fetch, trap, raced, answer>>

-----------------------------------------------------------------------------
(***************************************************************************)
(* Answers.  Other people edit the documents at any time, so an answer may *)
(* hold whatever the collection can hold, and answers come in any order.   *)
(***************************************************************************)
(* try! await: a failed query ends the process. *)
FetchFails(f) ==
    /\ Alive
    /\ fetch[f] # Nil
    /\ trap' = "try!"
    /\ UNCHANGED <<purchased_pass, items, navigation, pages, send, fetch,
                   raced, answer>>

ListLands(f) ==
    /\ Alive
    /\ fetch[f] = "list"
    /\ \E docs \in Catalogs : items' = Decode(docs)
    /\ fetch' = [fetch EXCEPT ![f] = Nil]
    /\ UNCHANGED <<purchased_pass, navigation, pages, send, trap, raced,
                   answer>>

(* Mutant: the answer goes to the page on the screen. *)
MutCommentsLand(f) ==
    /\ Alive
    /\ fetch[f] \in Visits /\ visible # Nil
    /\ \E docs \in Threads : comments' = [comments EXCEPT
          ![visible] = CommentsOf(project[fetch[f]], docs)]
    /\ raced' = [raced EXCEPT ![visible] = send.at # "idle"]
    /\ fetch' = [fetch EXCEPT ![f] = Nil]
    /\ UNCHANGED <<purchased_pass, items, navigation, project, newCommentText,
                   send, trap, answer>>

CommentsLand(f) ==
    LET v == fetch[f] IN
    /\ Alive
    /\ v \in Visits
    /\ \E docs \in Threads :
          answer' = [answer EXCEPT ![v] = CommentsOf(project[v], docs)]
    /\ comments' = [comments EXCEPT ![v] = answer'[v]]
    /\ raced' = [raced EXCEPT ![v] = send.at # "idle" /\ v = visible]
    /\ fetch' = [fetch EXCEPT ![f] = Nil]
    /\ UNCHANGED <<purchased_pass, items, navigation, project, newCommentText,
                   send, trap>>

-----------------------------------------------------------------------------
(* The comment field, in a section shown to owners of a pass. *)
TypeText ==
    /\ MainIdle
    /\ visible # Nil /\ purchased_pass
    /\ newCommentText' = [newCommentText EXCEPT ![visible] = TRUE]
    /\ UNCHANGED <<purchased_pass, items, navigation, project, comments, send,
                   fetch, trap, raced, answer>>

(* Mutant: one more than the number of comments. *)
MutNextId(s) == 1 + Len(s)

(* One more than the largest id, or 1. *)
NextId(s) == 1 + IF s = <<>> THEN 0
                 ELSE CHOOSE n \in Ids(s) : \A m \in Ids(s) : m <= n

(* Mutant: the sum wraps instead of trapping. *)
MutSendComment ==
    /\ MainIdle
    /\ visible # Nil /\ purchased_pass
    /\ newCommentText[visible]
    /\ send' = [at |-> "read", newId |-> NextId(comments[visible]), copy |-> <<>>]
    /\ UNCHANGED <<purchased_pass, items, navigation, pages, fetch, trap,
                   raced, answer>>

(* The button: the next id is read from the list; the sum traps when there *)
(* is no next Int.  (The address it unwraps is there:                      *)
(* App!OwnerHasAddress.)                                                   *)
SendComment ==
    /\ MainIdle
    /\ visible # Nil /\ purchased_pass
    /\ newCommentText[visible]
    /\ LET n == NextId(comments[visible]) IN
       IF n <= MaxId
         THEN /\ send' = [at |-> "read", newId |-> n, copy |-> <<>>]
              /\ UNCHANGED trap
         ELSE /\ trap' = "overflow"
              /\ UNCHANGED send
    /\ UNCHANGED <<purchased_pass, items, navigation, pages, fetch, raced,
                   answer>>

(* comments.append: get, append, set. *)
ReadComments ==
    /\ Alive
    /\ send.at = "read"
    /\ send' = [send EXCEPT !.at = "write", !.copy = comments[visible]]
    /\ UNCHANGED <<purchased_pass, items, navigation, pages, fetch, trap,
                   raced, answer>>

(* Mutant: the newest comment comes first. *)
MutWriteComments ==
    /\ Alive
    /\ send.at = "write"
    /\ comments' = [comments EXCEPT ![visible] =
          <<[project |-> project[visible], id |-> send.newId, own |-> TRUE]>>
            \o send.copy]
    /\ newCommentText' = [newCommentText EXCEPT ![visible] = FALSE]
    /\ send' = Resting
    /\ UNCHANGED <<purchased_pass, items, navigation, project, fetch, trap,
                   raced, answer>>

WriteComments ==
    /\ Alive
    /\ send.at = "write"
    /\ comments' = [comments EXCEPT ![visible] = Append(send.copy,
          [project |-> project[visible], id |-> send.newId, own |-> TRUE])]
    /\ newCommentText' = [newCommentText EXCEPT ![visible] = FALSE]
    /\ send' = Resting
    /\ UNCHANGED <<purchased_pass, items, navigation, project, fetch, trap,
                   raced, answer>>

(* The process ends, at any point, and is started again; the list appears. *)
Relaunch ==
    /\ items' = <<>>
    /\ visible' = Nil
    /\ send' = Resting
    /\ \E f \in Slots : fetch' = ListOnly(f)
    /\ trap' = "none"
    /\ project' = [v \in Visits |-> Nil]
    /\ comments' = NoComments
    /\ newCommentText' = [v \in Visits |-> FALSE]
    /\ raced' = [v \in Visits |-> FALSE]
    /\ answer' = NoComments
    /\ UNCHANGED <<purchased_pass, visited>>

FetchStep(f) == FetchFails(f) \/ ListLands(f) \/ CommentsLand(f)

Next ==
    \/ \E v \in Visits : Enter(v)
    \/ Leave \/ PassRecorded
    \/ \E f \in Slots : FetchStep(f)
    \/ TypeText \/ SendComment \/ ReadComments \/ WriteComments
    \/ Relaunch

Spec == Init /\ [][Next]_vars

-----------------------------------------------------------------------------
(***************************************************************************)
(* Properties                                                              *)
(***************************************************************************)

(* The comments of a page have distinct ids, by which ForEach(comments)    *)
(* tells its rows apart, however additions and late answers alternate --   *)
(* unless an answer came into the handler of the button.                   *)
UniqueIds ==
    \A v \in Visits :
        ~raced[v] => \A i, j \in DOMAIN comments[v] :
            comments[v][i].id = comments[v][j].id => i = j

(* A page shows the comments of its own protocol, although the answer for  *)
(* a page that was left comes while another is on the screen.              *)
PageShowsItsProtocol ==
    \A v \in Visits : \A i \in DOMAIN comments[v] :
        comments[v][i].project = project[v]

(* The comments of others on a page are one whole answer, never a mixture  *)
(* of two, with the user's own comments after them and nothing between;    *)
(* and that answer is the last one that came, unless it came into the      *)
(* handler of the button, which then writes an older copy back over it     *)
(* (ProtocolDetailView.swift:193-196, 213).                                *)
Answers(p) == {CommentsOf(p, docs) : docs \in Threads} \union {<<>>}
Follows(s, a) ==
    /\ Len(a) <= Len(s)
    /\ \A i \in DOMAIN s : IF i <= Len(a) THEN s[i] = a[i] ELSE s[i].own
LastAnswerShown ==
    \A v \in Visits : \E a \in Answers(project[v]) :
        /\ Follows(comments[v], a)
        /\ ~raced[v] => a = answer[v]
=============================================================================

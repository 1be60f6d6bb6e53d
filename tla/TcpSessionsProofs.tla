-------------------------- MODULE TcpSessionsProofs --------------------------
(***************************************************************************)
(* The sessions' write chains, the order of what is sent and the delivery  *)
(* to logged-in clients, for every number of connections, handles and      *)
(* accounts and every set of notifications and login requests.             *)
(***************************************************************************)
EXTENDS TcpSessions, FiniteSetTheorems, SequenceTheorems, TLAPS

Requests == [acct : Accounts, resend : BOOLEAN, algo : Nat, order : Nat, trade : Nat]

\* Only the answer to a login is sent to one session.
StrandTasks ==
    [op : {"send"}, session : {NoSession}, msg : Notifications]
        \cup [op : {"send"}, session : Sessions, msg : {LoginResponse}]
        \cup [op : {"offset"}, pkg : Packages]
        \cup [op : {"resend"}, session : Sessions, req : Requests]

PostedTasks == [op : {"push"}, pkg : Packages] \cup [op : {"write"}]

\* Line(s), of any queues.
AllPushed(taken) == [i \in DOMAIN taken |-> Push(taken[i])]
LineOf(took, queue, tasks) == AllPushed(took \o queue) \o tasks

Pushes(line) == {i \in DOMAIN line : line[i].op = "push"}
Pkgs(line) == {line[i].pkg : i \in Pushes(line)}
Ascending(line) == \A i, j \in Pushes(line) : i < j => line[i].pkg.nth < line[j].pkg.nth

-----------------------------------------------------------------------------
(* The inductive invariant *)

Typed ==
    /\ conn \in [Sessions -> {"none", "open", "closed"}]
    /\ handle \in [Sessions -> Handles \cup {NoHandle}]
    /\ reading \in [Sessions -> BOOLEAN] /\ writing \in [Sessions -> 0..1]
    /\ removing \subseteq Sessions
    /\ request \in [Sessions -> Requests \cup {NoRequest}]
    /\ \A s \in Sessions : request[s] \in LoginRequests[s] \cup {NoRequest}
    /\ logins \in Seq(Sessions)
    /\ loginAcctKeys \in [Sessions -> SUBSET Accounts]
    /\ acctKey2TCPSessions \in [Accounts -> [Handles -> Sessions \cup {NoSession}]]
    /\ strand \in Seq(StrandTasks)
    /\ messages \subseteq Packages
    /\ acctSentAcknMaxMessageId \in [Accounts -> Nat]
    /\ posted \in [Sessions -> Seq(PostedTasks)]
    /\ sendingMessageQueue \in [Sessions -> Seq(Packages)]
    /\ sent \in [Sessions -> Seq(Packages)]
    /\ since \in [Sessions -> Nat]

\* Each number is given once, and nth counts the messages.
Numbered ==
    /\ IsFiniteSet(messages)
    /\ \A m \in messages : m.nth <= NumMessages
    /\ \A m, k \in messages : m.id = k.id => m = k

\* The write chain, of a session that is not connected yet or any more, too.
ChainOf(s) ==
    /\ conn[s] # "open" => posted[s] = <<>> /\ sent[s] = <<>>
    /\ conn[s] = "none" => sendingMessageQueue[s] = <<>> /\ writing[s] = 0
    /\ conn[s] = "closed" => Len(sendingMessageQueue[s]) = writing[s]
    /\ s \in removing => conn[s] = "closed"
    /\ conn[s] = "open" =>
         IF sendingMessageQueue[s] = <<>>
         THEN writing[s] = 0 /\ WritesPosted(s) = {}
         ELSE \/ writing[s] = 1 /\ WritesPosted(s) = {}
              \/ writing[s] = 0 /\ \E i \in DOMAIN posted[s] : WritesPosted(s) = {i}

Chain == \A s \in Sessions : ChainOf(s)

\* Whatever is on its way has a number.
Known == \A s \in Sessions : Pkgs(Line(s)) \subseteq messages

\* Old messages are sent again only to the clients that asked for them.
ResendsAsked ==
    \A task \in Range(strand) : task.op = "resend" =>
        LET s == task.session
        IN  request[s] # NoRequest /\ task.req = request[s] /\ request[s].resend

\* So every other line is in the order of sending, before the client's login as well.
LinesAscend ==
    \A s \in Sessions : request[s] = NoRequest \/ ~request[s].resend => Ascending(Line(s))

\* One login per connection, of one account.
OneLogin ==
    /\ \A i \in DOMAIN logins : request[logins[i]] # NoRequest /\ loginAcctKeys[logins[i]] = {}
    /\ \A i, j \in DOMAIN logins : logins[i] = logins[j] => i = j
    /\ \A s \in Sessions :
         /\ loginAcctKeys[s] # {} => request[s] # NoRequest /\ loginAcctKeys[s] = {request[s].acct}
         /\ conn[s] = "none" => request[s] = NoRequest /\ handle[s] = NoHandle /\ ~reading[s]
         /\ conn[s] # "none" => handle[s] \in Handles

\* A session is registered under its own handle, and one whose handle nobody else
\* ever had is registered as long as it is logged in.
RegisteredByHandle ==
    /\ \A a \in Accounts, h \in Handles :
         acctKey2TCPSessions[a][h] # NoSession => handle[acctKey2TCPSessions[a][h]] = h
    /\ \A s \in Sessions : LoggedIn(s) /\ SoleHandle(s) =>
         acctKey2TCPSessions[request[s].acct][handle[s]] = s

LineInv ==
    Typed /\ Numbered /\ Chain /\ Known /\ ResendsAsked /\ LinesAscend /\ OneLogin

-----------------------------------------------------------------------------
(* Lines *)

LEMMA Joined ==
    ASSUME NEW S, NEW x \in Seq(S), NEW y \in Seq(S)
    PROVE  /\ x \o y \in Seq(S)
           /\ \A i \in DOMAIN x : i \in DOMAIN (x \o y) /\ (x \o y)[i] = x[i]
           /\ \A i \in DOMAIN y : Len(x) + i \in DOMAIN (x \o y) /\ (x \o y)[Len(x) + i] = y[i]
  OBVIOUS

LEMMA Ranges ==
    ASSUME NEW S, NEW x \in Seq(S)
    PROVE  /\ Range(x) \subseteq S
           /\ \A y \in Seq(S) : Range(x \o y) = Range(x) \cup Range(y)
           /\ \A e \in S : Range(Append(x, e)) = Range(x) \cup {e}
           /\ x # <<>> => Range(x) = {Head(x)} \cup Range(Tail(x))
<1>1. Range(x) \subseteq S
  BY DEF Range
<1>2. ASSUME NEW y \in Seq(S) PROVE Range(x \o y) = Range(x) \cup Range(y)
  <2> DEFINE both == x \o y
             a == Len(x)
  <2>1. \A i \in DOMAIN both :
           \/ i \in DOMAIN x /\ both[i] = x[i]
           \/ i - a \in DOMAIN y /\ both[i] = y[i - a]
    OBVIOUS
  <2>2. /\ \A i \in DOMAIN x : i \in DOMAIN both /\ both[i] = x[i]
        /\ \A i \in DOMAIN y : a + i \in DOMAIN both /\ both[a + i] = y[i]
    OBVIOUS
  <2> HIDE DEF both, a
  <2>3. Range(both) \subseteq Range(x) \cup Range(y)
    BY <2>1 DEF Range
  <2>4. Range(x) \subseteq Range(both) /\ Range(y) \subseteq Range(both)
    BY <2>2 DEF Range
  <2>5. Range(both) = Range(x) \cup Range(y)
    BY <2>3, <2>4
  <2> QED BY <2>5 DEF both
<1>3. ASSUME NEW e \in S PROVE Range(Append(x, e)) = Range(x) \cup {e}
  <2>1. /\ DOMAIN Append(x, e) = DOMAIN x \cup {Len(x) + 1} /\ Append(x, e)[Len(x) + 1] = e
        /\ \A i \in DOMAIN x : Append(x, e)[i] = x[i]
    OBVIOUS
  <2> QED BY <2>1 DEF Range
<1>4. ASSUME x # <<>> PROVE Range(x) = {Head(x)} \cup Range(Tail(x))
  <2>1. /\ 1 \in DOMAIN x /\ x[1] = Head(x)
        /\ \A i \in DOMAIN Tail(x) : i + 1 \in DOMAIN x /\ Tail(x)[i] = x[i + 1]
        /\ \A i \in DOMAIN x : i = 1 \/ (i - 1 \in DOMAIN Tail(x) /\ Tail(x)[i - 1] = x[i])
    BY <1>4
  <2> DEFINE tail == Tail(x)
  <2> HIDE DEF tail
  <2>2. Range(x) \subseteq {Head(x)} \cup Range(tail)
    BY <2>1 DEF Range, tail
  <2>3. Head(x) \in Range(x) /\ Range(tail) \subseteq Range(x)
    BY <2>1 DEF Range, tail
  <2> QED BY <2>2, <2>3 DEF tail
<1> QED BY <1>1, <1>2, <1>3, <1>4

LEMMA LastOn ==
    ASSUME NEW S, NEW x \in Seq(S), NEW e \in S
    PROVE  Append(x, e) \in Seq(S) /\ Append(x, e) # <<>> /\ Len(Append(x, e)) = Len(x) + 1
<1>1. Append(x, e) \in Seq(S) /\ Len(Append(x, e)) = Len(x) + 1 /\ Len(x) \in Nat
  OBVIOUS
<1>2. Len(Append(x, e)) # 0
  BY <1>1
<1>3. Append(x, e) = <<>> => Len(Append(x, e)) = 0
  OBVIOUS
<1> QED BY <1>1, <1>2, <1>3

LEMMA FirstOff ==
    ASSUME NEW S, NEW x \in Seq(S), x # <<>>
    PROVE  /\ Head(x) \in S /\ Tail(x) \in Seq(S) /\ Len(Tail(x)) = Len(x) - 1
           /\ Len(x) \in Nat \ {0} /\ Head(x) = x[1] /\ 1 \in DOMAIN x
           /\ Tail(x) = <<>> <=> Len(x) <= 1
<1>1. Head(x) \in S /\ Tail(x) \in Seq(S) /\ Len(Tail(x)) = Len(x) - 1
  BY HeadTailProperties
<1>2. Len(x) \in Nat \ {0} /\ Head(x) = x[1] /\ 1 \in DOMAIN x
  BY EmptySeq, LenProperties
<1>3. Tail(x) = <<>> <=> Len(Tail(x)) = 0
  BY <1>1, EmptySeq
<1> QED BY <1>1, <1>2, <1>3

LEMMA PushedTyped ==
    ASSUME NEW taken \in Seq(Packages)
    PROVE  /\ AllPushed(taken) \in Seq(PostedTasks) /\ Len(AllPushed(taken)) = Len(taken)
           /\ \A pkg \in Packages : AllPushed(Append(taken, pkg)) = Append(AllPushed(taken), Push(pkg))
<1>1. \A p \in Packages : Push(p) \in PostedTasks
  BY DEF Push, PostedTasks
<1>2. DOMAIN taken = 1..Len(taken) /\ Len(taken) \in Nat /\ \A i \in DOMAIN taken : taken[i] \in Packages
  OBVIOUS
<1>3. AllPushed(taken) \in [1..Len(taken) -> PostedTasks]
  BY <1>1, <1>2 DEF AllPushed
<1>4. AllPushed(taken) \in Seq(PostedTasks) /\ Len(AllPushed(taken)) = Len(taken)
  BY <1>2, <1>3
<1>5. ASSUME NEW pkg \in Packages
      PROVE  AllPushed(Append(taken, pkg)) = Append(AllPushed(taken), Push(pkg))
  BY <1>1, <1>2, <1>4 DEF AllPushed
<1> QED BY <1>4, <1>5

LEMMA LineTyped ==
    ASSUME NEW took \in Seq(Packages), NEW queue \in Seq(Packages), NEW tasks \in Seq(PostedTasks)
    PROVE  LineOf(took, queue, tasks) \in Seq(PostedTasks)
<1>1. took \o queue \in Seq(Packages)
  OBVIOUS
<1>2. AllPushed(took \o queue) \in Seq(PostedTasks)
  BY <1>1, PushedTyped
<1> QED BY <1>2 DEF LineOf

\* The first posted package moves to the queue, the first of the queue to the socket,
\* and what is posted comes last.
LEMMA LineMoves ==
    ASSUME NEW took \in Seq(Packages), NEW queue \in Seq(Packages), NEW tasks \in Seq(PostedTasks)
    PROVE  /\ \A pkg \in Packages : tasks # <<>> /\ Head(tasks) = Push(pkg) =>
                LineOf(took, Append(queue, pkg), Tail(tasks)) = LineOf(took, queue, tasks)
           /\ queue # <<>> =>
                LineOf(Append(took, Head(queue)), Tail(queue), tasks) = LineOf(took, queue, tasks)
           /\ \A more \in Seq(PostedTasks) :
                LineOf(took, queue, tasks \o more) = LineOf(took, queue, tasks) \o more
<1>1. ASSUME NEW pkg \in Packages, tasks # <<>>, Head(tasks) = Push(pkg)
      PROVE  LineOf(took, Append(queue, pkg), Tail(tasks)) = LineOf(took, queue, tasks)
  <2>1. took \o Append(queue, pkg) = Append(took \o queue, pkg) /\ took \o queue \in Seq(Packages)
    OBVIOUS
  <2>2. AllPushed(took \o Append(queue, pkg)) = Append(AllPushed(took \o queue), Head(tasks))
    BY <1>1, <2>1, PushedTyped
  <2>3. \A first \in Seq(PostedTasks) : Append(first, Head(tasks)) \o Tail(tasks) = first \o tasks
    BY <1>1
  <2> QED BY <2>1, <2>2, <2>3, PushedTyped DEF LineOf
<1>2. ASSUME queue # <<>>
      PROVE  LineOf(Append(took, Head(queue)), Tail(queue), tasks) = LineOf(took, queue, tasks)
  <2>1. Append(took, Head(queue)) \o Tail(queue) = took \o queue
    BY <1>2
  <2> QED BY <2>1 DEF LineOf
<1>3. ASSUME NEW more \in Seq(PostedTasks)
      PROVE  LineOf(took, queue, tasks \o more) = LineOf(took, queue, tasks) \o more
  <2>1. \A first \in Seq(PostedTasks) : first \o (tasks \o more) = (first \o tasks) \o more
    OBVIOUS
  <2>2. took \o queue \in Seq(Packages)
    OBVIOUS
  <2>3. AllPushed(took \o queue) \in Seq(PostedTasks)
    BY <2>2, PushedTyped
  <2> QED BY <2>1, <2>3 DEF LineOf
<1> QED BY <1>1, <1>2, <1>3

LEMMA PushTyped ==
    ASSUME NEW task \in PostedTasks
    PROVE  /\ task.op \in {"push", "write"}
           /\ task.op = "push" => task.pkg \in Packages /\ task = Push(task.pkg)
           /\ task.op = "write" => task = WriteNext
  BY DEF PostedTasks, Push, WriteNext

\* A write does not count in a line, and one package more is the last.
LEMMA OneMoreTask ==
    ASSUME NEW line \in Seq(PostedTasks)
    PROVE  /\ Pkgs(Append(line, WriteNext)) = Pkgs(line)
           /\ Ascending(line) => Ascending(Append(line, WriteNext))
           /\ \A pkg \in Packages : Pkgs(Append(line, Push(pkg))) = Pkgs(line) \cup {pkg}
           /\ \A pkg \in Packages : Ascending(line) /\ (\A p \in Pkgs(line) : p.nth < pkg.nth)
                => Ascending(Append(line, Push(pkg)))
<1>1. ASSUME NEW task
      PROVE  /\ DOMAIN Append(line, task) = DOMAIN line \cup {Len(line) + 1}
             /\ Append(line, task)[Len(line) + 1] = task
             /\ \A i \in DOMAIN line : Append(line, task)[i] = line[i]
             /\ \A i \in DOMAIN line : i \in Nat /\ i < Len(line) + 1
  OBVIOUS
<1>2. /\ Pkgs(Append(line, WriteNext)) = Pkgs(line)
      /\ Ascending(line) => Ascending(Append(line, WriteNext))
  BY <1>1 DEF Pkgs, Pushes, Ascending, WriteNext
<1>3. ASSUME NEW pkg \in Packages
      PROVE  Pkgs(Append(line, Push(pkg))) = Pkgs(line) \cup {pkg}
  BY <1>1 DEF Pkgs, Pushes, Push
<1>4. ASSUME NEW pkg \in Packages, Ascending(line), \A p \in Pkgs(line) : p.nth < pkg.nth
      PROVE  Ascending(Append(line, Push(pkg)))
  <2> SUFFICES ASSUME NEW i \in Pushes(Append(line, Push(pkg))), NEW j \in Pushes(Append(line, Push(pkg))), i < j
               PROVE  Append(line, Push(pkg))[i].pkg.nth < Append(line, Push(pkg))[j].pkg.nth
    BY DEF Ascending
  <2>1. i \in DOMAIN line /\ i \in Pushes(line)
    BY <1>1 DEF Pushes
  <2>2. CASE j \in DOMAIN line
    BY <1>1, <1>4, <2>1, <2>2 DEF Pushes, Ascending
  <2>3. CASE j = Len(line) + 1
    BY <1>1, <1>4, <2>1, <2>3 DEF Pkgs, Push
  <2> QED BY <1>1, <2>2, <2>3 DEF Pushes
<1> QED BY <1>2, <1>3, <1>4

\* A write that is taken out of a line changes nothing either.
LEMMA OneWriteLess ==
    ASSUME NEW first \in Seq(PostedTasks), NEW tasks \in Seq(PostedTasks),
           tasks # <<>>, Head(tasks) = WriteNext
    PROVE  /\ Pkgs(first \o Tail(tasks)) = Pkgs(first \o tasks)
           /\ Ascending(first \o tasks) => Ascending(first \o Tail(tasks))
<1> DEFINE old == first \o tasks
           new == first \o Tail(tasks)
           k == Len(first) + 1
<1>1. /\ Len(tasks) \in Nat \ {0} /\ Tail(tasks) \in Seq(PostedTasks) /\ Len(Tail(tasks)) = Len(tasks) - 1
      /\ \A i \in 1..Len(Tail(tasks)) : Tail(tasks)[i] = tasks[i + 1]
      /\ Len(first) \in Nat /\ tasks[1] = WriteNext
  OBVIOUS
<1>2. /\ DOMAIN old = 1..(Len(first) + Len(tasks)) /\ DOMAIN new = 1..(Len(first) + Len(tasks) - 1)
      /\ \A i \in 1..Len(first) : old[i] = first[i] /\ new[i] = first[i]
      /\ \A i \in 1..Len(tasks) : old[Len(first) + i] = tasks[i]
      /\ \A i \in 1..Len(Tail(tasks)) : new[Len(first) + i] = Tail(tasks)[i]
  BY <1>1
<1> HIDE DEF old, new
<1>3. /\ k \in Nat /\ old[k] = WriteNext /\ k \in DOMAIN old
      /\ \A i \in DOMAIN new : i \in Nat
      /\ \A i \in DOMAIN old : i \in Nat
      /\ \A i \in DOMAIN new : i < k => i \in DOMAIN old /\ new[i] = old[i]
  BY <1>1, <1>2
<1>4. ASSUME NEW i \in DOMAIN new, i >= k PROVE i + 1 \in DOMAIN old /\ new[i] = old[i + 1]
  <2>1. i - Len(first) \in 1..Len(Tail(tasks)) /\ Len(first) + (i - Len(first)) = i
    BY <1>1, <1>2, <1>4
  <2>2. new[i] = tasks[(i - Len(first)) + 1]
    BY <1>1, <1>2, <2>1
  <2>3. (i - Len(first)) + 1 \in 1..Len(tasks) /\ Len(first) + ((i - Len(first)) + 1) = i + 1
    BY <1>1, <1>2, <2>1
  <2> QED BY <1>1, <1>2, <1>4, <2>2, <2>3
<1>5. ASSUME NEW i \in DOMAIN old, i # k
      PROVE  \E j \in DOMAIN new : new[j] = old[i]
  <2>1. CASE i < k
    BY <1>1, <1>2, <2>1
  <2>2. CASE i > k
    <3>1. i - 1 \in DOMAIN new /\ i - 1 >= k /\ (i - 1) + 1 = i
      BY <1>1, <1>2, <2>2
    <3> QED BY <1>4, <3>1
  <2> QED BY <1>2, <1>5, <2>1, <2>2
<1>6. old[k].op # "push"
  BY <1>3 DEF WriteNext
<1> HIDE DEF k
<1>7. Pkgs(new) \subseteq Pkgs(old)
  BY <1>3, <1>4 DEF Pkgs, Pushes
<1>8. Pkgs(old) \subseteq Pkgs(new)
  BY <1>5, <1>6 DEF Pkgs, Pushes
<1>9. ASSUME Ascending(old), NEW i \in Pushes(new), NEW j \in Pushes(new), i < j
      PROVE  new[i].pkg.nth < new[j].pkg.nth
  <2>1. i \in DOMAIN new /\ j \in DOMAIN new /\ i \in Nat /\ j \in Nat
    BY <1>3 DEF Pushes
  <2>2. CASE j < k
    BY <1>3, <1>9, <2>1, <2>2 DEF Pushes, Ascending
  <2>3. CASE i < k /\ j >= k
    <3>1. i \in Pushes(old) /\ j + 1 \in Pushes(old) /\ i < j + 1
      BY <1>3, <1>4, <1>9, <2>1, <2>3 DEF Pushes
    <3> QED BY <1>3, <1>4, <1>9, <2>1, <2>3, <3>1 DEF Ascending
  <2>4. CASE i >= k
    <3>1. i + 1 \in Pushes(old) /\ j + 1 \in Pushes(old) /\ i + 1 < j + 1 /\ j >= k
      BY <1>3, <1>4, <1>9, <2>1, <2>4 DEF Pushes
    <3> QED BY <1>4, <1>9, <2>1, <2>4, <3>1 DEF Ascending
  <2> QED BY <1>3, <1>9, <2>1, <2>2, <2>3, <2>4
<1> QED BY <1>7, <1>8, <1>9 DEF old, new, Ascending

\* Lines get longer at the end only.
LEMMA MoreTasks ==
    ASSUME NEW line \in Seq(PostedTasks), NEW pkgs \in Seq(Packages)
    PROVE  Pkgs(line \o AllPushed(pkgs)) = Pkgs(line) \cup {pkgs[i] : i \in DOMAIN pkgs}
<1> DEFINE new == line \o AllPushed(pkgs)
           a == Len(line)
<1>1. /\ a \in Nat /\ \A i \in DOMAIN new : i \in Nat
      /\ \A i \in DOMAIN line : i \in DOMAIN new /\ new[i] = line[i]
      /\ \A i \in DOMAIN pkgs : a + i \in DOMAIN new /\ new[a + i] = AllPushed(pkgs)[i]
      /\ \A i \in DOMAIN new :
           \/ i \in DOMAIN line
           \/ i - a \in DOMAIN pkgs /\ new[i] = AllPushed(pkgs)[i - a]
  <2>1. AllPushed(pkgs) \in Seq(PostedTasks) /\ Len(AllPushed(pkgs)) = Len(pkgs)
    BY PushedTyped
  <2> QED BY <2>1
<1>2. \A i \in DOMAIN pkgs : AllPushed(pkgs)[i] = Push(pkgs[i])
  BY DEF AllPushed
<1> HIDE DEF new, a
<1>3. ASSUME NEW i \in Pushes(new) PROVE new[i].pkg \in Pkgs(line) \cup {pkgs[j] : j \in DOMAIN pkgs}
  <2>1. CASE i \in DOMAIN line
    BY <1>1, <1>3, <2>1 DEF Pkgs, Pushes
  <2>2. CASE i - a \in DOMAIN pkgs /\ new[i] = AllPushed(pkgs)[i - a]
    <3>1. new[i] = Push(pkgs[i - a])
      BY <1>2, <2>2
    <3>2. new[i].pkg = pkgs[i - a]
      BY <3>1 DEF Push
    <3> QED BY <2>2, <3>2
  <2> QED BY <1>1, <1>3, <2>1, <2>2 DEF Pushes
<1>4. Pkgs(line) \subseteq Pkgs(new)
  BY <1>1 DEF Pkgs, Pushes
<1>5. ASSUME NEW i \in DOMAIN pkgs PROVE pkgs[i] \in Pkgs(new)
  <2>1. a + i \in DOMAIN new /\ new[a + i] = Push(pkgs[i])
    BY <1>1, <1>2
  <2> QED BY <2>1 DEF Pkgs, Pushes, Push
<1>6. Pkgs(new) \subseteq Pkgs(line) \cup {pkgs[i] : i \in DOMAIN pkgs}
  BY <1>3 DEF Pkgs
<1> QED BY <1>4, <1>5, <1>6 DEF new

-----------------------------------------------------------------------------
(* Sorting by number *)

SortedLines(pkgs) ==
    {line \in Bijection(1..Cardinality(pkgs), pkgs) :
        \A i, j \in DOMAIN line : i < j => line[i].id < line[j].id}

\* A set of packages with one more, of a larger number, is sorted by adding it.
LEMMA SortOneMore ==
    ASSUME NEW pkgs, IsFiniteSet(pkgs), NEW pkg, \A p \in pkgs : p.id < pkg.id /\ p # pkg,
           SortedLines(pkgs) # {}
    PROVE  SortedLines(pkgs \cup {pkg}) # {}
<1> DEFINE c == Cardinality(pkgs)
<1>1. c \in Nat /\ Cardinality(pkgs \cup {pkg}) = c + 1
  BY FS_AddElement, FS_CardinalityType
<1>2. PICK line \in [1..c -> pkgs] :
        /\ \A i, j \in 1..c : line[i] = line[j] => i = j
        /\ \A p \in pkgs : \E i \in 1..c : line[i] = p
        /\ \A i, j \in 1..c : i < j => line[i].id < line[j].id
  BY DEF SortedLines, Bijection, Injection, Surjection, IsInjective
<1> HIDE DEF c
<1> DEFINE more == [i \in 1..(c + 1) |-> IF i = c + 1 THEN pkg ELSE line[i]]
<1>3. /\ \A i \in 1..c : more[i] = line[i] /\ i \in 1..(c + 1) /\ line[i] \in pkgs
      /\ more[c + 1] = pkg /\ c + 1 \in 1..(c + 1)
      /\ \A i \in 1..(c + 1) : i \in 1..c \/ i = c + 1
  BY <1>1, <1>2
<1>4. more \in [1..(c + 1) -> pkgs \cup {pkg}]
  BY <1>1, <1>2
<1> HIDE DEF more
<1>5. \A i, j \in 1..(c + 1) : more[i] = more[j] => i = j
  BY <1>2, <1>3
<1>6. \A p \in pkgs \cup {pkg} : \E i \in 1..(c + 1) : more[i] = p
  BY <1>2, <1>3
<1>7. ASSUME NEW i \in 1..(c + 1), NEW j \in 1..(c + 1), i < j PROVE more[i].id < more[j].id
  <2>1. i \in 1..c
    BY <1>1, <1>7
  <2> QED BY <1>2, <1>3, <1>7, <2>1
<1>8. more \in Bijection(1..(c + 1), pkgs \cup {pkg})
  BY <1>4, <1>5, <1>6 DEF Bijection, Injection, Surjection, IsInjective
<1> QED BY <1>1, <1>4, <1>7, <1>8 DEF SortedLines

\* By induction over the numbers, as a smallest number up to which they cannot be
\* sorted would contradict the lemma above.
LEMMA SortExists ==
    ASSUME NEW M, IsFiniteSet(M), NEW last \in Nat,
           \A m \in M : m.id \in 1..last, \A m, k \in M : m.id = k.id => m = k
    PROVE  SortedLines(M) # {}
<1> DEFINE UpTo(n) == {m \in M : m.id <= n}
           Bad == {n \in Nat : SortedLines(UpTo(n)) = {}}
<1>1. UpTo(last) = M
  OBVIOUS
<1>2. SUFFICES ASSUME Bad # {} PROVE FALSE
  BY <1>1
<1>3. PICK n \in Bad : \A k \in Bad : ~(k < n)
  <2>1. \E n \in Bad : \A k \in Bad : <<k, n>> \notin OpToRel(<, Nat)
    BY <1>2, WFMin, NatLessThanWellFounded
  <2> QED BY <2>1 DEF OpToRel
<1>4. n \in Nat /\ SortedLines(UpTo(n)) = {}
  BY <1>3
<1>5. n # 0
  <2> SUFFICES ASSUME n = 0 PROVE FALSE
    OBVIOUS
  <2>1. UpTo(n) = {}
    OBVIOUS
  <2>2. Cardinality({}) = 0
    BY FS_EmptySet
  <2>3. [i \in 1..0 |-> i] \in SortedLines({})
    BY <2>2 DEF SortedLines, Bijection, Injection, Surjection, IsInjective
  <2> QED BY <1>4, <2>1, <2>3
<1>6. n - 1 \in Nat /\ n - 1 < n
  BY <1>4, <1>5
<1>7. SortedLines(UpTo(n - 1)) # {}
  BY <1>3, <1>6
<1>8. IsFiniteSet(UpTo(n - 1))
  BY FS_Subset
<1>9. CASE \E m \in M : m.id = n
  <2>1. PICK m \in M : m.id = n
    BY <1>9
  <2>2. UpTo(n) = UpTo(n - 1) \cup {m}
    BY <1>4, <1>6, <2>1
  <2>3. \A p \in UpTo(n - 1) : p.id < m.id /\ p # m
    BY <1>6, <2>1
  <2> HIDE DEF UpTo
  <2> QED BY <1>4, <1>7, <1>8, <2>2, <2>3, SortOneMore
<1>10. CASE ~\E m \in M : m.id = n
  <2>1. UpTo(n) = UpTo(n - 1)
    BY <1>4, <1>6, <1>10
  <2> HIDE DEF UpTo
  <2> QED BY <1>4, <1>7, <2>1
<1> QED BY <1>9, <1>10

\* The numbers of a finite set have an upper bound: a smallest set without one would
\* get it from one element and the bound of the others.
LEMMA NumbersBounded ==
    ASSUME NEW M, IsFiniteSet(M), \A m \in M : m.id \in Nat
    PROVE  \E last \in Nat : \A m \in M : m.id <= last
<1> DEFINE Bounded(P) == \E last \in Nat : \A m \in P : m.id <= last
           Bad == {n \in Nat : \E P \in SUBSET M : Cardinality(P) = n /\ ~Bounded(P)}
<1>1. SUFFICES ASSUME ~Bounded(M) PROVE FALSE
  OBVIOUS
<1>2. Bad # {}
  <2>1. Cardinality(M) \in Nat /\ M \in SUBSET M
    BY FS_CardinalityType
  <2> HIDE DEF Bounded
  <2> QED BY <1>1, <2>1
<1>3. PICK n \in Bad : \A k \in Bad : ~(k < n)
  <2>1. \E n \in Bad : \A k \in Bad : <<k, n>> \notin OpToRel(<, Nat)
    BY <1>2, WFMin, NatLessThanWellFounded
  <2> QED BY <2>1 DEF OpToRel
<1> HIDE DEF Bounded
<1>4. PICK P \in SUBSET M : Cardinality(P) = n /\ ~Bounded(P)
  BY <1>3
<1>5. P # {}
  <2>1. Bounded({})
    BY DEF Bounded
  <2> QED BY <1>4, <2>1
<1>6. PICK p : p \in P
  BY <1>5
<1>7. /\ IsFiniteSet(P) /\ n \in Nat /\ Cardinality(P \ {p}) = n - 1
      /\ Cardinality(P \ {p}) \in Nat
  BY <1>3, <1>4, <1>6, FS_Subset, FS_RemoveElement, FS_CardinalityType
<1>8. Bounded(P \ {p})
  <2>1. n - 1 \notin Bad
    BY <1>3, <1>7
  <2> QED BY <1>7, <2>1
<1>9. PICK last \in Nat : \A m \in P \ {p} : m.id <= last
  BY <1>8 DEF Bounded
<1>10. p.id \in Nat
  BY <1>6
<1>11. CASE p.id <= last
  BY <1>4, <1>9, <1>11 DEF Bounded
<1>12. CASE ~(p.id <= last)
  <2>1. \A m \in P : m.id \in Nat /\ (m = p \/ m.id <= last)
    BY <1>4, <1>9
  <2>2. \A m \in P : m.id <= p.id
    BY <1>10, <1>12, <2>1
  <2> QED BY <1>4, <1>10, <2>2 DEF Bounded
<1> QED BY <1>11, <1>12

\* What is sent again is all that was asked for, each package once.
LEMMA ByIdSorts ==
    ASSUME Numbered, messages \subseteq Packages, NEW pkgs, pkgs \subseteq messages
    PROVE  /\ ById(pkgs) \in Seq(Packages)
           /\ {ById(pkgs)[i] : i \in DOMAIN ById(pkgs)} = pkgs
<1>1. IsFiniteSet(pkgs) /\ \A m \in pkgs : m.id \in Nat \ {0}
  BY FS_Subset DEF Numbered, Packages
<1>2. PICK last \in Nat : \A m \in pkgs : m.id <= last
  BY <1>1, NumbersBounded
<1>3. SortedLines(pkgs) # {}
  <2>1. \A m \in pkgs : m.id \in 1..last
    BY <1>1, <1>2
  <2>2. \A m, k \in pkgs : m.id = k.id => m = k
    BY DEF Numbered
  <2> QED BY <1>1, <2>1, <2>2, SortExists
<1>4. ById(pkgs) \in Bijection(1..Cardinality(pkgs), pkgs)
  BY <1>3 DEF SortedLines, ById
<1>5. Cardinality(pkgs) \in Nat
  BY <1>1, FS_CardinalityType
<1>6. /\ ById(pkgs) \in [1..Cardinality(pkgs) -> pkgs]
      /\ \A p \in pkgs : \E i \in 1..Cardinality(pkgs) : ById(pkgs)[i] = p
  BY <1>4 DEF Bijection, Injection, Surjection
<1>7. ById(pkgs) \in Seq(Packages)
  <2>1. ById(pkgs) \in [1..Cardinality(pkgs) -> Packages]
    BY <1>6
  <2> QED BY <1>5, <2>1
<1> QED BY <1>6, <1>7

-----------------------------------------------------------------------------
(* The steps of the write chain *)

LEMMA LineIs == ASSUME NEW s PROVE Line(s) = LineOf(sent[s], sendingMessageQueue[s], posted[s])
  BY DEF Line, LineOf, AllPushed

LEMMA LinesTyped ==
    ASSUME Typed, NEW s \in Sessions
    PROVE  Line(s) \in Seq(PostedTasks)
  BY LineIs, LineTyped DEF Typed

\* What is queued for its targets comes last in their lines, and adds no write.
LEMMA QueuedLast ==
    ASSUME Typed, NEW targets, NEW pkgs \in Seq(Packages), posted' = Queued(targets, pkgs),
           UNCHANGED <<conn, sendingMessageQueue, sent>>, NEW s \in Sessions
    PROVE  /\ posted' \in [Sessions -> Seq(PostedTasks)]
           /\ IF s \in targets /\ conn[s] = "open"
              THEN /\ posted'[s] = posted[s] \o AllPushed(pkgs)
                   /\ Line(s)' = Line(s) \o AllPushed(pkgs)
              ELSE posted'[s] = posted[s] /\ Line(s)' = Line(s)
           /\ WritesPosted(s)' = WritesPosted(s)
<1>1. AllPushed(pkgs) \in Seq(PostedTasks) /\ Len(AllPushed(pkgs)) = Len(pkgs)
  BY PushedTyped
<1>2. \A t \in Sessions : posted'[t] = IF t \in targets /\ conn[t] = "open"
                                       THEN posted[t] \o AllPushed(pkgs) ELSE posted[t]
  BY DEF Queued, AllPushed
<1>3. \A t \in Sessions : posted[t] \in Seq(PostedTasks)
  BY DEF Typed
<1>4. \A t \in Sessions : posted[t] \o AllPushed(pkgs) \in Seq(PostedTasks)
  BY <1>1, <1>3
<1>5. posted' \in [Sessions -> Seq(PostedTasks)]
  BY <1>2, <1>3, <1>4 DEF Queued
<1>6. Line(s)' = LineOf(sent[s], sendingMessageQueue[s], posted'[s])
  BY DEF Line, LineOf, AllPushed
<1>7. CASE s \in targets /\ conn[s] = "open"
  <2>1. posted'[s] = posted[s] \o AllPushed(pkgs)
    BY <1>2, <1>7
  <2>2. Line(s)' = Line(s) \o AllPushed(pkgs)
    <3>1. sent[s] \in Seq(Packages) /\ sendingMessageQueue[s] \in Seq(Packages)
      BY DEF Typed
    <3>2. LineOf(sent[s], sendingMessageQueue[s], posted[s] \o AllPushed(pkgs))
             = LineOf(sent[s], sendingMessageQueue[s], posted[s]) \o AllPushed(pkgs)
      BY <1>1, <1>3, <3>1, LineMoves
    <3> QED BY <1>6, <2>1, <3>2, LineIs
  <2>3. WritesPosted(s)' = WritesPosted(s)
    <3>1. \A i \in DOMAIN pkgs : AllPushed(pkgs)[i].op = "push"
      BY DEF AllPushed, Push
    <3>2. ASSUME NEW i \in DOMAIN posted'[s]
          PROVE  \/ i \in DOMAIN posted[s] /\ posted'[s][i] = posted[s][i]
                 \/ i \notin DOMAIN posted[s] /\ posted'[s][i].op = "push"
      <4>1. CASE i \in DOMAIN posted[s]
        BY <1>1, <1>3, <2>1, <4>1
      <4>2. CASE i \notin DOMAIN posted[s]
        <5>1. /\ i - Len(posted[s]) \in DOMAIN pkgs
              /\ posted'[s][i] = AllPushed(pkgs)[i - Len(posted[s])]
          BY <1>1, <1>3, <2>1, <3>2, <4>2
        <5> QED BY <3>1, <4>2, <5>1
      <4> QED BY <4>1, <4>2
    <3>3. \A i \in DOMAIN posted[s] : i \in DOMAIN posted'[s] /\ posted'[s][i] = posted[s][i]
      BY <1>1, <1>3, <2>1
    <3> QED BY <3>2, <3>3 DEF WritesPosted
  <2> QED BY <1>5, <1>7, <2>1, <2>2, <2>3
<1>8. CASE ~(s \in targets /\ conn[s] = "open")
  <2>1. posted'[s] = posted[s]
    BY <1>2, <1>8
  <2> QED BY <1>5, <1>6, <1>8, <2>1, LineIs DEF WritesPosted
<1> QED BY <1>7, <1>8

\* The chain does not see what is posted to another strand or registered.
LEMMA ChainKept ==
    ASSUME Chain, Known, messages \subseteq messages', removing' \subseteq removing,
           UNCHANGED <<conn, writing, posted, sendingMessageQueue, sent>>
    PROVE  Chain' /\ Known'
<1>1. \A s \in Sessions : Line(s)' = Line(s) /\ WritesPosted(s)' = WritesPosted(s)
  BY DEF Line, WritesPosted
<1>2. Chain'
  BY <1>1 DEF Chain, ChainOf
<1>3. Known'
  <2> SUFFICES ASSUME NEW s \in Sessions PROVE Pkgs(Line(s)') \subseteq messages'
    BY DEF Known, Pkgs, Pushes
  <2> QED BY <1>1 DEF Known
<1> QED BY <1>2, <1>3

\* A step of one session: the others keep their chains and their lines.
LEMMA OneSessionsStep ==
    ASSUME Typed, Chain, Known, NEW s \in Sessions,
           \A t \in Sessions \ {s} :
               /\ conn'[t] = conn[t] /\ writing'[t] = writing[t] /\ posted'[t] = posted[t]
               /\ sendingMessageQueue'[t] = sendingMessageQueue[t] /\ sent'[t] = sent[t]
               /\ t \in removing' => t \in removing,
           ChainOf(s)', Pkgs(Line(s)') \subseteq Pkgs(Line(s)), UNCHANGED messages
    PROVE  Chain' /\ Known'
<1>1. \A t \in Sessions \ {s} : Line(t)' = Line(t) /\ WritesPosted(t)' = WritesPosted(t)
  BY DEF Line, WritesPosted
<1>2. Chain'
  <2> SUFFICES ASSUME NEW t \in Sessions \ {s} PROVE ChainOf(t)'
    BY DEF Chain
  <2> QED BY <1>1 DEF Chain, ChainOf
<1>3. Known'
  <2> SUFFICES ASSUME NEW t \in Sessions PROVE Pkgs(Line(t)') \subseteq messages
    BY DEF Known, Pkgs, Pushes
  <2>1. CASE t = s
    BY <2>1 DEF Known
  <2>2. CASE t # s
    BY <1>1, <2>2 DEF Known
  <2> QED BY <2>1, <2>2
<1> QED BY <1>2, <1>3

\* A posted task: a package joins the queue, or a write starts.
LEMMA ChainOnPosted ==
    ASSUME Typed, Chain, Known, NEW s \in Sessions, RunPosted(s)
    PROVE  /\ Chain' /\ Known'
           /\ sendingMessageQueue' \in [Sessions -> Seq(Packages)]
           /\ posted' \in [Sessions -> Seq(PostedTasks)]
           /\ writing' \in [Sessions -> 0..1]
           /\ Ascending(Line(s)) => Ascending(Line(s)')
           /\ Pkgs(Line(s)') = Pkgs(Line(s))
<1> USE DEF Typed
<1> DEFINE task == Head(posted[s])
           queue == sendingMessageQueue[s]
<1>1. /\ posted[s] # <<>> /\ task \in PostedTasks /\ posted[s] \in Seq(PostedTasks)
      /\ queue \in Seq(Packages) /\ sent[s] \in Seq(Packages)
      /\ Tail(posted[s]) \in Seq(PostedTasks)
      /\ writing[s] \in 0..1
  BY DEF RunPosted
<1>2. /\ posted' = [posted EXCEPT ![s] = Tail(posted[s])]
      /\ UNCHANGED <<conn, removing, sent, messages>>
  BY DEF RunPosted, connVars, managerVars
<1>3. conn[s] = "open" /\ ChainOf(s)
  BY <1>1 DEF Chain, ChainOf
<1>4. Line(s)' = LineOf(sent[s], sendingMessageQueue'[s], Tail(posted[s]))
  BY <1>2 DEF Line, LineOf, AllPushed
<1>5. /\ \A i \in DOMAIN Tail(posted[s]) : i + 1 \in DOMAIN posted[s] /\ Tail(posted[s])[i] = posted[s][i + 1]
      /\ \A i \in DOMAIN posted[s] : i # 1 => i - 1 \in DOMAIN Tail(posted[s])
      /\ 1 \in DOMAIN posted[s] /\ posted[s][1] = task
      /\ \A i \in DOMAIN posted[s] : i \in Nat
      /\ \A i \in DOMAIN Tail(posted[s]) : i \in Nat \ {0}
  BY <1>1
<1>6. WritesPosted(s)' = {i \in DOMAIN Tail(posted[s]) : Tail(posted[s])[i].op = "write"}
  BY <1>2 DEF WritesPosted
<1> HIDE DEF task
<1>7. CASE task.op = "push"
  <2>1. task.pkg \in Packages /\ task = Push(task.pkg)
    BY <1>1, <1>7, PushTyped
  <2>2. /\ sendingMessageQueue' = [sendingMessageQueue EXCEPT ![s] = Append(queue, task.pkg)]
        /\ writing' = IF MustWait(Append(queue, task.pkg)) THEN writing
                      ELSE Written(s, Append(queue, task.pkg))
    BY <1>7 DEF RunPosted, task
  <2>3. /\ sendingMessageQueue' \in [Sessions -> Seq(Packages)]
        /\ Append(queue, task.pkg) # <<>> /\ Len(Append(queue, task.pkg)) = Len(queue) + 1
        /\ sendingMessageQueue'[s] = Append(queue, task.pkg)
    <3>1. /\ Append(queue, task.pkg) \in Seq(Packages) /\ Append(queue, task.pkg) # <<>>
          /\ Len(Append(queue, task.pkg)) = Len(queue) + 1
      BY <1>1, <2>1, LastOn
    <3> QED BY <2>2, <3>1
  <2>4. Line(s)' = Line(s)
    BY <1>1, <1>4, <2>1, <2>3, LineIs, LineMoves DEF task
  <2>5. writing' = IF queue = <<>> THEN [writing EXCEPT ![s] = writing[s] + 1] ELSE writing
    BY <1>1, <1>3, <2>2, <2>3 DEF MustWait, Written
  <2>6. writing' \in [Sessions -> 0..1] /\ writing'[s] = IF queue = <<>> THEN 1 ELSE writing[s]
    BY <1>1, <1>3, <2>5 DEF ChainOf
  <2>7. /\ WritesPosted(s) = {} => WritesPosted(s)' = {}
        /\ \A i : WritesPosted(s) = {i} => i - 1 \in DOMAIN Tail(posted[s]) /\ WritesPosted(s)' = {i - 1}
    <3>1. 1 \notin WritesPosted(s)
      BY <1>5, <1>7 DEF WritesPosted
    <3>2. \A i \in WritesPosted(s)' : i + 1 \in WritesPosted(s)
      BY <1>5, <1>6 DEF WritesPosted
    <3>3. \A i \in WritesPosted(s) : i # 1 /\ i - 1 \in WritesPosted(s)' /\ i - 1 \in DOMAIN Tail(posted[s])
      <4> SUFFICES ASSUME NEW i \in WritesPosted(s)
                   PROVE  i # 1 /\ i - 1 \in WritesPosted(s)' /\ i - 1 \in DOMAIN Tail(posted[s])
        OBVIOUS
      <4>1. i \in DOMAIN posted[s] /\ i # 1 /\ i \in Nat /\ posted[s][i].op = "write"
        BY <1>5, <3>1 DEF WritesPosted
      <4>2. i - 1 \in DOMAIN Tail(posted[s]) /\ (i - 1) + 1 = i
        BY <1>5, <4>1
      <4>3. Tail(posted[s])[i - 1] = posted[s][i]
        BY <1>5, <4>2
      <4> QED BY <1>6, <4>1, <4>2, <4>3
    <3>4. \A i \in WritesPosted(s)' : i \in Nat
      BY <1>5, <1>6
    <3> QED BY <3>2, <3>3, <3>4
  <2>8. ChainOf(s)'
    <3>1. conn'[s] = "open" /\ (s \in removing' => FALSE)
      BY <1>2, <1>3 DEF ChainOf
    <3>2. posted'[s] = Tail(posted[s])
      BY <1>2
    <3>3. CASE queue = <<>>
      BY <1>3, <2>3, <2>6, <2>7, <3>1, <3>3 DEF ChainOf
    <3>4. CASE queue # <<>>
      BY <1>3, <2>3, <2>6, <2>7, <3>1, <3>2, <3>4 DEF ChainOf
    <3> QED BY <3>3, <3>4
  <2>9. Chain' /\ Known'
    BY <1>2, <2>2, <2>4, <2>5, <2>8, OneSessionsStep
  <2> QED BY <1>1, <1>2, <2>3, <2>4, <2>6, <2>9
<1>8. CASE task.op = "write"
  <2>1. task = WriteNext /\ 1 \in WritesPosted(s)
    BY <1>1, <1>5, <1>8, PushTyped DEF WritesPosted
  <2>2. /\ queue # <<>> /\ writing[s] = 0 /\ WritesPosted(s) = {1}
    BY <1>3, <2>1 DEF ChainOf
  <2>3. /\ sendingMessageQueue' = sendingMessageQueue
        /\ writing' = [writing EXCEPT ![s] = 1]
    BY <1>1, <1>3, <1>8, <2>2 DEF RunPosted, Written, task
  <2>4. Pkgs(Line(s)') = Pkgs(Line(s)) /\ (Ascending(Line(s)) => Ascending(Line(s)'))
    <3>1. sent[s] \o queue \in Seq(Packages)
      BY <1>1
    <3>2. AllPushed(sent[s] \o queue) \in Seq(PostedTasks)
      BY <3>1, PushedTyped
    <3>3. Line(s)' = AllPushed(sent[s] \o queue) \o Tail(posted[s])
      BY <1>4, <2>3 DEF LineOf
    <3>4. Line(s) = AllPushed(sent[s] \o queue) \o posted[s]
      BY LineIs DEF LineOf
    <3> QED BY <1>1, <2>1, <3>2, <3>3, <3>4, OneWriteLess DEF task
  <2>5. WritesPosted(s)' = {}
    <3>1. \A i \in WritesPosted(s)' : i + 1 \in WritesPosted(s) /\ i \in Nat \ {0}
      BY <1>5, <1>6 DEF WritesPosted
    <3> QED BY <2>2, <3>1
  <2>6. ChainOf(s)'
    BY <1>1, <1>2, <1>3, <2>2, <2>3, <2>5 DEF ChainOf
  <2>7. Chain' /\ Known'
    BY <1>2, <2>3, <2>4, <2>6, OneSessionsStep
  <2> QED BY <1>1, <1>2, <2>3, <2>4, <2>7
<1> QED BY <1>1, <1>7, <1>8, PushTyped

\* All of a session's packages are in its line.
LEMMA LineHas ==
    ASSUME Typed, NEW s \in Sessions
    PROVE  /\ \A i \in DOMAIN sent[s] : sent[s][i] \in Pkgs(Line(s))
           /\ \A i \in DOMAIN sendingMessageQueue[s] : sendingMessageQueue[s][i] \in Pkgs(Line(s))
<1> DEFINE took == sent[s]
           queue == sendingMessageQueue[s]
<1>1. took \in Seq(Packages) /\ queue \in Seq(Packages) /\ posted[s] \in Seq(PostedTasks)
  BY DEF Typed
<1>2. took \o queue \in Seq(Packages)
  BY <1>1
<1>3. AllPushed(took \o queue) \in Seq(PostedTasks) /\ Len(AllPushed(took \o queue)) = Len(took \o queue)
  BY <1>2, PushedTyped
<1>4. Line(s) = AllPushed(took \o queue) \o posted[s]
  BY LineIs DEF LineOf
<1>5. ASSUME NEW i \in DOMAIN (took \o queue) PROVE (took \o queue)[i] \in Pkgs(Line(s))
  <2>1. i \in DOMAIN AllPushed(took \o queue) /\ AllPushed(took \o queue)[i] = Push((took \o queue)[i])
    BY <1>5 DEF AllPushed
  <2> HIDE DEF took, queue
  <2>2. i \in DOMAIN Line(s) /\ Line(s)[i] = AllPushed(took \o queue)[i]
    BY <1>1, <1>3, <1>4, <2>1, Joined
  <2> QED BY <2>1, <2>2 DEF Pkgs, Pushes, Push
<1> HIDE DEF took, queue
<1>6. /\ \A i \in DOMAIN took : i \in DOMAIN (took \o queue) /\ (took \o queue)[i] = took[i]
      /\ \A i \in DOMAIN queue : Len(took) + i \in DOMAIN (took \o queue)
                                 /\ (took \o queue)[Len(took) + i] = queue[i]
  BY <1>1, Joined
<1> QED BY <1>5, <1>6 DEF took, queue

\* A line of one package at most.
LEMMA ShortLine ==
    ASSUME NEW queue \in Seq(Packages), Len(queue) <= 1
    PROVE  /\ Ascending(LineOf(<<>>, queue, <<>>))
           /\ \A pkg \in Pkgs(LineOf(<<>>, queue, <<>>)) : queue # <<>> /\ pkg = Head(queue)
<1>1. <<>> \o queue = queue /\ DOMAIN queue \subseteq {1}
  OBVIOUS
<1>2. AllPushed(queue) \in Seq(PostedTasks) /\ AllPushed(queue) \o <<>> = AllPushed(queue)
  BY PushedTyped
<1>3. LineOf(<<>>, queue, <<>>) = AllPushed(queue)
  BY <1>1, <1>2 DEF LineOf
<1>4. \A i \in DOMAIN AllPushed(queue) : i = 1 /\ queue # <<>> /\ AllPushed(queue)[i] = Push(Head(queue))
  BY <1>1 DEF AllPushed
<1>5. Ascending(AllPushed(queue))
  BY <1>4 DEF Ascending, Pushes
<1>6. \A pkg \in Pkgs(AllPushed(queue)) : queue # <<>> /\ pkg = Head(queue)
  BY <1>4 DEF Pkgs, Pushes, Push
<1> QED BY <1>3, <1>5, <1>6

\* A write that succeeds: the package is out of the queue, and on an open socket the
\* next write is posted if anything is left.
LEMMA ChainOnWritten ==
    ASSUME Typed, Chain, Known, NEW s \in Sessions, WriteOk(s)
    PROVE  /\ Chain' /\ Known'
           /\ sendingMessageQueue' \in [Sessions -> Seq(Packages)]
           /\ posted' \in [Sessions -> Seq(PostedTasks)]
           /\ writing' \in [Sessions -> 0..1]
           /\ sent' \in [Sessions -> Seq(Packages)]
           /\ Ascending(Line(s)) => Ascending(Line(s)')
           /\ conn[s] = "open" => Pkgs(Line(s)') = Pkgs(Line(s))
<1> USE DEF Typed
<1> DEFINE queue == sendingMessageQueue[s]
<1>1. /\ queue # <<>> /\ queue \in Seq(Packages) /\ sent[s] \in Seq(Packages)
      /\ posted[s] \in Seq(PostedTasks) /\ writing[s] = 1
      /\ Head(queue) \in Packages /\ Tail(queue) \in Seq(Packages) /\ Len(Tail(queue)) = Len(queue) - 1
      /\ Len(queue) \in Nat \ {0} /\ (Tail(queue) = <<>> <=> Len(queue) <= 1)
  <2>1. queue # <<>> /\ writing[s] > 0
    BY DEF WriteOk
  <2>2. queue \in Seq(Packages) /\ sent[s] \in Seq(Packages) /\ posted[s] \in Seq(PostedTasks) /\ writing[s] \in 0..1
    OBVIOUS
  <2> HIDE DEF queue
  <2>3. writing[s] = 1
    BY <2>1, <2>2
  <2> QED BY <2>1, <2>2, <2>3, FirstOff
<1>2. /\ writing' = [writing EXCEPT ![s] = 0]
      /\ posted' = [posted EXCEPT ![s] = posted[s] \o NextWrite(s)]
      /\ sendingMessageQueue' = [sendingMessageQueue EXCEPT ![s] = Tail(queue)]
      /\ sent' = IF conn[s] = "open" THEN [sent EXCEPT ![s] = Append(sent[s], Head(queue))] ELSE sent
      /\ UNCHANGED <<conn, removing, messages>>
  BY <1>1 DEF WriteOk, connVars, managerVars
<1>3. ChainOf(s) /\ s \notin removing
  BY DEF Chain, WriteOk, Thread
<1>4. NextWrite(s) \in Seq(PostedTasks) /\ NextWrite(s) = IF Len(queue) > 1 THEN <<WriteNext>> ELSE <<>>
  <2>1. WriteNext \in PostedTasks
    BY DEF WriteNext, PostedTasks
  <2> QED BY <2>1 DEF NextWrite
<1>5. posted[s] \o NextWrite(s) \in Seq(PostedTasks) /\ Append(sent[s], Head(queue)) \in Seq(Packages)
  BY <1>1, <1>4
<1>6. /\ sendingMessageQueue' \in [Sessions -> Seq(Packages)]
      /\ posted' \in [Sessions -> Seq(PostedTasks)]
      /\ writing' \in [Sessions -> 0..1]
      /\ sent' \in [Sessions -> Seq(Packages)]
  BY <1>1, <1>2, <1>5
<1>7. /\ writing'[s] = 0 /\ posted'[s] = posted[s] \o NextWrite(s)
      /\ sendingMessageQueue'[s] = Tail(queue)
      /\ sent'[s] = IF conn[s] = "open" THEN Append(sent[s], Head(queue)) ELSE sent[s]
  BY <1>1, <1>2
<1>8. Line(s)' = LineOf(sent'[s], sendingMessageQueue'[s], posted'[s])
  BY DEF Line, LineOf, AllPushed
<1>9. CASE conn[s] = "open"
  <2>1. WritesPosted(s) = {}
    BY <1>1, <1>3, <1>9 DEF ChainOf
  <2>2. LineOf(Append(sent[s], Head(queue)), Tail(queue), posted[s] \o NextWrite(s)) = Line(s) \o NextWrite(s)
    <3>1. LineOf(Append(sent[s], Head(queue)), Tail(queue), posted[s] \o NextWrite(s))
            = LineOf(Append(sent[s], Head(queue)), Tail(queue), posted[s]) \o NextWrite(s)
      <4>1. ASSUME NEW x \in Seq(Packages), NEW y \in Seq(Packages), NEW z \in Seq(PostedTasks),
                   NEW more \in Seq(PostedTasks)
            PROVE  LineOf(x, y, z \o more) = LineOf(x, y, z) \o more
        BY LineMoves
      <4>2. /\ Append(sent[s], Head(queue)) \in Seq(Packages) /\ Tail(queue) \in Seq(Packages)
            /\ posted[s] \in Seq(PostedTasks) /\ NextWrite(s) \in Seq(PostedTasks)
        BY <1>1, <1>4, <1>5
      <4> HIDE DEF queue
      <4> QED BY <4>1, <4>2
    <3>2. LineOf(Append(sent[s], Head(queue)), Tail(queue), posted[s]) = Line(s)
      BY <1>1, LineMoves, LineIs
    <3> QED BY <3>1, <3>2
  <2>3. Line(s)' = Line(s) \o NextWrite(s)
    BY <1>7, <1>8, <1>9, <2>2
  <2>4. Line(s) \in Seq(PostedTasks)
    BY LinesTyped
  <2>5. Line(s)' = IF Len(queue) > 1 THEN Append(Line(s), WriteNext) ELSE Line(s)
    BY <1>4, <2>3, <2>4
  <2>6. Pkgs(Line(s)') = Pkgs(Line(s)) /\ (Ascending(Line(s)) => Ascending(Line(s)'))
    BY <2>4, <2>5, OneMoreTask
  <2>7. /\ Len(queue) > 1 => Len(posted[s]) + 1 \in DOMAIN posted'[s] /\ WritesPosted(s)' = {Len(posted[s]) + 1}
        /\ ~(Len(queue) > 1) => WritesPosted(s)' = {}
    <3>1. posted'[s] = IF Len(queue) > 1 THEN Append(posted[s], WriteNext) ELSE posted[s]
      BY <1>1, <1>4, <1>7
    <3>2. /\ DOMAIN Append(posted[s], WriteNext) = DOMAIN posted[s] \cup {Len(posted[s]) + 1}
          /\ Append(posted[s], WriteNext)[Len(posted[s]) + 1] = WriteNext
          /\ \A i \in DOMAIN posted[s] : Append(posted[s], WriteNext)[i] = posted[s][i]
      BY <1>1
    <3>3. WriteNext.op = "write"
      BY DEF WriteNext
    <3> QED BY <2>1, <3>1, <3>2, <3>3 DEF WritesPosted
  <2>8. ChainOf(s)'
    <3>1. conn'[s] = "open" /\ s \notin removing'
      BY <1>2, <1>3, <1>9
    <3>2. writing'[s] = 0 /\ (sendingMessageQueue'[s] = <<>> <=> ~(Len(queue) > 1))
      BY <1>1, <1>7
    <3> QED BY <2>7, <3>1, <3>2 DEF ChainOf
  <2>9. Chain' /\ Known'
    BY <1>2, <2>6, <2>8, OneSessionsStep
  <2> QED BY <1>6, <2>6, <2>9
<1>10. CASE conn[s] # "open"
  <2>1. conn[s] = "closed" /\ posted[s] = <<>> /\ sent[s] = <<>> /\ Len(queue) = 1
    BY <1>1, <1>3, <1>10 DEF ChainOf
  <2>2. /\ posted'[s] = <<>> /\ sent'[s] = <<>> /\ sendingMessageQueue'[s] = <<>>
    BY <1>1, <1>4, <1>7, <1>10, <2>1
  <2>3. Ascending(Line(s)') /\ Pkgs(Line(s)') = {}
    <3>1. <<>> \in Seq(Packages) /\ Len(<<>>) <= 1
      OBVIOUS
    <3> QED BY <1>8, <2>2, <3>1, ShortLine
  <2>4. ChainOf(s)'
    BY <1>2, <1>3, <1>7, <2>1, <2>2 DEF ChainOf
  <2>5. Chain' /\ Known'
    BY <1>2, <2>3, <2>4, OneSessionsStep
  <2> QED BY <1>6, <1>10, <2>3, <2>5
<1> QED BY <1>9, <1>10

\* The socket is closed, and the package of a write under way is all that is left.
LEMMA ChainOnDisconnect ==
    ASSUME Typed, Chain, Known, NEW s \in Sessions, conn[s] # "none", s \notin removing,
           Disconnect(s, writing[s]) \/ (writing[s] > 0 /\ Disconnect(s, writing[s] - 1)),
           UNCHANGED messages
    PROVE  /\ Chain' /\ Known'
           /\ sendingMessageQueue' \in [Sessions -> Seq(Packages)]
           /\ posted' \in [Sessions -> Seq(PostedTasks)]
           /\ writing' \in [Sessions -> 0..1]
           /\ sent' \in [Sessions -> Seq(Packages)]
           /\ Ascending(Line(s)')
<1> USE DEF Typed
<1> DEFINE queue == sendingMessageQueue[s]
<1>1. PICK w \in 0..1 : Disconnect(s, w) /\ w <= writing[s]
  <2>1. writing[s] \in 0..1
    OBVIOUS
  <2>2. CASE Disconnect(s, writing[s])
    BY <2>1, <2>2
  <2>3. CASE writing[s] > 0 /\ Disconnect(s, writing[s] - 1)
    BY <2>1, <2>3
  <2> QED BY <2>2, <2>3
<1>2. /\ queue \in Seq(Packages) /\ writing[s] \in 0..1 /\ ChainOf(s)
      /\ w > 0 => queue # <<>> /\ Head(queue) \in Packages /\ <<Head(queue)>> \in Seq(Packages)
  <2>1. queue \in Seq(Packages) /\ writing[s] \in 0..1 /\ ChainOf(s)
    BY DEF Chain
  <2>2. w > 0 => queue # <<>>
    BY <1>1, <2>1 DEF ChainOf
  <2>3. queue # <<>> => Head(queue) \in Packages
    BY <2>1
  <2>4. Head(queue) \in Packages => <<Head(queue)>> \in Seq(Packages)
    OBVIOUS
  <2> QED BY <2>1, <2>2, <2>3, <2>4
<1> DEFINE rest == IF w > 0 THEN <<Head(queue)>> ELSE <<>>
<1>3. /\ rest \in Seq(Packages) /\ Len(rest) = w
  BY <1>2
<1>4. /\ conn' = [conn EXCEPT ![s] = "closed"] /\ removing' = removing \cup {s}
      /\ writing' = [writing EXCEPT ![s] = w] /\ posted' = [posted EXCEPT ![s] = <<>>]
      /\ sendingMessageQueue' = [sendingMessageQueue EXCEPT ![s] = rest]
      /\ sent' = [sent EXCEPT ![s] = <<>>]
  BY <1>1 DEF Disconnect
<1>5. /\ conn'[s] = "closed" /\ writing'[s] = w /\ posted'[s] = <<>>
      /\ sendingMessageQueue'[s] = rest /\ sent'[s] = <<>>
  BY <1>4
<1>6. /\ sendingMessageQueue' \in [Sessions -> Seq(Packages)]
      /\ posted' \in [Sessions -> Seq(PostedTasks)]
      /\ writing' \in [Sessions -> 0..1]
      /\ sent' \in [Sessions -> Seq(Packages)]
  BY <1>1, <1>3, <1>4
<1>7. Line(s)' = LineOf(<<>>, rest, <<>>)
  BY <1>5 DEF Line, LineOf, AllPushed
<1> HIDE DEF rest
<1>8. Ascending(Line(s)') /\ Pkgs(Line(s)') \subseteq Pkgs(Line(s))
  <2>1. Ascending(Line(s)') /\ \A pkg \in Pkgs(Line(s)') : rest # <<>> /\ pkg = Head(rest)
    BY <1>1, <1>3, <1>7, ShortLine
  <2>2. rest # <<>> => Head(rest) = queue[1] /\ 1 \in DOMAIN queue
    BY <1>2 DEF rest
  <2> QED BY <2>1, <2>2, LineHas
<1>9. ChainOf(s)'
  BY <1>3, <1>5 DEF ChainOf
<1>10. Chain' /\ Known'
  <2>1. \A t \in Sessions \ {s} :
          /\ conn'[t] = conn[t] /\ writing'[t] = writing[t] /\ posted'[t] = posted[t]
          /\ sendingMessageQueue'[t] = sendingMessageQueue[t] /\ sent'[t] = sent[t]
          /\ t \in removing' => t \in removing
    BY <1>4
  <2> QED BY <1>8, <1>9, <2>1, OneSessionsStep
<1> QED BY <1>6, <1>8, <1>10

-----------------------------------------------------------------------------
(* LineInv, one action after the other *)

LEMMA LineInvStarts == Init => LineInv
<1> SUFFICES ASSUME Init PROVE LineInv
  OBVIOUS
<1> USE DEF Init
<1>1. Typed
  BY DEF Typed
<1>2. Numbered
  BY FS_EmptySet DEF Numbered
<1>3. \A s \in Sessions : Line(s) = <<>>
  BY DEF Line
<1>4. Chain
  BY DEF Chain, ChainOf, WritesPosted
<1>5. Known /\ LinesAscend
  BY <1>3 DEF Known, LinesAscend, Pkgs, Ascending, Pushes
<1>6. ResendsAsked
  BY DEF ResendsAsked, Range
<1>7. OneLogin
  BY DEF OneLogin
<1> QED BY <1>1, <1>2, <1>4, <1>5, <1>6, <1>7 DEF LineInv

\* Nothing happens to the lines and the numbers.
LEMMA LinesKept ==
    ASSUME LineInv, removing' \subseteq removing,
           UNCHANGED <<messages, conn, writing, posted, sendingMessageQueue, sent>>
    PROVE  Numbered' /\ Chain' /\ Known' /\ (UNCHANGED request => LinesAscend')
<1>1. Numbered'
  BY DEF LineInv, Numbered, NumMessages
<1>2. Chain' /\ Known'
  BY ChainKept DEF LineInv
<1>3. \A s \in Sessions : Line(s)' = Line(s)
  BY DEF Line
<1>4. ASSUME UNCHANGED request PROVE LinesAscend'
  <2> SUFFICES ASSUME NEW s \in Sessions, request[s] = NoRequest \/ ~request[s].resend
               PROVE  Ascending(Line(s)')
    BY <1>4 DEF LinesAscend, Ascending, Pushes
  <2> QED BY <1>3 DEF LineInv, LinesAscend
<1> QED BY <1>1, <1>2, <1>4

LEMMA LineInvAccept ==
    ASSUME LineInv, NEW s \in Sessions, NEW h \in Handles, Accept(s, h)
    PROVE  LineInv'
<1> USE DEF Accept, loginVars, registryVars, managerVars, sendVars
<1>1. Typed'
  BY DEF LineInv, Typed
<1>2. Numbered' /\ ResendsAsked'
  BY DEF LineInv, Numbered, NumMessages, ResendsAsked
<1>3. \A t \in Sessions : Line(t)' = Line(t) /\ WritesPosted(t)' = WritesPosted(t)
  BY DEF Line, WritesPosted
<1>4. Known'
  <2> SUFFICES ASSUME NEW t \in Sessions PROVE Pkgs(Line(t)') \subseteq messages
    BY DEF Known, Pkgs, Pushes
  <2> QED BY <1>3 DEF LineInv, Known
<1>5. LinesAscend'
  <2> SUFFICES ASSUME NEW t \in Sessions, request[t] = NoRequest \/ ~request[t].resend
               PROVE  Ascending(Line(t)')
    BY DEF LinesAscend, Ascending, Pushes
  <2> QED BY <1>3 DEF LineInv, LinesAscend
<1>6. conn' = [conn EXCEPT ![s] = "open"] /\ conn[s] = "none" /\ conn \in [Sessions -> {"none", "open", "closed"}]
  BY DEF LineInv, Typed
<1>7. Chain'
  <2> SUFFICES ASSUME NEW t \in Sessions PROVE ChainOf(t)'
    BY DEF Chain
  <2>1. ChainOf(t)
    BY DEF LineInv, Chain
  <2>2. CASE t = s
    <3>1. posted[s] = <<>> /\ sendingMessageQueue[s] = <<>> /\ writing[s] = 0 /\ s \notin removing
      BY <1>6, <2>1, <2>2 DEF ChainOf
    <3>2. WritesPosted(s)' = {}
      BY <1>3, <3>1 DEF WritesPosted
    <3> QED BY <1>6, <2>2, <3>1, <3>2 DEF ChainOf
  <2>3. CASE t # s
    BY <1>3, <1>6, <2>1, <2>3 DEF ChainOf
  <2> QED BY <2>2, <2>3
<1>8. OneLogin'
  BY <1>6 DEF LineInv, Typed, OneLogin
<1> QED BY <1>1, <1>2, <1>4, <1>5, <1>7, <1>8 DEF LineInv

LEMMA LineInvReadLogin ==
    ASSUME LineInv, NEW s \in Sessions, NEW req \in LoginRequests[s], ReadLogin(s, req)
    PROVE  LineInv'
<1> USE DEF ReadLogin, managerVars, sendVars
<1>1. req \in Requests /\ req # NoRequest
  BY SessionsAssumption DEF Requests, Sessions
<1>2. logins \in Seq(Sessions) /\ logins' = Append(logins, s) /\ logins' \in Seq(Sessions)
  BY DEF LineInv, Typed
<1>3. Typed'
  BY <1>1, <1>2 DEF LineInv, Typed
<1>4. Numbered' /\ Chain' /\ Known'
  BY LinesKept
<1>5. ResendsAsked'
  <2> SUFFICES ASSUME NEW task \in Range(strand), task.op = "resend"
               PROVE  /\ request'[task.session] # NoRequest /\ task.req = request'[task.session]
                      /\ request'[task.session].resend
    BY DEF ResendsAsked
  <2>1. /\ request[task.session] # NoRequest /\ task.req = request[task.session]
        /\ request[task.session].resend
    BY DEF LineInv, ResendsAsked
  <2>2. task.session # s
    BY <2>1
  <2> QED BY <2>1, <2>2 DEF LineInv, Typed
<1>6. \A t \in Sessions : Line(t)' = Line(t)
  BY DEF Line
<1>7. LinesAscend'
  <2> SUFFICES ASSUME NEW t \in Sessions, request'[t] = NoRequest \/ ~request'[t].resend
               PROVE  Ascending(Line(t)')
    BY DEF LinesAscend, Ascending, Pushes
  <2>1. request[t] = NoRequest \/ ~request[t].resend
    BY DEF LineInv, Typed
  <2> QED BY <1>6, <2>1 DEF LineInv, LinesAscend
<1>8. OneLogin'
  <2>1. request[s] = NoRequest /\ request' = [request EXCEPT ![s] = req] /\ loginAcctKeys[s] = {}
    BY DEF LineInv, OneLogin
  <2>2. /\ \A i \in DOMAIN logins : logins'[i] = logins[i] /\ logins[i] # s /\ i # Len(logins) + 1
        /\ logins'[Len(logins) + 1] = s
        /\ DOMAIN logins' = DOMAIN logins \cup {Len(logins) + 1}
    <3>1. \A i \in DOMAIN logins : logins[i] # s
      BY <2>1 DEF LineInv, OneLogin
    <3> QED BY <1>2, <3>1
  <2>3. /\ \A i \in DOMAIN logins' : request'[logins'[i]] # NoRequest /\ loginAcctKeys[logins'[i]] = {}
        /\ \A i, j \in DOMAIN logins' : logins'[i] = logins'[j] => i = j
    <3>1. \A i \in DOMAIN logins : logins[i] \in Sessions
      BY <1>2
    <3>2. \A i \in DOMAIN logins : request'[logins[i]] # NoRequest /\ loginAcctKeys[logins[i]] = {}
      BY <2>1, <2>2, <3>1 DEF LineInv, OneLogin, Typed
    <3>3. request'[s] # NoRequest
      BY <1>1, <2>1 DEF LineInv, Typed
    <3>4. \A i, j \in DOMAIN logins : logins[i] = logins[j] => i = j
      BY DEF LineInv, OneLogin
    <3> HIDE DEF ReadLogin
    <3>5. \A i \in DOMAIN logins' : request'[logins'[i]] # NoRequest /\ loginAcctKeys[logins'[i]] = {}
      BY <2>1, <2>2, <3>2, <3>3
    <3> QED BY <2>2, <3>4, <3>5
  <2>4. \A t \in Sessions : request'[t] = IF t = s THEN req ELSE request[t]
    BY <2>1 DEF LineInv, Typed
  <2> QED BY <1>1, <2>1, <2>3, <2>4 DEF LineInv, OneLogin
<1> QED BY <1>3, <1>4, <1>5, <1>7, <1>8 DEF LineInv

LEMMA StrandGrows ==
    ASSUME NEW x \in Seq(StrandTasks), NEW y \in Seq(StrandTasks)
    PROVE  x \o y \in Seq(StrandTasks) /\ Range(x \o y) = Range(x) \cup Range(y)
<1>1. x \o y \in Seq(StrandTasks)
  BY ConcatProperties
<1> QED BY <1>1, Ranges

LEMMA StrandLonger ==
    ASSUME NEW x \in Seq(StrandTasks), NEW e \in StrandTasks
    PROVE  Append(x, e) \in Seq(StrandTasks) /\ Range(Append(x, e)) = Range(x) \cup {e}
<1>1. Append(x, e) \in Seq(StrandTasks)
  BY AppendProperties
<1>2. \A d \in StrandTasks : Range(Append(x, d)) = Range(x) \cup {d}
  BY Ranges
<1> QED BY <1>1, <1>2

LEMMA LineInvLogin ==
    ASSUME LineInv, Login
    PROVE  LineInv'
<1> USE DEF Login, connVars, managerVars, sendVars
<1> DEFINE s == Head(logins)
           req == request[s]
           new == ResendAsked(s, req) \o <<SendTask(s, LoginResponse)>>
<1>1. /\ logins # <<>> /\ logins \in Seq(Sessions) /\ s \in Sessions /\ Tail(logins) \in Seq(Sessions)
      /\ 1 \in DOMAIN logins /\ logins[1] = s
  BY FirstOff DEF LineInv, Typed
<1>2. req # NoRequest /\ loginAcctKeys[s] = {} /\ req \in Requests /\ handle[s] \in Handles
  BY <1>1 DEF LineInv, OneLogin, Typed
<1>3. SendTask(s, LoginResponse) \in StrandTasks /\ ResendTask(s, req) \in StrandTasks
  BY <1>1, <1>2 DEF SendTask, ResendTask, StrandTasks
<1>4. /\ strand \in Seq(StrandTasks) /\ new \in Seq(StrandTasks) /\ strand' = strand \o new
      /\ \A task \in Range(new) :
           \/ task = SendTask(s, LoginResponse)
           \/ task = ResendTask(s, req) /\ req.resend
  <2>1. ResendAsked(s, req) \in Seq(StrandTasks) /\ <<SendTask(s, LoginResponse)>> \in Seq(StrandTasks)
    BY <1>3 DEF ResendAsked
  <2>2. strand \in Seq(StrandTasks)
    BY DEF LineInv, Typed
  <2>3. strand' = strand \o ResendAsked(s, req) \o <<SendTask(s, LoginResponse)>>
    OBVIOUS
  <2>4. \A x, y, z \in Seq(StrandTasks) : x \o y \o z = x \o (y \o z) /\ y \o z \in Seq(StrandTasks)
    OBVIOUS
  <2>5. Range(new) = Range(ResendAsked(s, req)) \cup Range(<<SendTask(s, LoginResponse)>>)
    BY <2>1, StrandGrows
  <2>6. Range(<<SendTask(s, LoginResponse)>>) = {SendTask(s, LoginResponse)}
    BY DEF Range
  <2>7. Range(ResendAsked(s, req)) = IF req.resend THEN {ResendTask(s, req)} ELSE {}
    BY DEF Range, ResendAsked
  <2> HIDE DEF Login
  <2>8. new \in Seq(StrandTasks) /\ strand' = strand \o new
    BY <2>1, <2>2, <2>3, <2>4
  <2> QED BY <2>2, <2>5, <2>6, <2>7, <2>8
<1> HIDE DEF new
<1>5. strand' \in Seq(StrandTasks) /\ Range(strand') = Range(strand) \cup Range(new)
  BY <1>4, StrandGrows
<1>6. /\ loginAcctKeys' = [loginAcctKeys EXCEPT ![s] = loginAcctKeys[s] \cup {req.acct}]
      /\ acctKey2TCPSessions' = Registered(req.acct, handle[s], s)
      /\ since' = [since EXCEPT ![s] = NumMessages]
      /\ logins' = Tail(logins)
  OBVIOUS
<1>7. NumMessages \in Nat
  BY FS_CardinalityType DEF LineInv, Numbered, NumMessages
<1>8. Typed'
  <2>1. req.acct \in Accounts
    BY <1>2 DEF Requests
  <2>2. acctKey2TCPSessions' \in [Accounts -> [Handles -> Sessions \cup {NoSession}]]
    BY <1>1, <1>2, <1>6, <2>1 DEF Registered, LineInv, Typed
  <2>3. loginAcctKeys' \in [Sessions -> SUBSET Accounts] /\ since' \in [Sessions -> Nat]
    BY <1>1, <1>6, <1>7, <2>1 DEF LineInv, Typed
  <2>4. Typed /\ UNCHANGED <<conn, handle, reading, writing, removing, request, messages,
                 acctSentAcknMaxMessageId, posted, sendingMessageQueue, sent>>
    BY DEF LineInv
  <2> HIDE DEF Login
  <2> QED BY <1>1, <1>5, <1>6, <2>2, <2>3, <2>4 DEF Typed
<1>9. Numbered' /\ Chain' /\ Known' /\ LinesAscend'
  BY LinesKept
<1>10. ResendsAsked'
  <2> SUFFICES ASSUME NEW task \in Range(strand'), task.op = "resend"
               PROVE  /\ request[task.session] # NoRequest /\ task.req = request[task.session]
                      /\ request[task.session].resend
    BY DEF ResendsAsked
  <2>1. CASE task \in Range(strand)
    BY <2>1 DEF LineInv, ResendsAsked
  <2>2. CASE task \in Range(new)
    BY <1>2, <1>4, <2>2 DEF SendTask, ResendTask
  <2> QED BY <1>5, <2>1, <2>2
<1>11. OneLogin'
  <2>1. /\ \A i \in DOMAIN Tail(logins) : i + 1 \in DOMAIN logins /\ i + 1 # 1 /\ Tail(logins)[i] = logins[i + 1]
        /\ \A i \in DOMAIN Tail(logins) : i \in Nat
        /\ \A i \in DOMAIN logins : logins[i] \in Sessions
    BY <1>1
  <2>2. \A i, j \in DOMAIN logins : logins[i] = logins[j] => i = j
    BY DEF LineInv, OneLogin
  <2>3. \A i \in DOMAIN logins : request[logins[i]] # NoRequest /\ loginAcctKeys[logins[i]] = {}
    BY DEF LineInv, OneLogin
  <2>4. \A t \in Sessions : loginAcctKeys'[t] = IF t = s THEN {req.acct} ELSE loginAcctKeys[t]
    BY <1>2, <1>6 DEF LineInv, Typed
  <2>5. UNCHANGED <<request, conn, handle, reading>>
    OBVIOUS
  <2> HIDE DEF Login, s
  <2>6. \A i \in DOMAIN Tail(logins) : Tail(logins)[i] # s /\ Tail(logins)[i] \in Sessions
    BY <1>1, <2>1, <2>2
  <2>7. \A i, j \in DOMAIN Tail(logins) : Tail(logins)[i] = Tail(logins)[j] => i = j
    BY <2>1, <2>2
  <2>8. \A i \in DOMAIN Tail(logins) :
           request[Tail(logins)[i]] # NoRequest /\ loginAcctKeys'[Tail(logins)[i]] = {}
    BY <2>1, <2>3, <2>4, <2>6
  <2> QED BY <1>2, <1>6, <2>4, <2>5, <2>7, <2>8 DEF LineInv, OneLogin
<1> QED BY <1>8, <1>9, <1>10, <1>11 DEF LineInv

LEMMA StrandTask ==
    ASSUME Typed, NEW op, Task(op)
    PROVE  /\ strand # <<>> /\ strand \in Seq(StrandTasks) /\ strand' \in Seq(StrandTasks)
           /\ Head(strand) \in StrandTasks /\ Head(strand).op = op
           /\ Range(strand) = {Head(strand)} \cup Range(strand')
<1>1. strand # <<>> /\ strand \in Seq(StrandTasks) /\ Head(strand).op = op /\ strand' = Tail(strand)
  BY DEF Typed, Task
<1>2. Head(strand) \in StrandTasks /\ Tail(strand) \in Seq(StrandTasks)
  BY <1>1, FirstOff
<1> QED BY <1>1, <1>2, Ranges

LEMMA TaskTyped ==
    ASSUME NEW task \in StrandTasks
    PROVE  /\ task.op = "send" =>
                /\ task.msg \in [acct : Accounts \cup {NoAccount}, cmd : Nat, shouldCache : BOOLEAN]
                /\ \/ task.session = NoSession /\ task.msg \in Notifications
                   \/ task.session \in Sessions /\ task.msg = LoginResponse
           /\ task.op = "offset" => task.pkg \in Packages
           /\ task.op = "resend" => task.session \in Sessions /\ task.req \in Requests
<1>1. \A n \in Notifications : n \in [acct : Accounts \cup {NoAccount}, cmd : Nat, shouldCache : BOOLEAN]
  BY SessionsAssumption
<1>2. LoginResponse \in [acct : Accounts \cup {NoAccount}, cmd : Nat, shouldCache : BOOLEAN]
  BY DEF LoginResponse, CMD_LoginResponse
<1> QED BY <1>1, <1>2 DEF StrandTasks

\* Tasks that are not to resend anything may come and go.
LEMMA ResendsKept ==
    ASSUME ResendsAsked, UNCHANGED request,
           \A task \in Range(strand') : task \in Range(strand) \/ task.op # "resend"
    PROVE  ResendsAsked'
  BY DEF ResendsAsked

LEMMA OneLoginKept ==
    ASSUME OneLogin, UNCHANGED <<request, logins, loginAcctKeys, handle>>,
           \A s \in Sessions : conn'[s] = conn[s] \/ (conn'[s] # "none" /\ conn[s] # "none"),
           \A s \in Sessions : reading'[s] = reading[s] \/ reading'[s] = FALSE
    PROVE  OneLogin'
  BY DEF OneLogin

LEMMA LineInvNotify ==
    ASSUME LineInv, NEW n \in Notifications, Notify(n)
    PROVE  LineInv'
<1> USE DEF Notify, connVars, loginVars, registryVars, managerVars, sendVars
<1>1. SendTask(NoSession, n) \in StrandTasks
  BY DEF SendTask, StrandTasks
<1>2. strand \in Seq(StrandTasks) /\ strand' = Append(strand, SendTask(NoSession, n))
  BY DEF LineInv, Typed
<1>3. strand' \in Seq(StrandTasks) /\ Range(strand') = Range(strand) \cup {SendTask(NoSession, n)}
  BY <1>1, <1>2, StrandLonger
<1>4. Typed'
  BY <1>3 DEF LineInv, Typed
<1>5. Numbered' /\ Chain' /\ Known' /\ LinesAscend'
  BY LinesKept
<1>6. ResendsAsked' /\ OneLogin'
  <2>1. SendTask(NoSession, n).op # "resend"
    BY DEF SendTask
  <2>2. ResendsAsked'
    BY <1>3, <2>1, ResendsKept DEF LineInv
  <2>3. OneLogin'
    BY OneLoginKept DEF LineInv
  <2> QED BY <2>2, <2>3
<1> QED BY <1>4, <1>5, <1>6 DEF LineInv

LEMMA LineInvStoreOffset ==
    ASSUME LineInv, StoreOffset
    PROVE  LineInv'
<1> USE DEF StoreOffset, connVars, loginVars, registryVars, sendVars
<1>1. /\ strand' \in Seq(StrandTasks) /\ Range(strand') \subseteq Range(strand)
      /\ Head(strand).pkg \in Packages
  BY StrandTask, TaskTyped DEF LineInv
<1>2. acctSentAcknMaxMessageId' \in [Accounts -> Nat]
  BY <1>1 DEF LineInv, Typed, Packages
<1>3. Typed'
  BY <1>1, <1>2 DEF LineInv, Typed
<1>4. Numbered' /\ Chain' /\ Known' /\ LinesAscend'
  BY LinesKept
<1>5. ResendsAsked' /\ OneLogin'
  <2>1. ResendsAsked'
    BY <1>1, ResendsKept DEF LineInv
  <2>2. OneLogin'
    BY OneLoginKept DEF LineInv
  <2> QED BY <2>1, <2>2
<1> QED BY <1>3, <1>4, <1>5 DEF LineInv

Targets ==
    IF Head(strand).session # NoSession THEN {Head(strand).session}
    ELSE SessionsOf(Head(strand).msg.acct)

LEMMA NewIdTyped == NumMessages \in Nat => NewId \subseteq Nat \ {0}
<1> SUFFICES ASSUME NumMessages \in Nat, NEW now \in Clock
             PROVE  (now * 2 * IdsPerMilli) + (NumMessages % IdsPerMilli) \in Nat \ {0}
  BY DEF NewId
<1>1. now \in Nat \ {0} /\ IdsPerMilli \in Nat \ {0}
  BY SessionsAssumption
<1>2. NumMessages % IdsPerMilli \in Nat
  BY <1>1
<1>3. now * 2 * IdsPerMilli \in Nat \ {0}
  BY <1>1
<1> QED BY <1>2, <1>3

\* The package of a message: its number is new, and it ends the lines it joins.
LEMMA Sent ==
    ASSUME LineInv, SendMessage
    PROVE  \E pkg \in Packages :
             /\ pkg.nth = NumMessages + 1 /\ pkg.acct = Head(strand).msg.acct
             /\ messages' = messages \cup {pkg} /\ NumMessages' = NumMessages + 1 /\ NumMessages \in Nat
             /\ \A m \in messages : m.nth <= NumMessages /\ m.id # pkg.id
             /\ \A s \in Sessions :
                  /\ Line(s)' = IF s \in Targets /\ conn[s] = "open"
                                THEN Append(Line(s), Push(pkg)) ELSE Line(s)
                  /\ Line(s) \in Seq(PostedTasks)
                  /\ WritesPosted(s)' = WritesPosted(s)
                  /\ posted'[s] # posted[s] => conn[s] = "open"
             /\ posted' \in [Sessions -> Seq(PostedTasks)]
<1> DEFINE n == Head(strand).msg
<1>0. PICK id \in NewId :
        LET new == [id |-> id, nth |-> NumMessages + 1, acct |-> n.acct, cmd |-> n.cmd,
                    shouldCache |-> n.shouldCache]
        IN  messages' = messages \cup {new} /\ posted' = Queued(Targets, <<new>>)
  BY DEF SendMessage, Targets
<1> DEFINE pkg == [id |-> id, nth |-> NumMessages + 1, acct |-> n.acct, cmd |-> n.cmd,
                   shouldCache |-> n.shouldCache]
<1>1. messages' = messages \cup {pkg} /\ posted' = Queued(Targets, <<pkg>>)
  BY <1>0
<1>2. UNCHANGED <<conn, sendingMessageQueue, sent>>
  BY DEF SendMessage, connVars
<1>3. n \in [acct : Accounts \cup {NoAccount}, cmd : Nat, shouldCache : BOOLEAN]
  BY StrandTask, TaskTyped DEF LineInv, SendMessage
<1>4. IsFiniteSet(messages) /\ NumMessages \in Nat /\ \A m \in messages : m.nth <= NumMessages
  BY FS_CardinalityType DEF LineInv, Numbered, NumMessages
<1>5. id \in Nat \ {0} /\ (\A m \in messages : m.id # id) /\ pkg \in Packages
  <2>1. id \in Nat \ {0}
    BY <1>4, NewIdTyped
  <2>2. \A m \in messages : m.id # id
    BY DEF NewId
  <2> QED BY <1>3, <1>4, <2>1, <2>2 DEF Packages
<1> HIDE DEF n
<1>6. pkg.id = id /\ pkg.nth = NumMessages + 1 /\ pkg.acct = n.acct
  OBVIOUS
<1> HIDE DEF pkg
<1>7. NumMessages' = NumMessages + 1
  <2>1. pkg \notin messages
    BY <1>5, <1>6
  <2> QED BY <1>1, <1>4, <2>1, FS_AddElement DEF NumMessages
<1>8. <<pkg>> \in Seq(Packages) /\ AllPushed(<<pkg>>) = <<Push(pkg)>>
  <2>1. <<pkg>> \in Seq(Packages) /\ Len(<<pkg>>) = 1 /\ <<pkg>>[1] = pkg
    BY <1>5
  <2>2. AllPushed(<<pkg>>) = [i \in 1..1 |-> Push(pkg)]
    BY <2>1 DEF AllPushed
  <2>3. <<Push(pkg)>> = [i \in 1..1 |-> Push(pkg)]
    OBVIOUS
  <2> QED BY <2>1, <2>2, <2>3
<1>9. Typed
  BY DEF LineInv
<1>10. ASSUME NEW s \in Sessions
       PROVE  /\ Line(s)' = IF s \in Targets /\ conn[s] = "open"
                            THEN Append(Line(s), Push(pkg)) ELSE Line(s)
              /\ Line(s) \in Seq(PostedTasks)
              /\ WritesPosted(s)' = WritesPosted(s)
              /\ posted'[s] # posted[s] => conn[s] = "open"
              /\ posted' \in [Sessions -> Seq(PostedTasks)]
  <2>1. /\ posted' \in [Sessions -> Seq(PostedTasks)]
        /\ IF s \in Targets /\ conn[s] = "open"
           THEN Line(s)' = Line(s) \o AllPushed(<<pkg>>)
           ELSE posted'[s] = posted[s] /\ Line(s)' = Line(s)
        /\ WritesPosted(s)' = WritesPosted(s)
    BY <1>1, <1>2, <1>8, <1>9, QueuedLast
  <2>2. Line(s) \in Seq(PostedTasks)
    BY <1>9, LinesTyped
  <2>3. Line(s) \o <<Push(pkg)>> = Append(Line(s), Push(pkg))
    BY <2>2
  <2> QED BY <1>8, <2>1, <2>2, <2>3
<1>11. posted' \in [Sessions -> Seq(PostedTasks)]
  <2>1. CASE Sessions = {}
    BY <1>1, <2>1 DEF Queued
  <2> QED BY <1>10, <2>1
<1> QED BY <1>1, <1>4, <1>5, <1>6, <1>7, <1>10, <1>11 DEF n

\* More packages for open sessions leave the chain alone.
LEMMA ChainOnQueued ==
    ASSUME Chain, UNCHANGED <<conn, removing, sendingMessageQueue, writing, sent>>,
           \A s \in Sessions :
               /\ WritesPosted(s)' = WritesPosted(s)
               /\ posted'[s] # posted[s] => conn[s] = "open"
    PROVE  Chain'
<1> SUFFICES ASSUME NEW s \in Sessions PROVE ChainOf(s)'
  BY DEF Chain
<1>1. ChainOf(s)
  BY DEF Chain
<1>2. CASE posted'[s] = posted[s]
  BY <1>1, <1>2 DEF ChainOf
<1>3. CASE posted'[s] # posted[s]
  <2>1. conn[s] = "open" /\ WritesPosted(s)' = WritesPosted(s)
    BY <1>3
  <2>2. \A i \in DOMAIN posted[s] : WritesPosted(s) = {i} => i \in DOMAIN posted'[s]
    BY <2>1 DEF WritesPosted
  <2> QED BY <1>1, <2>1, <2>2 DEF ChainOf
<1> QED BY <1>2, <1>3

LEMMA LineInvSendMessage ==
    ASSUME LineInv, SendMessage
    PROVE  LineInv'
<1> USE DEF connVars, loginVars, registryVars
<1>1. PICK pkg \in Packages :
        /\ pkg.nth = NumMessages + 1
        /\ messages' = messages \cup {pkg} /\ NumMessages' = NumMessages + 1 /\ NumMessages \in Nat
        /\ \A m \in messages : m.nth <= NumMessages /\ m.id # pkg.id
        /\ \A s \in Sessions :
             /\ Line(s)' = IF s \in Targets /\ conn[s] = "open"
                           THEN Append(Line(s), Push(pkg)) ELSE Line(s)
             /\ Line(s) \in Seq(PostedTasks)
             /\ WritesPosted(s)' = WritesPosted(s)
             /\ posted'[s] # posted[s] => conn[s] = "open"
        /\ posted' \in [Sessions -> Seq(PostedTasks)]
  BY Sent
<1>2. UNCHANGED <<conn, handle, reading, request, removing, logins, loginAcctKeys,
                  acctKey2TCPSessions, since, acctSentAcknMaxMessageId,
                  sendingMessageQueue, writing, sent, notified>>
  BY DEF SendMessage
<1>3. strand' \in Seq(StrandTasks) /\ Range(strand') \subseteq Range(strand)
  BY StrandTask DEF LineInv, SendMessage
<1>4. Typed'
  BY <1>1, <1>2, <1>3 DEF LineInv, Typed
<1>5. Numbered'
  <2>1. IsFiniteSet(messages')
    BY <1>1, FS_AddElement DEF LineInv, Numbered
  <2>2. \A m \in messages' : m.nth <= NumMessages'
    BY <1>1 DEF LineInv, Typed, Packages
  <2>3. \A m, k \in messages' : m.id = k.id => m = k
    BY <1>1 DEF LineInv, Typed, Packages, Numbered
  <2> QED BY <2>1, <2>2, <2>3 DEF Numbered
<1>6. Chain'
  BY <1>1, <1>2, ChainOnQueued DEF LineInv
<1>7. Known'
  <2> SUFFICES ASSUME NEW s \in Sessions PROVE Pkgs(Line(s)') \subseteq messages'
    BY DEF Known, Pkgs, Pushes
  <2>1. Pkgs(Line(s)) \subseteq messages
    BY DEF LineInv, Known
  <2>2. Pkgs(Append(Line(s), Push(pkg))) = Pkgs(Line(s)) \cup {pkg}
    BY <1>1, OneMoreTask
  <2> QED BY <1>1, <2>1, <2>2
<1>8. LinesAscend'
  <2> SUFFICES ASSUME NEW s \in Sessions, request[s] = NoRequest \/ ~request[s].resend
               PROVE  Ascending(Line(s)')
    BY <1>2 DEF LinesAscend, Ascending, Pushes
  <2>1. Ascending(Line(s)) /\ Pkgs(Line(s)) \subseteq messages
    BY DEF LineInv, LinesAscend, Known
  <2>2. \A p \in Pkgs(Line(s)) : p.nth < pkg.nth
    BY <1>1, <2>1 DEF LineInv, Typed, Packages
  <2>3. Ascending(Append(Line(s), Push(pkg)))
    BY <1>1, <2>1, <2>2, OneMoreTask
  <2> QED BY <1>1, <2>1, <2>3
<1>9. ResendsAsked'
  BY <1>2, <1>3, ResendsKept DEF LineInv
<1>10. OneLogin'
  BY <1>2, OneLoginKept DEF LineInv
<1> QED BY <1>4, <1>5, <1>6, <1>7, <1>8, <1>9, <1>10 DEF LineInv

Again(req) ==
    {m \in messages : m.shouldCache /\ m.acct = req.acct /\ ToResend(m, req)}

\* What is sent again goes to the end of one line, of a client that asked for it.
LEMMA SentAgain ==
    ASSUME LineInv, Resend
    PROVE  LET t == Head(strand).session
           IN  /\ t \in Sessions /\ request[t] # NoRequest /\ request[t].resend
               /\ Head(strand).req = request[t]
               /\ posted' \in [Sessions -> Seq(PostedTasks)]
               /\ \A s \in Sessions :
                    /\ Pkgs(Line(s)') = IF s = t /\ conn[s] = "open"
                                        THEN Pkgs(Line(s)) \cup Again(request[t]) ELSE Pkgs(Line(s))
                    /\ s # t => Line(s)' = Line(s)
                    /\ WritesPosted(s)' = WritesPosted(s)
                    /\ posted'[s] # posted[s] => conn[s] = "open"
<1> DEFINE t == Head(strand).session
           req == Head(strand).req
<1>1. Head(strand) \in Range(strand) /\ Head(strand) \in StrandTasks /\ Head(strand).op = "resend"
  BY StrandTask DEF LineInv, Resend
<1>2. t \in Sessions
  BY <1>1, TaskTyped
<1>3. request[t] # NoRequest /\ req = request[t] /\ request[t].resend
  BY <1>1 DEF LineInv, ResendsAsked
<1>4. posted' = Queued({t}, ById(Again(req))) /\ UNCHANGED <<conn, sendingMessageQueue, sent>>
  BY DEF Resend, Again, connVars
<1> HIDE DEF t, req
<1>5. /\ ById(Again(req)) \in Seq(Packages)
      /\ {ById(Again(req))[i] : i \in DOMAIN ById(Again(req))} = Again(req)
  <2>1. Again(req) \subseteq messages
    BY DEF Again
  <2> QED BY <2>1, ByIdSorts DEF LineInv, Typed
<1>6. ASSUME NEW s \in Sessions
      PROVE  /\ Pkgs(Line(s)') = IF s = t /\ conn[s] = "open"
                                 THEN Pkgs(Line(s)) \cup Again(request[t]) ELSE Pkgs(Line(s))
             /\ s # t => Line(s)' = Line(s)
             /\ WritesPosted(s)' = WritesPosted(s)
             /\ posted'[s] # posted[s] => conn[s] = "open"
             /\ posted' \in [Sessions -> Seq(PostedTasks)]
  <2>1. /\ posted' \in [Sessions -> Seq(PostedTasks)]
        /\ IF s \in {t} /\ conn[s] = "open"
           THEN Line(s)' = Line(s) \o AllPushed(ById(Again(req)))
           ELSE posted'[s] = posted[s] /\ Line(s)' = Line(s)
        /\ WritesPosted(s)' = WritesPosted(s)
    BY <1>4, <1>5, QueuedLast DEF LineInv
  <2>2. Line(s) \in Seq(PostedTasks)
    BY LinesTyped DEF LineInv
  <2>3. Pkgs(Line(s) \o AllPushed(ById(Again(req)))) = Pkgs(Line(s)) \cup Again(req)
    BY <1>5, <2>2, MoreTasks
  <2> QED BY <1>3, <2>1, <2>3
<1> QED BY <1>2, <1>3, <1>6 DEF t, req

LEMMA LineInvResend ==
    ASSUME LineInv, Resend
    PROVE  LineInv'
<1> USE DEF connVars, loginVars, registryVars, managerVars
<1> DEFINE t == Head(strand).session
<1>1. /\ t \in Sessions /\ request[t] # NoRequest /\ request[t].resend
      /\ posted' \in [Sessions -> Seq(PostedTasks)]
      /\ \A s \in Sessions :
           /\ Pkgs(Line(s)') = IF s = t /\ conn[s] = "open"
                               THEN Pkgs(Line(s)) \cup Again(request[t]) ELSE Pkgs(Line(s))
           /\ s # t => Line(s)' = Line(s)
           /\ WritesPosted(s)' = WritesPosted(s)
           /\ posted'[s] # posted[s] => conn[s] = "open"
  BY SentAgain
<1> HIDE DEF t
<1>2. UNCHANGED <<conn, handle, reading, request, removing, logins, loginAcctKeys,
                  acctKey2TCPSessions, since, messages, acctSentAcknMaxMessageId,
                  sendingMessageQueue, writing, sent, notified>>
  BY DEF Resend
<1>3. strand' \in Seq(StrandTasks) /\ Range(strand') \subseteq Range(strand)
  BY StrandTask DEF LineInv, Resend
<1>4. Typed'
  BY <1>1, <1>2, <1>3 DEF LineInv, Typed
<1>5. Numbered'
  BY <1>2 DEF LineInv, Numbered, NumMessages
<1>6. Chain'
  BY <1>1, <1>2, ChainOnQueued DEF LineInv
<1>7. Known'
  <2> SUFFICES ASSUME NEW s \in Sessions PROVE Pkgs(Line(s)') \subseteq messages'
    BY DEF Known, Pkgs, Pushes
  <2>1. Pkgs(Line(s)) \subseteq messages
    BY DEF LineInv, Known
  <2>2. Again(request[t]) \subseteq messages
    BY DEF Again
  <2> QED BY <1>1, <1>2, <2>1, <2>2
<1>8. LinesAscend'
  <2> SUFFICES ASSUME NEW s \in Sessions, request[s] = NoRequest \/ ~request[s].resend
               PROVE  Ascending(Line(s)')
    BY <1>2 DEF LinesAscend, Ascending, Pushes
  <2> QED BY <1>1 DEF LineInv, LinesAscend
<1>9. ResendsAsked'
  BY <1>2, <1>3, ResendsKept DEF LineInv
<1>10. OneLogin'
  BY <1>2, OneLoginKept DEF LineInv
<1> QED BY <1>4, <1>5, <1>6, <1>7, <1>8, <1>9, <1>10 DEF LineInv

LEMMA LineInvRunPosted ==
    ASSUME LineInv, NEW s \in Sessions, RunPosted(s)
    PROVE  LineInv'
<1> USE DEF connVars, loginVars, registryVars, managerVars
<1>1. /\ Chain' /\ Known'
      /\ sendingMessageQueue' \in [Sessions -> Seq(Packages)]
      /\ posted' \in [Sessions -> Seq(PostedTasks)]
      /\ writing' \in [Sessions -> 0..1]
      /\ Ascending(Line(s)) => Ascending(Line(s)')
  BY ChainOnPosted DEF LineInv
<1>2. UNCHANGED <<conn, handle, reading, request, removing, logins, loginAcctKeys,
                  acctKey2TCPSessions, since, messages, acctSentAcknMaxMessageId, strand, sent>>
  BY DEF RunPosted
<1>3. Typed'
  BY <1>1, <1>2 DEF LineInv, Typed
<1>4. Numbered'
  BY <1>2 DEF LineInv, Numbered, NumMessages
<1>5. \A t \in Sessions \ {s} : Line(t)' = Line(t)
  BY DEF RunPosted, Line, LineInv, Typed, Written
<1>6. LinesAscend'
  <2> SUFFICES ASSUME NEW t \in Sessions, request[t] = NoRequest \/ ~request[t].resend
               PROVE  Ascending(Line(t)')
    BY <1>2 DEF LinesAscend, Ascending, Pushes
  <2>1. Ascending(Line(t))
    BY DEF LineInv, LinesAscend
  <2> QED BY <1>1, <1>5, <2>1
<1>7. ResendsAsked'
  BY <1>2, ResendsKept DEF LineInv
<1>8. OneLogin'
  BY <1>2, OneLoginKept DEF LineInv
<1> QED BY <1>1, <1>3, <1>4, <1>6, <1>7, <1>8 DEF LineInv

LEMMA LineInvWriteOk ==
    ASSUME LineInv, NEW s \in Sessions, WriteOk(s)
    PROVE  /\ LineInv' /\ Range(strand) \subseteq Range(strand')
           /\ \A t \in Sessions \ {s} : Line(t)' = Line(t)
<1> USE DEF connVars, loginVars, registryVars, managerVars
<1>1. /\ Chain' /\ Known'
      /\ sendingMessageQueue' \in [Sessions -> Seq(Packages)]
      /\ posted' \in [Sessions -> Seq(PostedTasks)]
      /\ writing' \in [Sessions -> 0..1]
      /\ sent' \in [Sessions -> Seq(Packages)]
      /\ Ascending(Line(s)) => Ascending(Line(s)')
  BY ChainOnWritten DEF LineInv
<1>2. UNCHANGED <<conn, handle, reading, request, removing, logins, loginAcctKeys,
                  acctKey2TCPSessions, since, messages, acctSentAcknMaxMessageId>>
  BY DEF WriteOk
<1>3. /\ strand \in Seq(StrandTasks) /\ Offset(Head(sendingMessageQueue[s])) \in Seq(StrandTasks)
      /\ strand' = strand \o Offset(Head(sendingMessageQueue[s]))
      /\ \A task \in Range(Offset(Head(sendingMessageQueue[s]))) : task.op = "offset"
  <2> DEFINE pkg == Head(sendingMessageQueue[s])
  <2>1. strand \in Seq(StrandTasks) /\ strand' = strand \o Offset(pkg) /\ sendingMessageQueue[s] # <<>>
    BY DEF LineInv, Typed, WriteOk
  <2>2. pkg \in Packages
    BY <2>1, FirstOff DEF LineInv, Typed
  <2> HIDE DEF pkg
  <2>3. OffsetTask(pkg) \in StrandTasks
    BY <2>2 DEF OffsetTask, StrandTasks
  <2>4. Offset(pkg) \in Seq(StrandTasks)
    BY <2>3 DEF Offset
  <2>5. \A task \in Range(Offset(pkg)) : task.op = "offset"
    BY DEF Offset, OffsetTask, Range
  <2> QED BY <2>1, <2>4, <2>5 DEF pkg
<1>4. /\ strand' \in Seq(StrandTasks)
      /\ Range(strand') = Range(strand) \cup Range(Offset(Head(sendingMessageQueue[s])))
  BY <1>3, StrandGrows
<1>5. Typed'
  BY <1>1, <1>2, <1>4 DEF LineInv, Typed
<1>6. Numbered'
  BY <1>2 DEF LineInv, Numbered, NumMessages
<1>7. \A t \in Sessions \ {s} : Line(t)' = Line(t)
  BY DEF WriteOk, Line, LineInv, Typed
<1>8. LinesAscend'
  <2> SUFFICES ASSUME NEW t \in Sessions, request[t] = NoRequest \/ ~request[t].resend
               PROVE  Ascending(Line(t)')
    BY <1>2 DEF LinesAscend, Ascending, Pushes
  <2>1. Ascending(Line(t))
    BY DEF LineInv, LinesAscend
  <2> QED BY <1>1, <1>7, <2>1
<1>9. ResendsAsked'
  BY <1>2, <1>3, <1>4, ResendsKept DEF LineInv
<1>10. OneLogin'
  BY <1>2, OneLoginKept DEF LineInv
<1> QED BY <1>1, <1>4, <1>5, <1>6, <1>7, <1>8, <1>9, <1>10 DEF LineInv

LEMMA LineInvDisconnect ==
    ASSUME LineInv, NEW s \in Sessions, WriteError(s) \/ ReadError(s)
    PROVE  /\ LineInv' /\ conn' = [conn EXCEPT ![s] = "closed"]
           /\ \A t \in Sessions \ {s} : Line(t)' = Line(t)
           /\ since' = [since EXCEPT ![s] = 0]
           /\ UNCHANGED <<handle, request, logins, loginAcctKeys, acctKey2TCPSessions,
                          messages, strand>>
<1> USE DEF registryVars, managerVars
<1>1. /\ UNCHANGED <<handle, request, logins, loginAcctKeys, acctKey2TCPSessions,
                     messages, acctSentAcknMaxMessageId, strand>>
      /\ since' = [since EXCEPT ![s] = 0]
      /\ reading' = reading \/ reading' = [reading EXCEPT ![s] = FALSE]
      /\ conn' = [conn EXCEPT ![s] = "closed"] /\ removing' = removing \cup {s}
  BY DEF WriteError, ReadError, Disconnect
<1>2. conn[s] # "none"
  <2>1. CASE WriteError(s)
    <3>1. writing[s] > 0 /\ ChainOf(s)
      BY <2>1 DEF WriteError, LineInv, Chain
    <3> QED BY <3>1 DEF ChainOf
  <2>2. CASE ReadError(s)
    BY <2>2 DEF ReadError, LineInv, OneLogin
  <2> QED BY <2>1, <2>2
<1>3. /\ Chain' /\ Known'
      /\ sendingMessageQueue' \in [Sessions -> Seq(Packages)]
      /\ posted' \in [Sessions -> Seq(PostedTasks)]
      /\ writing' \in [Sessions -> 0..1]
      /\ sent' \in [Sessions -> Seq(Packages)]
      /\ Ascending(Line(s)')
  <2>1. s \notin removing
    BY DEF WriteError, ReadError, Thread
  <2>2. Disconnect(s, writing[s]) \/ (writing[s] > 0 /\ Disconnect(s, writing[s] - 1))
    BY DEF WriteError, ReadError
  <2> QED BY <1>1, <1>2, <2>1, <2>2, ChainOnDisconnect DEF LineInv
<1>4. reading' \in [Sessions -> BOOLEAN]
  BY <1>1 DEF LineInv, Typed
<1>5. conn' \in [Sessions -> {"none", "open", "closed"}]
  BY <1>1 DEF LineInv, Typed
<1>6. Typed'
  BY <1>1, <1>3, <1>4, <1>5 DEF LineInv, Typed
<1>7. Numbered'
  BY <1>1 DEF LineInv, Numbered, NumMessages
<1>8. \A t \in Sessions \ {s} : Line(t)' = Line(t)
  BY DEF WriteError, ReadError, Disconnect, Line, LineInv, Typed
<1>9. LinesAscend'
  <2> SUFFICES ASSUME NEW t \in Sessions, request[t] = NoRequest \/ ~request[t].resend
               PROVE  Ascending(Line(t)')
    BY <1>1 DEF LinesAscend, Ascending, Pushes
  <2> QED BY <1>3, <1>8 DEF LineInv, LinesAscend
<1>10. ResendsAsked'
  BY <1>1, ResendsKept DEF LineInv
<1>11. OneLogin'
  <2>1. \A t \in Sessions : conn'[t] = conn[t] \/ (conn'[t] # "none" /\ conn[t] # "none")
    BY <1>1, <1>2 DEF LineInv, Typed
  <2>2. \A t \in Sessions : reading'[t] = reading[t] \/ reading'[t] = FALSE
    BY <1>1 DEF LineInv, Typed
  <2> QED BY <1>1, <2>1, <2>2, OneLoginKept DEF LineInv
<1> QED BY <1>1, <1>3, <1>6, <1>7, <1>8, <1>9, <1>10, <1>11 DEF LineInv

LEMMA LineInvRemove ==
    ASSUME LineInv, NEW s \in Sessions, RemoveTCPSession(s)
    PROVE  LineInv'
<1> USE DEF RemoveTCPSession, connVars, managerVars, sendVars
<1>1. Typed'
  BY DEF LineInv, Typed
<1>2. Numbered' /\ Chain' /\ Known' /\ LinesAscend'
  BY LinesKept
<1>3. ResendsAsked'
  BY ResendsKept DEF LineInv
<1>4. OneLogin'
  BY OneLoginKept DEF LineInv
<1> QED BY <1>1, <1>2, <1>3, <1>4 DEF LineInv

LEMMA LineInvStutters ==
    ASSUME LineInv, UNCHANGED vars
    PROVE  LineInv'
<1> USE DEF vars, connVars, loginVars, registryVars, managerVars, sendVars
<1>1. Typed'
  BY DEF LineInv, Typed
<1>2. Numbered' /\ Chain' /\ Known' /\ LinesAscend'
  BY LinesKept
<1>3. ResendsAsked'
  BY ResendsKept DEF LineInv
<1>4. OneLogin'
  BY OneLoginKept DEF LineInv
<1> QED BY <1>1, <1>2, <1>3, <1>4 DEF LineInv

LEMMA LineInvKept == LineInv /\ [Next]_vars => LineInv'
<1> SUFFICES ASSUME LineInv, [Next]_vars PROVE LineInv'
  OBVIOUS
<1>1. CASE \E s \in Sessions, h \in Handles : Accept(s, h)
  BY <1>1, LineInvAccept
<1>2. CASE \E s \in Sessions : \E req \in LoginRequests[s] : ReadLogin(s, req)
  BY <1>2, LineInvReadLogin
<1>3. CASE \E s \in Sessions : ReadError(s)
  BY <1>3, LineInvDisconnect
<1>4. CASE \E n \in Notifications : Notify(n)
  BY <1>4, LineInvNotify
<1>5. CASE Login
  BY <1>5, LineInvLogin
<1>6. CASE SendMessage
  BY <1>6, LineInvSendMessage
<1>7. CASE StoreOffset
  BY <1>7, LineInvStoreOffset
<1>8. CASE Resend
  BY <1>8, LineInvResend
<1>9. CASE \E s \in Sessions : RunPosted(s)
  BY <1>9, LineInvRunPosted
<1>10. CASE \E s \in Sessions : WriteOk(s)
  BY <1>10, LineInvWriteOk
<1>11. CASE \E s \in Sessions : WriteError(s)
  BY <1>11, LineInvDisconnect
<1>12. CASE \E s \in Sessions : RemoveTCPSession(s)
  BY <1>12, LineInvRemove
<1>13. CASE UNCHANGED vars
  BY <1>13, LineInvStutters
<1> QED BY <1>1, <1>2, <1>3, <1>4, <1>5, <1>6, <1>7, <1>8, <1>9, <1>10, <1>11, <1>12, <1>13
        DEF Next, Clients, Strand, NetThread

-----------------------------------------------------------------------------
(* The theorems *)

LEMMA Lines == Spec => []LineInv
  BY LineInvStarts, LineInvKept, PTL DEF Spec

\* Every variable has its type, and what is queued or sent was numbered.
THEOREM SessionsTyped == Spec => []TypeOK
<1>1. ASSUME LineInv PROVE TypeOK
  <2>1. \A s \in Sessions : sent[s] \in Seq(messages) /\ sendingMessageQueue[s] \in Seq(messages)
    <3> SUFFICES ASSUME NEW s \in Sessions
                 PROVE  sent[s] \in Seq(messages) /\ sendingMessageQueue[s] \in Seq(messages)
      OBVIOUS
    <3>1. sent[s] \in Seq(Packages) /\ sendingMessageQueue[s] \in Seq(Packages)
      BY <1>1 DEF LineInv, Typed
    <3>2. /\ \A i \in DOMAIN sent[s] : sent[s][i] \in messages
          /\ \A i \in DOMAIN sendingMessageQueue[s] : sendingMessageQueue[s][i] \in messages
      BY <1>1, LineHas DEF LineInv, Known
    <3>3. \A x \in Seq(Packages) : (\A i \in DOMAIN x : x[i] \in messages) => x \in Seq(messages)
      OBVIOUS
    <3> QED BY <3>1, <3>2, <3>3
  <2> QED BY <1>1, <2>1 DEF LineInv, Typed, TypeOK
<1> QED BY <1>1, Lines, PTL

\* An open socket has one write under way or posted as long as there is something
\* to send, and never two.
THEOREM WritesTakeTurns == Spec => []OneWriteAtATime
<1>1. LineInv => OneWriteAtATime
  BY DEF LineInv, Chain, ChainOf, OneWriteAtATime
<1> QED BY <1>1, Lines, PTL

\* A client that asked for no old messages gets each one once, in the order in which
\* the server sent them, whatever numbers they have.
THEOREM LinesAreOrdered == Spec => []NoneOvertakes
<1>1. LineInv => NoneOvertakes
  BY DEF LineInv, LinesAscend, Ascending, Pushes, NoneOvertakes, Pushed
<1> QED BY <1>1, Lines, PTL

-----------------------------------------------------------------------------
(* Nothing is missed *)

\* Named, of NothingMissed.
NamedBy(req, m) ==
    \/ m.cmd = CMD_NOTIFY_Order /\ req.order > 0 /\ m.id >= req.order
    \/ m.cmd = CMD_NOTIFY_Trade /\ req.trade > 0 /\ m.id >= req.trade
    \/ m.cmd = CMD_NOTIFY_AlgoExecutionInfo /\ req.algo > 0 /\ m.id >= req.algo

\* What NothingMissed asks of a session and a message of its account.
Due(s, m) ==
    \/ m.nth > since[s]
    \/ /\ request[s].resend /\ ResendTask(s, request[s]) \notin Range(strand)
       /\ m.shouldCache /\ NamedBy(request[s], m)

Delivered(s) ==
    LoggedIn(s) /\ SoleHandle(s) =>
        \A m \in messages : m.acct = request[s].acct /\ Due(s, m) => m \in Pkgs(Line(s))

LEMMA StreamIdsAre == ASSUME NEW s PROVE StreamIds(s) = {p.id : p \in Pkgs(Line(s))}
  BY DEF StreamIds, Pushed, Pkgs, Pushes

LEMMA NothingMissedIs ==
    ASSUME LineInv
    PROVE  NothingMissed <=> \A s \in Sessions : Delivered(s)
<1>1. ASSUME NEW s \in Sessions, NEW m \in messages
      PROVE  m.id \in StreamIds(s) <=> m \in Pkgs(Line(s))
  <2>1. Pkgs(Line(s)) \subseteq messages
    BY DEF LineInv, Known
  <2> QED BY <2>1, StreamIdsAre DEF LineInv, Numbered
<1>2. NothingMissed <=>
        \A s \in Sessions : LoggedIn(s) /\ SoleHandle(s) =>
            \A m \in messages : m.acct = request[s].acct =>
                /\ m.nth > since[s] => m.id \in StreamIds(s)
                /\ (request[s].resend /\ ResendTask(s, request[s]) \notin Range(strand)
                      /\ m.shouldCache /\ NamedBy(request[s], m)) => m.id \in StreamIds(s)
  BY DEF NothingMissed, NamedBy, Range
<1> QED BY <1>1, <1>2 DEF Delivered, Due

\* A logged-in session misses nothing as long as nothing is numbered, its line loses
\* nothing and its resend, if it waits, goes on waiting.
LEMMA DeliveredKept ==
    ASSUME NEW s \in Sessions, Delivered(s),
           LoggedIn(s)' => LoggedIn(s), SoleHandle(s)' => SoleHandle(s),
           request'[s] = request[s], since'[s] = since[s], UNCHANGED messages,
           Pkgs(Line(s)) \subseteq Pkgs(Line(s)'),
           request[s].resend /\ ResendTask(s, request[s]) \in Range(strand)
              => ResendTask(s, request[s]) \in Range(strand')
    PROVE  Delivered(s)'
<1> SUFFICES ASSUME LoggedIn(s)', SoleHandle(s)', NEW m \in messages,
                    m.acct = request[s].acct, Due(s, m)'
             PROVE  m \in Pkgs(Line(s)')
  BY DEF Delivered, Pkgs, Pushes
<1>1. Due(s, m)
  BY DEF Due, NamedBy
<1> QED BY <1>1 DEF Delivered

LEMMA LineSame ==
    ASSUME NEW s, Line(s)' = Line(s)
    PROVE  Pkgs(Line(s)) \subseteq Pkgs(Line(s)')
  OBVIOUS

DeliveryInv == LineInv /\ RegisteredByHandle /\ \A s \in Sessions : Delivered(s)

\* Facts of a session that is logged in.
LEMMA LoggedInIs ==
    ASSUME LineInv, NEW s \in Sessions, LoggedIn(s)
    PROVE  /\ request[s] \in Requests /\ request[s].acct \in Accounts /\ handle[s] \in Handles
           /\ conn[s] = "open" /\ s \notin removing
           /\ \A i \in DOMAIN logins : logins[i] # s
<1>1. request[s] \in Requests /\ request[s].acct \in Accounts
  BY DEF LineInv, Typed, LoggedIn, Requests
<1>2. ChainOf(s) /\ conn[s] = "open" /\ loginAcctKeys[s] # {}
  BY DEF LineInv, Chain, LoggedIn
<1>3. s \notin removing
  BY <1>2 DEF ChainOf
<1>4. handle[s] \in Handles
  BY <1>2 DEF LineInv, OneLogin
<1>5. \A i \in DOMAIN logins : logins[i] # s
  BY <1>2 DEF LineInv, OneLogin
<1> QED BY <1>1, <1>2, <1>3, <1>4, <1>5

LEMMA RegisteredKept ==
    ASSUME RegisteredByHandle, UNCHANGED <<acctKey2TCPSessions, handle, request>>,
           \A s \in Sessions : LoggedIn(s)' => LoggedIn(s)
    PROVE  RegisteredByHandle'
  BY DEF RegisteredByHandle, SoleHandle

LEMMA DeliveryStarts == Init => DeliveryInv
<1> SUFFICES ASSUME Init PROVE DeliveryInv
  OBVIOUS
<1>1. \A s \in Sessions : ~LoggedIn(s)
  BY DEF Init, LoggedIn
<1>2. RegisteredByHandle
  BY <1>1 DEF Init, RegisteredByHandle
<1>3. \A s \in Sessions : Delivered(s)
  BY <1>1 DEF Delivered
<1> QED BY <1>2, <1>3, LineInvStarts DEF DeliveryInv

LEMMA DeliveryAccept ==
    ASSUME DeliveryInv, NEW t \in Sessions, NEW h \in Handles, Accept(t, h)
    PROVE  RegisteredByHandle' /\ \A s \in Sessions : Delivered(s)'
<1>1. /\ handle' = [handle EXCEPT ![t] = h] /\ conn' = [conn EXCEPT ![t] = "open"]
      /\ conn[t] = "none" /\ handle[t] = NoHandle /\ request[t] = NoRequest
      /\ handle \in [Sessions -> Handles \cup {NoHandle}]
      /\ conn \in [Sessions -> {"none", "open", "closed"}]
      /\ acctKey2TCPSessions \in [Accounts -> [Handles -> Sessions \cup {NoSession}]]
  BY DEF DeliveryInv, LineInv, Typed, OneLogin, Accept
<1>2. UNCHANGED <<request, loginAcctKeys, acctKey2TCPSessions, since, messages, strand,
                  posted, sendingMessageQueue, sent>>
  BY DEF Accept, loginVars, registryVars, managerVars, sendVars
<1>3. \A s \in Sessions : LoggedIn(s)' => LoggedIn(s) /\ s # t
  BY <1>1, <1>2 DEF LoggedIn
<1>4. \A s \in Sessions : LoggedIn(s) => handle[s] \in Handles
  BY LoggedInIs DEF DeliveryInv
<1>5. \A s \in Sessions : LoggedIn(s) /\ SoleHandle(s)' => SoleHandle(s)
  <2> SUFFICES ASSUME NEW s \in Sessions, LoggedIn(s), SoleHandle(s)', NEW k \in Sessions \ {s}
               PROVE  handle[k] # handle[s]
    BY DEF SoleHandle
  <2>1. handle'[k] # handle'[s] /\ s # t
    BY <1>1 DEF SoleHandle, LoggedIn
  <2>2. CASE k = t
    BY <1>1, <1>4, <2>2, SessionsAssumption
  <2>3. CASE k # t
    BY <1>1, <2>1, <2>3
  <2> QED BY <2>2, <2>3
<1>6. RegisteredByHandle'
  <2>1. ASSUME NEW a \in Accounts, NEW k \in Handles, acctKey2TCPSessions[a][k] # NoSession
        PROVE  handle'[acctKey2TCPSessions[a][k]] = k
    <3>1. handle[acctKey2TCPSessions[a][k]] = k
      BY <2>1 DEF DeliveryInv, RegisteredByHandle
    <3>2. acctKey2TCPSessions[a][k] # t
      BY <1>1, <3>1, SessionsAssumption
    <3>3. acctKey2TCPSessions[a][k] \in Sessions
      BY <1>1, <2>1
    <3> QED BY <1>1, <3>1, <3>2, <3>3
  <2>2. ASSUME NEW s \in Sessions, LoggedIn(s)', SoleHandle(s)'
        PROVE  acctKey2TCPSessions[request[s].acct][handle'[s]] = s
    <3>1. LoggedIn(s) /\ s # t /\ SoleHandle(s)
      BY <1>3, <1>5, <2>2
    <3> QED BY <1>1, <3>1 DEF DeliveryInv, RegisteredByHandle
  <2> QED BY <1>2, <2>1, <2>2 DEF RegisteredByHandle
<1>7. ASSUME NEW s \in Sessions PROVE Delivered(s)'
  <2>1. CASE ~LoggedIn(s)'
    BY <2>1 DEF Delivered
  <2>2. CASE LoggedIn(s)'
    <3>1. LoggedIn(s) /\ (SoleHandle(s)' => SoleHandle(s))
      BY <1>3, <1>5, <2>2
    <3>2. Line(s)' = Line(s)
      BY <1>2 DEF Line
    <3> QED BY <1>2, <3>1, <3>2, DeliveredKept, LineSame DEF DeliveryInv
  <2> QED BY <2>1, <2>2
<1> QED BY <1>6, <1>7

LEMMA DeliveryReadLogin ==
    ASSUME DeliveryInv, NEW t \in Sessions, NEW req \in LoginRequests[t], ReadLogin(t, req)
    PROVE  RegisteredByHandle' /\ \A s \in Sessions : Delivered(s)'
<1>1. /\ request' = [request EXCEPT ![t] = req] /\ request[t] = NoRequest
      /\ loginAcctKeys[t] = {} /\ request \in [Sessions -> Requests \cup {NoRequest}]
  BY DEF DeliveryInv, LineInv, Typed, OneLogin, ReadLogin
<1>2. UNCHANGED <<conn, handle, loginAcctKeys, acctKey2TCPSessions, since, messages, strand,
                  posted, sendingMessageQueue, sent>>
  BY DEF ReadLogin, managerVars, sendVars
<1>3. \A s \in Sessions : LoggedIn(s)' => LoggedIn(s) /\ request'[s] = request[s]
  BY <1>1, <1>2 DEF LoggedIn
<1>4. RegisteredByHandle'
  BY <1>2, <1>3 DEF DeliveryInv, RegisteredByHandle, SoleHandle
<1>5. ASSUME NEW s \in Sessions PROVE Delivered(s)'
  <2>1. CASE ~LoggedIn(s)'
    BY <2>1 DEF Delivered
  <2>2. CASE LoggedIn(s)'
    <3>1. Line(s)' = Line(s) /\ (SoleHandle(s)' => SoleHandle(s))
      BY <1>2 DEF Line, SoleHandle
    <3> QED BY <1>2, <1>3, <2>2, <3>1, DeliveredKept, LineSame DEF DeliveryInv
  <2> QED BY <2>1, <2>2
<1> QED BY <1>4, <1>5

LEMMA DeliveryLogin ==
    ASSUME DeliveryInv, Login
    PROVE  RegisteredByHandle' /\ \A s \in Sessions : Delivered(s)'
<1> DEFINE t == Head(logins)
           req == request[t]
<1>1. /\ t \in Sessions /\ 1 \in DOMAIN logins /\ logins[1] = t
      /\ req # NoRequest /\ req \in Requests /\ req.acct \in Accounts /\ handle[t] \in Handles
  <2>1. t \in Sessions /\ 1 \in DOMAIN logins /\ logins[1] = t
    BY FirstOff DEF Login, DeliveryInv, LineInv, Typed
  <2> QED BY <2>1 DEF DeliveryInv, LineInv, OneLogin, Typed, Requests
<1>2. /\ loginAcctKeys' = [loginAcctKeys EXCEPT ![t] = loginAcctKeys[t] \cup {req.acct}]
      /\ acctKey2TCPSessions' = Registered(req.acct, handle[t], t)
      /\ strand' = strand \o ResendAsked(t, req) \o <<SendTask(t, LoginResponse)>>
      /\ since' = [since EXCEPT ![t] = NumMessages]
      /\ UNCHANGED <<conn, handle, request, messages, posted, sendingMessageQueue, sent>>
  BY DEF Login, connVars, managerVars, sendVars
<1>3. /\ Range(strand) \subseteq Range(strand')
      /\ req.resend => ResendTask(t, req) \in Range(strand')
  <2>1. SendTask(t, LoginResponse) \in StrandTasks /\ ResendTask(t, req) \in StrandTasks
    BY <1>1 DEF SendTask, ResendTask, StrandTasks
  <2>2. /\ strand \in Seq(StrandTasks) /\ ResendAsked(t, req) \in Seq(StrandTasks)
        /\ <<SendTask(t, LoginResponse)>> \in Seq(StrandTasks)
    BY <2>1 DEF DeliveryInv, LineInv, Typed, ResendAsked
  <2>3. /\ strand \o ResendAsked(t, req) \in Seq(StrandTasks)
        /\ Range(strand \o ResendAsked(t, req)) = Range(strand) \cup Range(ResendAsked(t, req))
    BY <2>2, StrandGrows
  <2>4. Range(strand') = Range(strand \o ResendAsked(t, req)) \cup Range(<<SendTask(t, LoginResponse)>>)
    BY <1>2, <2>2, <2>3, StrandGrows
  <2>5. req.resend => ResendTask(t, req) \in Range(ResendAsked(t, req))
    BY DEF ResendAsked, Range
  <2> QED BY <2>3, <2>4, <2>5
<1> HIDE DEF t, req
<1>4. \A s \in Sessions : Line(s)' = Line(s) /\ (SoleHandle(s)' <=> SoleHandle(s))
  BY <1>2 DEF Line, SoleHandle
<1>5. \A s \in Sessions \ {t} : LoggedIn(s)' => LoggedIn(s)
  BY <1>1, <1>2 DEF LoggedIn, DeliveryInv, LineInv, Typed
<1>6. /\ acctKey2TCPSessions \in [Accounts -> [Handles -> Sessions \cup {NoSession}]]
      /\ since \in [Sessions -> Nat]
  BY DEF DeliveryInv, LineInv, Typed
<1>7. \A a \in Accounts, h \in Handles :
        acctKey2TCPSessions'[a][h] =
           IF a = req.acct /\ h = handle[t] /\ acctKey2TCPSessions[a][h] = NoSession
           THEN t ELSE acctKey2TCPSessions[a][h]
  BY <1>1, <1>2, <1>6 DEF Registered
<1>8. RegisteredByHandle'
  <2>1. ASSUME NEW a \in Accounts, NEW h \in Handles, acctKey2TCPSessions'[a][h] # NoSession
        PROVE  handle[acctKey2TCPSessions'[a][h]] = h
    BY <1>7, <2>1 DEF DeliveryInv, RegisteredByHandle
  <2>2. ASSUME NEW s \in Sessions, LoggedIn(s)', SoleHandle(s)
        PROVE  acctKey2TCPSessions'[request[s].acct][handle[s]] = s
    <3>1. CASE s = t
      <4>1. CASE acctKey2TCPSessions[req.acct][handle[t]] = NoSession
        BY <1>1, <1>7, <3>1, <4>1 DEF req
      <4>2. CASE acctKey2TCPSessions[req.acct][handle[t]] # NoSession
        <5> DEFINE k == acctKey2TCPSessions[req.acct][handle[t]]
        <5>1. k \in Sessions /\ handle[k] = handle[t]
          BY <1>1, <1>6, <4>2 DEF DeliveryInv, RegisteredByHandle
        <5>2. k = t
          BY <2>2, <3>1, <5>1 DEF SoleHandle
        <5> QED BY <1>1, <1>7, <3>1, <4>2, <5>2 DEF req
      <4> QED BY <4>1, <4>2
    <3>2. CASE s # t
      <4>1. LoggedIn(s)
        BY <1>5, <2>2, <3>2
      <4>2. acctKey2TCPSessions[request[s].acct][handle[s]] = s /\ s # NoSession
        BY <2>2, <4>1, SessionsAssumption DEF DeliveryInv, RegisteredByHandle, Sessions
      <4>3. request[s].acct \in Accounts /\ handle[s] \in Handles
        BY <4>1, LoggedInIs DEF DeliveryInv
      <4> QED BY <1>7, <4>2, <4>3
    <3> QED BY <3>1, <3>2
  <2> QED BY <1>2, <1>4, <2>1, <2>2 DEF RegisteredByHandle
<1>9. ASSUME NEW s \in Sessions PROVE Delivered(s)'
  <2>1. CASE s = t
    <3> SUFFICES ASSUME NEW m \in messages, Due(s, m)' PROVE FALSE
      BY <1>2 DEF Delivered, Pkgs, Pushes
    <3>1. since'[s] = NumMessages
      BY <1>1, <1>2, <1>6, <2>1
    <3>2. ~(m.nth > NumMessages)
      <4>1. m.nth <= NumMessages /\ m.nth \in Nat /\ NumMessages \in Nat
        BY FS_CardinalityType DEF DeliveryInv, LineInv, Numbered, Typed, Packages, NumMessages
      <4> QED BY <4>1
    <3>3. request[s].resend => ResendTask(s, request[s]) \in Range(strand')
      BY <1>3, <2>1 DEF req
    <3> QED BY <1>2, <3>1, <3>2, <3>3 DEF Due
  <2>2. CASE s # t
    <3>1. LoggedIn(s)' => LoggedIn(s)
      BY <1>5, <2>2
    <3>2. since'[s] = since[s] /\ request'[s] = request[s] /\ UNCHANGED messages
      BY <1>1, <1>2, <1>6, <2>2
    <3> QED BY <1>3, <1>4, <3>1, <3>2, DeliveredKept, LineSame DEF DeliveryInv
  <2> QED BY <2>1, <2>2
<1> QED BY <1>8, <1>9

LEMMA DeliveryNotify ==
    ASSUME DeliveryInv, NEW n \in Notifications, Notify(n)
    PROVE  RegisteredByHandle' /\ \A s \in Sessions : Delivered(s)'
<1>1. UNCHANGED <<conn, handle, request, loginAcctKeys, acctKey2TCPSessions, since, messages,
                  posted, sendingMessageQueue, sent>>
  BY DEF Notify, connVars, loginVars, registryVars, managerVars, sendVars
<1>2. \A s \in Sessions : /\ Line(s)' = Line(s) /\ LoggedIn(s)' = LoggedIn(s)
                          /\ SoleHandle(s)' = SoleHandle(s)
  BY <1>1 DEF Line, LoggedIn, SoleHandle
<1>3. Range(strand) \subseteq Range(strand')
  <2>1. SendTask(NoSession, n) \in StrandTasks
    BY DEF SendTask, StrandTasks
  <2>2. strand \in Seq(StrandTasks) /\ strand' = Append(strand, SendTask(NoSession, n))
    BY DEF DeliveryInv, LineInv, Typed, Notify
  <2> QED BY <2>1, <2>2, StrandLonger
<1>4. RegisteredByHandle'
  BY <1>1, <1>2, RegisteredKept DEF DeliveryInv
<1>5. ASSUME NEW s \in Sessions PROVE Delivered(s)'
  BY <1>1, <1>2, <1>3, DeliveredKept, LineSame DEF DeliveryInv
<1> QED BY <1>4, <1>5

\* The sessions of the account take the new message, and those that were told which
\* sessions to serve by the map are all that are logged in on handles of their own.
LEMMA DeliverySendMessage ==
    ASSUME DeliveryInv, SendMessage
    PROVE  RegisteredByHandle' /\ \A s \in Sessions : Delivered(s)'
<1>1. PICK pkg \in Packages :
        /\ pkg.acct = Head(strand).msg.acct
        /\ messages' = messages \cup {pkg}
        /\ \A s \in Sessions :
             /\ Line(s)' = IF s \in Targets /\ conn[s] = "open"
                           THEN Append(Line(s), Push(pkg)) ELSE Line(s)
             /\ Line(s) \in Seq(PostedTasks)
  BY Sent DEF DeliveryInv
<1>2. UNCHANGED <<conn, handle, request, loginAcctKeys, acctKey2TCPSessions, since>>
  BY DEF SendMessage, connVars, loginVars, registryVars
<1>3. \A s \in Sessions : LoggedIn(s)' = LoggedIn(s) /\ SoleHandle(s)' = SoleHandle(s)
  BY <1>2 DEF LoggedIn, SoleHandle
<1>4. /\ Head(strand) \in StrandTasks /\ Head(strand).op = "send"
      /\ Range(strand) = {Head(strand)} \cup Range(strand')
  BY StrandTask DEF DeliveryInv, LineInv, SendMessage
<1>5. \A s \in Sessions : ResendTask(s, request[s]) \in Range(strand)
                            => ResendTask(s, request[s]) \in Range(strand')
  BY <1>4 DEF ResendTask
<1>6. RegisteredByHandle'
  BY <1>2, <1>3, RegisteredKept DEF DeliveryInv
<1>7. ASSUME NEW s \in Sessions PROVE Delivered(s)'
  <2> SUFFICES ASSUME LoggedIn(s), SoleHandle(s), NEW m \in messages',
                      m.acct = request[s].acct, Due(s, m)'
               PROVE  m \in Pkgs(Line(s)')
    BY <1>2, <1>3 DEF Delivered, Pkgs, Pushes
  <2>1. Pkgs(Append(Line(s), Push(pkg))) = Pkgs(Line(s)) \cup {pkg}
    BY <1>1, OneMoreTask
  <2>2. CASE m \in messages
    <3>1. Due(s, m)
      BY <1>2, <1>5 DEF Due, NamedBy
    <3>2. m \in Pkgs(Line(s))
      BY <2>2, <3>1 DEF DeliveryInv, Delivered
    <3> QED BY <1>1, <2>1, <3>2
  <2>3. CASE m = pkg
    <3>1. /\ request[s].acct \in Accounts /\ handle[s] \in Handles /\ conn[s] = "open"
      BY LoggedInIs DEF DeliveryInv
    <3>2. Head(strand).msg # LoginResponse
      BY <1>1, <2>3, <3>1, SessionsAssumption DEF LoginResponse
    <3>3. Head(strand).session = NoSession
      BY <1>4, <3>2, TaskTyped
    <3>4. Targets = SessionsOf(request[s].acct)
      BY <1>1, <2>3, <3>3 DEF Targets
    <3>5. acctKey2TCPSessions[request[s].acct][handle[s]] = s /\ s # NoSession
      BY SessionsAssumption DEF DeliveryInv, RegisteredByHandle, Sessions
    <3>6. s \in Targets
      BY <3>1, <3>4, <3>5 DEF SessionsOf
    <3> QED BY <1>1, <2>1, <2>3, <3>1, <3>6
  <2> QED BY <1>1, <2>2, <2>3
<1> QED BY <1>6, <1>7

LEMMA DeliveryStoreOffset ==
    ASSUME DeliveryInv, StoreOffset
    PROVE  RegisteredByHandle' /\ \A s \in Sessions : Delivered(s)'
<1>1. UNCHANGED <<conn, handle, request, loginAcctKeys, acctKey2TCPSessions, since, messages,
                  posted, sendingMessageQueue, sent>>
  BY DEF StoreOffset, connVars, loginVars, registryVars, sendVars
<1>2. \A s \in Sessions : /\ Line(s)' = Line(s) /\ LoggedIn(s)' = LoggedIn(s)
                          /\ SoleHandle(s)' = SoleHandle(s)
  BY <1>1 DEF Line, LoggedIn, SoleHandle
<1>3. Head(strand).op = "offset" /\ Range(strand) = {Head(strand)} \cup Range(strand')
  BY StrandTask DEF DeliveryInv, LineInv, StoreOffset
<1>4. \A s \in Sessions : ResendTask(s, request[s]) \in Range(strand)
                            => ResendTask(s, request[s]) \in Range(strand')
  BY <1>3 DEF ResendTask
<1>5. RegisteredByHandle'
  BY <1>1, <1>2, RegisteredKept DEF DeliveryInv
<1>6. ASSUME NEW s \in Sessions PROVE Delivered(s)'
  BY <1>1, <1>2, <1>4, DeliveredKept, LineSame DEF DeliveryInv
<1> QED BY <1>5, <1>6

\* What the client named is among what is sent again.
LEMMA DeliveryResend ==
    ASSUME DeliveryInv, Resend
    PROVE  RegisteredByHandle' /\ \A s \in Sessions : Delivered(s)'
<1> DEFINE t == Head(strand).session
<1>1. /\ t \in Sessions /\ Head(strand).req = request[t]
      /\ \A s \in Sessions :
           Pkgs(Line(s)') = IF s = t /\ conn[s] = "open"
                            THEN Pkgs(Line(s)) \cup Again(request[t]) ELSE Pkgs(Line(s))
  BY SentAgain DEF DeliveryInv
<1>2. UNCHANGED <<conn, handle, request, loginAcctKeys, acctKey2TCPSessions, since, messages>>
  BY DEF Resend, connVars, loginVars, registryVars, managerVars
<1>3. \A s \in Sessions : LoggedIn(s)' = LoggedIn(s) /\ SoleHandle(s)' = SoleHandle(s)
  BY <1>2 DEF LoggedIn, SoleHandle
<1>4. Range(strand) = {Head(strand)} \cup Range(strand')
  BY StrandTask DEF DeliveryInv, LineInv, Resend
<1>5. \A s \in Sessions \ {t} : ResendTask(s, request[s]) \in Range(strand)
                                  => ResendTask(s, request[s]) \in Range(strand')
  BY <1>4 DEF ResendTask
<1> HIDE DEF t
<1>6. RegisteredByHandle'
  BY <1>2, <1>3, RegisteredKept DEF DeliveryInv
<1>7. ASSUME NEW s \in Sessions PROVE Delivered(s)'
  <2>1. CASE s # t
    BY <1>1, <1>2, <1>3, <1>5, <2>1, DeliveredKept DEF DeliveryInv
  <2>2. CASE s = t
    <3> SUFFICES ASSUME LoggedIn(s), SoleHandle(s), NEW m \in messages,
                        m.acct = request[s].acct, Due(s, m)'
                 PROVE  m \in Pkgs(Line(s)')
      BY <1>2, <1>3 DEF Delivered, Pkgs, Pushes
    <3>1. conn[s] = "open"
      BY DEF LoggedIn
    <3>2. CASE m.nth > since[s]
      <4>1. m \in Pkgs(Line(s))
        BY <3>2 DEF DeliveryInv, Delivered, Due
      <4> QED BY <1>1, <2>2, <4>1
    <3>3. CASE m.shouldCache /\ NamedBy(request[s], m)
      <4>1. m.cmd = CMD_NOTIFY_AlgoExecutionInfo => m.cmd >= CMD_NOTIFY_AlgoExecutionInfo
        BY DEF CMD_NOTIFY_AlgoExecutionInfo
      <4>2. ToResend(m, request[s])
        BY <3>3, <4>1 DEF NamedBy, ToResend, From
      <4>3. m \in Again(request[t])
        BY <2>2, <3>3, <4>2 DEF Again
      <4> QED BY <1>1, <2>2, <3>1, <4>3
    <3> QED BY <1>2, <3>2, <3>3 DEF Due, NamedBy
  <2> QED BY <2>1, <2>2
<1> QED BY <1>6, <1>7

\* The steps of a network thread, which take nothing from the line of an open session.
LEMMA DeliveryNetThread ==
    ASSUME DeliveryInv, NEW t \in Sessions, RunPosted(t) \/ WriteOk(t)
    PROVE  RegisteredByHandle' /\ \A s \in Sessions : Delivered(s)'
<1>1. UNCHANGED <<conn, handle, request, loginAcctKeys, acctKey2TCPSessions, since, messages>>
  BY DEF RunPosted, WriteOk, connVars, loginVars, registryVars, managerVars
<1>2. \A s \in Sessions : LoggedIn(s)' = LoggedIn(s) /\ SoleHandle(s)' = SoleHandle(s)
  BY <1>1 DEF LoggedIn, SoleHandle
<1>3. /\ Range(strand) \subseteq Range(strand')
      /\ \A s \in Sessions \ {t} : Line(s)' = Line(s)
      /\ conn[t] = "open" => Pkgs(Line(t)') = Pkgs(Line(t))
  <2>1. CASE RunPosted(t)
    <3>1. \A s \in Sessions \ {t} : Line(s)' = Line(s)
      BY <2>1 DEF RunPosted, Line, DeliveryInv, LineInv, Typed, Written
    <3>2. UNCHANGED strand
      BY <2>1 DEF RunPosted
    <3>3. Pkgs(Line(t)') = Pkgs(Line(t))
      BY <2>1, ChainOnPosted DEF DeliveryInv, LineInv
    <3> QED BY <3>1, <3>2, <3>3
  <2>2. CASE WriteOk(t)
    BY <2>2, LineInvWriteOk, ChainOnWritten DEF DeliveryInv, LineInv
  <2> QED BY <2>1, <2>2
<1>4. RegisteredByHandle'
  BY <1>1, <1>2, RegisteredKept DEF DeliveryInv
<1>5. ASSUME NEW s \in Sessions PROVE Delivered(s)'
  <2>1. CASE ~LoggedIn(s)
    BY <1>2, <2>1 DEF Delivered
  <2>2. CASE LoggedIn(s)
    <3>1. Pkgs(Line(s)) \subseteq Pkgs(Line(s)')
      BY <1>3, <2>2, LineSame DEF LoggedIn
    <3> QED BY <1>1, <1>2, <1>3, <3>1, DeliveredKept DEF DeliveryInv
  <2> QED BY <2>1, <2>2
<1> QED BY <1>4, <1>5

LEMMA DeliveryDisconnect ==
    ASSUME DeliveryInv, NEW t \in Sessions, WriteError(t) \/ ReadError(t)
    PROVE  RegisteredByHandle' /\ \A s \in Sessions : Delivered(s)'
<1>1. /\ conn' = [conn EXCEPT ![t] = "closed"]
      /\ \A s \in Sessions \ {t} : Line(s)' = Line(s)
      /\ since' = [since EXCEPT ![t] = 0]
      /\ UNCHANGED <<handle, request, logins, loginAcctKeys, acctKey2TCPSessions,
                     messages, strand>>
  BY LineInvDisconnect DEF DeliveryInv
<1>2. \A s \in Sessions : /\ LoggedIn(s)' => LoggedIn(s) /\ s # t
                          /\ SoleHandle(s)' = SoleHandle(s)
  BY <1>1 DEF LoggedIn, SoleHandle, DeliveryInv, LineInv, Typed
<1>3. RegisteredByHandle'
  BY <1>1, <1>2, RegisteredKept DEF DeliveryInv
<1>4. ASSUME NEW s \in Sessions PROVE Delivered(s)'
  <2>1. CASE ~LoggedIn(s)'
    BY <2>1 DEF Delivered
  <2>2. CASE LoggedIn(s)'
    <3>1. LoggedIn(s) /\ Line(s)' = Line(s) /\ since'[s] = since[s]
      BY <1>1, <1>2, <2>2 DEF DeliveryInv, LineInv, Typed
    <3> QED BY <1>1, <1>2, <3>1, DeliveredKept, LineSame DEF DeliveryInv
  <2> QED BY <2>1, <2>2
<1> QED BY <1>3, <1>4

\* Another session erases entries of another handle.
LEMMA DeliveryRemove ==
    ASSUME DeliveryInv, NEW t \in Sessions, RemoveTCPSession(t)
    PROVE  RegisteredByHandle' /\ \A s \in Sessions : Delivered(s)'
<1>1. UNCHANGED <<conn, handle, request, loginAcctKeys, since, messages, strand,
                  posted, sendingMessageQueue, sent>>
  BY DEF RemoveTCPSession, connVars, managerVars, sendVars
<1>2. \A s \in Sessions : /\ Line(s)' = Line(s) /\ LoggedIn(s)' = LoggedIn(s)
                          /\ SoleHandle(s)' = SoleHandle(s)
  BY <1>1 DEF Line, LoggedIn, SoleHandle
<1>3. \A a \in Accounts, h \in Handles :
        acctKey2TCPSessions'[a][h] = IF a \in loginAcctKeys[t] /\ h = handle[t] THEN NoSession
                                     ELSE acctKey2TCPSessions[a][h]
  BY DEF RemoveTCPSession
<1>4. RegisteredByHandle'
  <2>1. ASSUME NEW a \in Accounts, NEW h \in Handles, acctKey2TCPSessions'[a][h] # NoSession
        PROVE  handle[acctKey2TCPSessions'[a][h]] = h
    BY <1>3, <2>1 DEF DeliveryInv, RegisteredByHandle
  <2>2. ASSUME NEW s \in Sessions, LoggedIn(s), SoleHandle(s)
        PROVE  acctKey2TCPSessions'[request[s].acct][handle[s]] = s
    <3>1. s # t
      BY <2>2, LoggedInIs DEF DeliveryInv, RemoveTCPSession
    <3>2. handle[s] # handle[t]
      BY <2>2, <3>1 DEF SoleHandle
    <3>3. request[s].acct \in Accounts /\ handle[s] \in Handles
      BY <2>2, LoggedInIs DEF DeliveryInv
    <3> QED BY <1>3, <2>2, <3>2, <3>3 DEF DeliveryInv, RegisteredByHandle
  <2> QED BY <1>1, <1>2, <2>1, <2>2 DEF RegisteredByHandle
<1>5. ASSUME NEW s \in Sessions PROVE Delivered(s)'
  BY <1>1, <1>2, DeliveredKept, LineSame DEF DeliveryInv
<1> QED BY <1>4, <1>5

LEMMA DeliveryStutters ==
    ASSUME DeliveryInv, UNCHANGED vars
    PROVE  RegisteredByHandle' /\ \A s \in Sessions : Delivered(s)'
<1>1. UNCHANGED <<conn, handle, request, loginAcctKeys, acctKey2TCPSessions, since, messages,
                  strand, posted, sendingMessageQueue, sent>>
  BY DEF vars, connVars, loginVars, registryVars, managerVars, sendVars
<1>2. \A s \in Sessions : /\ Line(s)' = Line(s) /\ LoggedIn(s)' = LoggedIn(s)
                          /\ SoleHandle(s)' = SoleHandle(s)
  BY <1>1 DEF Line, LoggedIn, SoleHandle
<1>3. RegisteredByHandle'
  BY <1>1, <1>2, RegisteredKept DEF DeliveryInv
<1>4. ASSUME NEW s \in Sessions PROVE Delivered(s)'
  BY <1>1, <1>2, DeliveredKept, LineSame DEF DeliveryInv
<1> QED BY <1>3, <1>4

LEMMA DeliveryKept == DeliveryInv /\ [Next]_vars => DeliveryInv'
<1> SUFFICES ASSUME DeliveryInv, [Next]_vars PROVE DeliveryInv'
  OBVIOUS
<1>1. LineInv'
  BY LineInvKept DEF DeliveryInv
<1>2. SUFFICES RegisteredByHandle' /\ \A s \in Sessions : Delivered(s)'
  BY <1>1 DEF DeliveryInv
<1>3. CASE \E s \in Sessions, h \in Handles : Accept(s, h)
  BY <1>3, DeliveryAccept
<1>4. CASE \E s \in Sessions : \E req \in LoginRequests[s] : ReadLogin(s, req)
  BY <1>4, DeliveryReadLogin
<1>5. CASE \E s \in Sessions : ReadError(s) \/ WriteError(s)
  BY <1>5, DeliveryDisconnect
<1>6. CASE \E n \in Notifications : Notify(n)
  BY <1>6, DeliveryNotify
<1>7. CASE Login
  BY <1>7, DeliveryLogin
<1>8. CASE SendMessage
  BY <1>8, DeliverySendMessage
<1>9. CASE StoreOffset
  BY <1>9, DeliveryStoreOffset
<1>10. CASE Resend
  BY <1>10, DeliveryResend
<1>11. CASE \E s \in Sessions : RunPosted(s) \/ WriteOk(s)
  BY <1>11, DeliveryNetThread
<1>12. CASE \E s \in Sessions : RemoveTCPSession(s)
  BY <1>12, DeliveryRemove
<1>13. CASE UNCHANGED vars
  BY <1>13, DeliveryStutters
<1> QED BY <1>3, <1>4, <1>5, <1>6, <1>7, <1>8, <1>9, <1>10, <1>11, <1>12, <1>13
        DEF Next, Clients, Strand, NetThread

\* A client that is logged in, on a handle nobody else ever had, misses no message.
THEOREM NothingIsMissed == Spec => []NothingMissed
<1>1. DeliveryInv => NothingMissed
  BY NothingMissedIs DEF DeliveryInv
<1> QED BY <1>1, DeliveryStarts, DeliveryKept, PTL DEF Spec
=============================================================================

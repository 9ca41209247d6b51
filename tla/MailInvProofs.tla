--------------------------- MODULE MailInvProofs ---------------------------
(***************************************************************************)
(* mailx for any number of senders, sessions, mailboxes and messages: the  *)
(* invariant that everything else rests on.                                *)
(*                                                                         *)
(* Inv ties the operation a process is in to the session that asked for it,*)
(* and every operation past its lock to the lock file it made, so that what*)
(* is in a draft or torn at the end of a mailbox is still about the mailbox*)
(* as it is.  TypeOK and CurrentIsVisible follow from it.                  *)
(***************************************************************************)
EXTENDS MailSession, WellFoundedInduction, TLAPS

(* What is in the request to append an entry to a mailbox.                 *)
LEMMA AppendFields ==
  \A b, e : /\ AppendMbox(b, e).op = "append" /\ AppendMbox(b, e).box = b
            /\ AppendMbox(b, e).entry = e
BY Zenon DEF AppendMbox

(* A set of natural numbers that is not empty has a least element.         *)
LEMMA LeastNumber ==
  ASSUME NEW T \in SUBSET Nat, T # {}
  PROVE  \E x \in T : \A y \in T : x <= y
<1>1. PICK x \in T : \A y \in T : <<y, x>> \notin OpToRel(<, Nat)
  BY NatLessThanWellFounded, WFMin, Zenon
<1>2. \A y \in T : ~(y < x)
  BY <1>1, Zenon DEF OpToRel
<1>3. QED
  BY <1>2

(* Induction over the natural numbers.                                     *)
LEMMA SetInduction ==
  ASSUME NEW S \in SUBSET Nat, 0 \in S, \A n \in S : n + 1 \in S
  PROVE  S = Nat
<1> SUFFICES ASSUME S # Nat PROVE FALSE
  OBVIOUS
<1>1. PICK x \in Nat \ S : \A y \in Nat \ S : x <= y
  BY LeastNumber, Zenon
<1>2. x - 1 \in Nat /\ x - 1 \notin Nat \ S
  BY <1>1
<1>3. QED
  BY <1>2

(* The least and the greatest of a set of positions.                       *)
LEMMA MinIn ==
  ASSUME NEW n \in Nat, NEW T \in SUBSET (1 .. n), T # {}
  PROVE  Min(T) \in T
<1>1. T \in SUBSET Nat
  OBVIOUS
<1>2. QED
  BY <1>1, LeastNumber, Zenon DEF Min

LEMMA MaxIn ==
  ASSUME NEW n \in Nat, NEW T \in SUBSET (1 .. n), T # {}
  PROVE  Max(T) \in T
<1> DEFINE below == {n - x : x \in T}
<1>1. below \in SUBSET Nat /\ below # {}
  <2>1. \A x \in T : n - x \in Nat
    OBVIOUS
  <2>2. QED
    BY <2>1, Zenon
<1>2. PICK z \in below : \A y \in below : z <= y
  BY <1>1, LeastNumber, Zenon
<1>3. PICK x \in T : z = n - x
  BY <1>2, Zenon
<1>4. \A y \in T : x >= y
  <2> TAKE y \in T
  <2>1. n - x <= n - y
    BY <1>2, <1>3, Zenon
  <2>2. QED
    BY <2>1
<1>5. QED
  BY <1>4, Zenon DEF Max

----------------------------------------------------------------------------
\* The loop of Kept, up to each position.
KeptUpTo(f, u, keep, n) ==
  f = [i \in 0 .. n |-> IF i = 0 THEN <<>>
                        ELSE IF keep[i] THEN Append(f[i - 1], u[i]) ELSE f[i - 1]]

(* The loop can be run over any entries.                                   *)
LEMMA KeptRuns ==
  ASSUME NEW u, NEW keep, NEW n \in Nat
  PROVE  \E f : KeptUpTo(f, u, keep, n)
<1> DEFINE G == {k \in Nat : \E f : KeptUpTo(f, u, keep, k)}
<1>1. 0 \in G
  <2> DEFINE g == [i \in 0 .. 0 |-> <<>>]
  <2>1. g = [i \in 0 .. 0 |-> IF i = 0 THEN <<>>
                        ELSE IF keep[i] THEN Append(g[i - 1], u[i]) ELSE g[i - 1]]
    OBVIOUS
  <2> HIDE DEF g
  <2>2. KeptUpTo(g, u, keep, 0)
    BY <2>1, Zenon DEF KeptUpTo
  <2>3. QED
    BY <2>2
<1>2. ASSUME NEW k \in G PROVE k + 1 \in G
  <2>1. PICK f : KeptUpTo(f, u, keep, k)
    BY <1>2
  <2> DEFINE on(i) == IF keep[i] THEN Append(f[i - 1], u[i]) ELSE f[i - 1]
             g == [i \in 0 .. k + 1 |-> IF i <= k THEN f[i] ELSE on(i)]
  <2>2. \A i \in 0 .. k + 1 :
          g[i] = IF i = 0 THEN <<>>
                 ELSE IF keep[i] THEN Append(g[i - 1], u[i]) ELSE g[i - 1]
    <3> TAKE i \in 0 .. k + 1
    <3>1. i # 0 => i - 1 \in 0 .. k + 1 /\ i - 1 <= k
      OBVIOUS
    <3>2. i # 0 => g[i - 1] = f[i - 1]
      BY <3>1
    <3>3. CASE i <= k
      <4>1. g[i] = f[i] /\ i \in 0 .. k
        BY <3>3
      <4>2. f[i] = IF i = 0 THEN <<>>
                   ELSE IF keep[i] THEN Append(f[i - 1], u[i]) ELSE f[i - 1]
        BY <2>1, <4>1, Zenon DEF KeptUpTo
      <4>3. QED
        BY <3>2, <4>1, <4>2, Zenon
    <3>4. CASE ~(i <= k)
      <4>1. g[i] = on(i) /\ i # 0
        BY <3>4
      <4>2. QED
        BY <3>2, <4>1, Zenon
    <3>5. QED
      BY <3>3, <3>4
  <2>3. KeptUpTo(g, u, keep, k + 1)
    <3>1. g = [i \in 0 .. k + 1 |-> g[i]]
      BY Zenon
    <3> HIDE DEF g
    <3>2. QED
      BY <2>2, <3>1, Zenon DEF KeptUpTo
  <2>4. QED
    BY <2>3
<1>3. G = Nat
  <2>1. G \in SUBSET Nat
    BY Zenon
  <2> HIDE DEF G
  <2>2. QED
    BY <1>1, <1>2, <2>1, SetInduction, Zenon
<1>4. QED
  BY <1>3

\* q holds the members of u that keep picks out: at[k] is where q[k] came from.
Picks(q, at, u, keep, n) ==
  /\ at \in [1 .. Len(q) -> 1 .. n]
  /\ \A k \in 1 .. Len(q) : keep[at[k]] /\ q[k] = u[at[k]]
  /\ \A k, m \in 1 .. Len(q) : at[k] = at[m] => k = m
  /\ \A i \in 1 .. n : keep[i] => \E k \in 1 .. Len(q) : at[k] = i

(* What Append does.                                                       *)
LEMMA AppendFacts ==
  ASSUME NEW S, NEW q \in Seq(S), NEW e \in S
  PROVE  /\ Append(q, e) \in Seq(S) /\ Len(Append(q, e)) = Len(q) + 1 /\ Len(q) \in Nat
         /\ Append(q, e)[Len(q) + 1] = e
         /\ \A k \in 1 .. Len(q) : Append(q, e)[k] = q[k]
OBVIOUS

(* One more round of the loop.                                             *)
LEMMA PicksNext ==
  ASSUME NEW n \in Nat, NEW q, Len(q) \in Nat, NEW at, NEW u, NEW keep,
         Picks(q, at, u, keep, n), keep[n + 1],
         NEW p, Len(p) = Len(q) + 1, p[Len(q) + 1] = u[n + 1],
         \A k \in 1 .. Len(q) : p[k] = q[k]
  PROVE  \E a : Picks(p, a, u, keep, n + 1)
<1>1. PICK l \in Nat : l = Len(q)
  OBVIOUS
<1>2. Len(p) = l + 1 /\ p[l + 1] = u[n + 1] /\ \A k \in 1 .. l : p[k] = q[k]
  BY <1>1, Zenon
<1>3. /\ at \in [1 .. l -> 1 .. n]
      /\ \A k \in 1 .. l : keep[at[k]] /\ q[k] = u[at[k]]
      /\ \A k, m \in 1 .. l : at[k] = at[m] => k = m
      /\ \A i \in 1 .. n : keep[i] => \E k \in 1 .. l : at[k] = i
  BY <1>1, Zenon DEF Picks
<1> DEFINE a == [k \in 1 .. l + 1 |-> IF k = l + 1 THEN n + 1 ELSE at[k]]
<1>4. \A k \in 1 .. l : k \in 1 .. l + 1 /\ k # l + 1
  OBVIOUS
<1>5. \A k \in 1 .. l + 1 : k \in 1 .. l \/ k = l + 1
  OBVIOUS
<1>6. \A k \in 1 .. l : a[k] = at[k]
  BY <1>4, Zenon
<1>7. l + 1 \in 1 .. l + 1
  OBVIOUS
<1>8. a[l + 1] = n + 1
  BY <1>7, Zenon
<1>9. \A k \in 1 .. l : at[k] \in 1 .. n
  BY <1>3, Zenon
<1>10. \A i \in 1 .. n : i # n + 1 /\ i \in 1 .. n + 1
  OBVIOUS
<1>11. \A i \in 1 .. n + 1 : i \in 1 .. n \/ i = n + 1
  OBVIOUS
<1>12. n + 1 \in 1 .. n + 1
  OBVIOUS
<1>13. a \in [1 .. l + 1 -> 1 .. n + 1]
  BY <1>5, <1>9, <1>10, <1>12, Zenon
<1> HIDE DEF a
<1>14. \A k \in 1 .. l + 1 : keep[a[k]] /\ p[k] = u[a[k]]
  <2> TAKE k \in 1 .. l + 1
  <2>1. CASE k \in 1 .. l
    BY <1>2, <1>3, <1>6, <2>1, Zenon
  <2>2. CASE k = l + 1
    BY <1>2, <1>8, <2>2, Zenon
  <2>3. QED
    BY <1>5, <2>1, <2>2, Zenon
<1>15. ASSUME NEW k \in 1 .. l + 1, NEW m \in 1 .. l + 1, a[k] = a[m] PROVE k = m
  <2>1. \A x \in 1 .. l : a[x] # n + 1
    BY <1>6, <1>9, <1>10, Zenon
  <2>2. CASE k \in 1 .. l /\ m \in 1 .. l
    <3>1. at[k] = at[m]
      BY <1>6, <1>15, <2>2, Zenon
    <3>2. QED
      BY <1>3, <2>2, <3>1, Zenon
  <2>3. CASE k = l + 1 \/ m = l + 1
    BY <1>5, <1>8, <1>15, <2>1, <2>3, Zenon
  <2>4. QED
    BY <1>5, <2>2, <2>3, Zenon
<1>16. ASSUME NEW i \in 1 .. n + 1, keep[i] PROVE \E k \in 1 .. l + 1 : a[k] = i
  <2>1. CASE i \in 1 .. n
    <3>1. PICK k \in 1 .. l : at[k] = i
      BY <1>3, <1>16, <2>1, Zenon
    <3>2. QED
      BY <1>4, <1>6, <3>1, Zenon
  <2>2. CASE i = n + 1
    BY <1>7, <1>8, <2>2, Zenon
  <2>3. QED
    BY <1>11, <2>1, <2>2, Zenon
<1>17. Picks(p, a, u, keep, n + 1)
  BY <1>2, <1>13, <1>14, <1>15, <1>16, Zenon DEF Picks
<1>18. QED
  BY <1>17, Zenon

(* A round that leaves an entry out.                                       *)
LEMMA PicksSkip ==
  ASSUME NEW n \in Nat, NEW q, NEW at, NEW u, NEW keep,
         Picks(q, at, u, keep, n), ~keep[n + 1]
  PROVE  Picks(q, at, u, keep, n + 1)
<1>1. at \in [1 .. Len(q) -> 1 .. n + 1]
  BY DEF Picks
<1>2. \A i \in 1 .. n + 1 : i \in 1 .. n \/ i = n + 1
  OBVIOUS
<1>3. QED
  BY <1>1, <1>2, Zenon DEF Picks

(* What CommitMboxChangesKeep and finish keep of the entries, and that     *)
(* they keep each once.                                                    *)
LEMMA KeptPicks ==
  ASSUME NEW S, NEW n \in Nat, NEW u \in [1 .. n -> S], NEW keep
  PROVE  Kept(u, keep) \in Seq(S) /\ \E at : Picks(Kept(u, keep), at, u, keep, n)
<1>1. u \in Seq(S) /\ Len(u) = n
  OBVIOUS
<1> DEFINE body(f) == [i \in 0 .. n |-> IF i = 0 THEN <<>>
                         ELSE IF keep[i] THEN Append(f[i - 1], u[i]) ELSE f[i - 1]]
           h == CHOOSE f : f = body(f)
<1>2. PICK f : KeptUpTo(f, u, keep, n)
  BY KeptRuns, Zenon
<1>3. h = body(h)
  BY <1>2, Zenon DEF KeptUpTo
<1>4. Kept(u, keep) = h[n]
  BY <1>1, Zenon DEF Kept
<1>5. \A i \in 0 .. n : h[i] = IF i = 0 THEN <<>>
                          ELSE IF keep[i] THEN Append(h[i - 1], u[i]) ELSE h[i - 1]
  BY <1>3, Zenon
<1> HIDE DEF h, body
<1> DEFINE P(k) == h[k] \in Seq(S) /\ \E at : Picks(h[k], at, u, keep, k)
           G == {k \in Nat : k <= n => P(k)}
<1>6. 0 \in G
  <2>1. h[0] = <<>>
    BY <1>5
  <2>2. Picks(<<>>, <<>>, u, keep, 0)
    BY DEF Picks
  <2>3. <<>> \in Seq(S)
    OBVIOUS
  <2>4. QED
    BY <2>1, <2>2, <2>3, Zenon
<1>7. ASSUME NEW k \in G PROVE k + 1 \in G
  <2> SUFFICES ASSUME k + 1 <= n PROVE P(k + 1)
    OBVIOUS
  <2>1. k \in Nat /\ k <= n /\ k + 1 \in 0 .. n /\ k + 1 # 0 /\ (k + 1) - 1 = k /\ k + 1 \in 1 .. n
    OBVIOUS
  <2>2. P(k)
    BY <2>1, Zenon
  <2>3. h[k + 1] = IF keep[k + 1] THEN Append(h[k], u[k + 1]) ELSE h[k]
    BY <1>5, <2>1, Zenon
  <2>4. PICK at : Picks(h[k], at, u, keep, k)
    BY <2>2, Zenon
  <2>5. u[k + 1] \in S
    BY <2>1, Zenon
  <2>6. CASE keep[k + 1]
    <3>1. h[k + 1] = Append(h[k], u[k + 1])
      BY <2>3, <2>6, Zenon
    <3>2. /\ h[k + 1] \in Seq(S) /\ Len(h[k + 1]) = Len(h[k]) + 1 /\ Len(h[k]) \in Nat
          /\ h[k + 1][Len(h[k]) + 1] = u[k + 1]
          /\ \A j \in 1 .. Len(h[k]) : h[k + 1][j] = h[k][j]
      BY <2>2, <2>5, <3>1, AppendFacts
    <3>3. \E a : Picks(h[k + 1], a, u, keep, k + 1)
      BY <2>1, <2>4, <2>6, <3>2, PicksNext, Zenon
    <3>4. QED
      BY <3>1, <3>2, <3>3, Zenon
  <2>7. CASE ~keep[k + 1]
    <3>1. h[k + 1] = h[k]
      BY <2>3, <2>7, Zenon
    <3>2. Picks(h[k], at, u, keep, k + 1)
      BY <2>1, <2>4, <2>7, PicksSkip, Zenon
    <3>3. QED
      BY <2>2, <3>1, <3>2, Zenon
  <2>8. QED
    BY <2>6, <2>7, Zenon
<1>8. G = Nat
  <2>1. G \in SUBSET Nat
    BY Zenon
  <2> HIDE DEF G
  <2>2. QED
    BY <1>6, <1>7, <2>1, SetInduction, Zenon
<1>9. n <= n /\ n \in Nat
  OBVIOUS
<1>10. P(n)
  <2>1. n \in G
    BY <1>8, <1>9, Zenon
  <2> HIDE DEF P
  <2>2. QED
    BY <1>9, <2>1, Zenon
<1>11. QED
  BY <1>4, <1>10, Zenon

----------------------------------------------------------------------------
\* A session over n messages.
SessionOf(n) ==
  [at : Boxes, original : [1 .. n -> Entry], entries : [1 .. n -> Entry],
   state : [1 .. n -> States], readFlag : [1 .. n -> BOOLEAN],
   shown : [1 .. n -> BOOLEAN], current : 0 .. n]

\* The current message is one the user can see, if there is one.
CurrentOK(x) == IF x.current = 0 THEN Visible(x) = {} ELSE x.current \in Visible(x)

\* What commands may make of a session: they mark nums saved and no other, take
\* back no reading, and leave the snapshot and its entries alone.
Tended(x, y, n, nums) ==
  /\ y \in SessionOf(n) /\ y.at = x.at /\ y.original = x.original /\ y.entries = x.entries
  /\ \A i \in 1 .. n :
       /\ y.state[i] = "saved" => x.state[i] = "saved" \/ i \in nums
       /\ x.readFlag[i] => y.readFlag[i]
       /\ y.state[i] \in {"new", "unread"} => y.state[i] = x.state[i]
  /\ CurrentOK(y)

(* A session whose current message is among its messages.                  *)
LEMMA VisibleIn ==
  ASSUME NEW n \in Nat, NEW x \in SessionOf(n)
  PROVE  Visible(x) \subseteq 1 .. n /\ Deleted(x) \subseteq 1 .. n
         /\ Visible(x) = {i \in 1 .. n : x.state[i] # "deleted"}
BY DEF Visible, Deleted, SessionOf

(* A list of messages ends at one of them.                                 *)
LEMMA LastIn ==
  ASSUME NEW n \in Nat, NEW nums \in SUBSET (1 .. n), nums # {}
  PROVE  Max(nums) \in nums /\ Max(nums) \in 1 .. n /\ Max(nums) \in 0 .. n /\ Max(nums) # 0
<1>1. Max(nums) \in nums
  BY MaxIn, Zenon
<1>2. \A i \in 1 .. n : i \in 0 .. n /\ i # 0
  OBVIOUS
<1>3. QED
  BY <1>1, <1>2, Zenon

(* Printing messages.                                                      *)
LEMMA ShowTended ==
  ASSUME NEW n \in Nat, NEW x \in SessionOf(n), NEW nums \in SUBSET Visible(x), nums # {}
  PROVE  Tended(x, Show(x, nums), n, {})
<1>1. /\ nums \in SUBSET (1 .. n) /\ Max(nums) \in nums /\ Max(nums) \in 1 .. n
      /\ Max(nums) \in 0 .. n
  BY VisibleIn, LastIn, Zenon
<1>2. PICK y : y = Show(x, nums)
  BY Zenon
<1>3. /\ y \in SessionOf(n) /\ y.at = x.at /\ y.original = x.original /\ y.entries = x.entries
      /\ y.current = Max(nums)
      /\ \A i \in 1 .. n : y.state[i] = IF i \in nums THEN ReadState(x.state[i]) ELSE x.state[i]
      /\ \A i \in 1 .. n : y.readFlag[i] = (i \in nums \/ x.readFlag[i])
  <2>1. \A t \in States : ReadState(t) \in States
    BY DEF ReadState, States
  <2> DEFINE st == [i \in 1 .. n |-> IF i \in nums THEN ReadState(x.state[i]) ELSE x.state[i]]
             rf == [i \in 1 .. n |-> i \in nums \/ x.readFlag[i]]
             sh == [i \in 1 .. n |-> i \in nums \/ x.shown[i]]
  <2>2. /\ DOMAIN x.state = 1 .. n /\ DOMAIN x.readFlag = 1 .. n /\ DOMAIN x.shown = 1 .. n
        /\ x.state \in [1 .. n -> States] /\ x.readFlag \in [1 .. n -> BOOLEAN]
        /\ x.shown \in [1 .. n -> BOOLEAN]
    BY DEF SessionOf
  <2>3. y = [x EXCEPT !.readFlag = rf, !.state = st, !.shown = sh, !.current = Max(nums)]
    BY <1>2, <2>2, Zenon DEF Show
  <2>4. st \in [1 .. n -> States]
    BY <2>1, <2>2
  <2>5. rf \in [1 .. n -> BOOLEAN] /\ sh \in [1 .. n -> BOOLEAN] /\ Max(nums) \in 0 .. n
    BY <1>1, Zenon
  <2>6. /\ y \in SessionOf(n) /\ y.at = x.at /\ y.original = x.original
        /\ y.entries = x.entries /\ y.state = st /\ y.readFlag = rf /\ y.current = Max(nums)
    <3> HIDE DEF st, rf, sh
    <3>1. QED
      BY <2>3, <2>4, <2>5, Zenon DEF SessionOf
  <2>7. QED
    BY <2>6
<1>4. CurrentOK(y)
  <2>1. y.current # 0 /\ x.state[y.current] # "deleted" /\ y.current \in 1 .. n
    BY <1>1, <1>3, VisibleIn
  <2>2. y.state[y.current] # "deleted"
    BY <1>3, <2>1, Zenon DEF ReadState
  <2>3. QED
    BY <1>3, <2>1, <2>2, VisibleIn, SMTT(30) DEF CurrentOK
<1>5. QED
  BY <1>2, <1>3, <1>4, Zenon DEF Tended, ReadState

(* Looking at messages through pipe does not count as showing them.        *)
LEMMA PipeTended ==
  ASSUME NEW n \in Nat, NEW x \in SessionOf(n), NEW nums \in SUBSET Visible(x), nums # {}
  PROVE  Tended(x, [Show(x, nums) EXCEPT !.shown = x.shown], n, {})
<1>1. PICK y : y = Show(x, nums)
  BY Zenon
<1>2. Tended(x, y, n, {})
  BY <1>1, ShowTended, Zenon
<1>3. PICK z : z = [y EXCEPT !.shown = x.shown]
  BY Zenon
<1>4. x.shown \in [1 .. n -> BOOLEAN] /\ y \in SessionOf(n)
  BY <1>2, Zenon DEF SessionOf, Tended
<1>5. /\ z \in SessionOf(n) /\ z.at = y.at /\ z.original = y.original /\ z.entries = y.entries
      /\ z.state = y.state /\ z.readFlag = y.readFlag /\ z.current = y.current
  BY <1>3, <1>4, Zenon DEF SessionOf
<1>6. Visible(z) = Visible(y)
  BY <1>5, Zenon DEF Visible
<1>7. Tended(x, z, n, {})
  BY <1>2, <1>5, <1>6, Zenon DEF Tended, CurrentOK
<1>8. QED
  BY <1>1, <1>3, <1>7, Zenon

(* size, from, headers, edit and reply.                                    *)
LEMMA LookTended ==
  ASSUME NEW n \in Nat, NEW x \in SessionOf(n), NEW c \in Visible(x)
  PROVE  Tended(x, [x EXCEPT !.current = c], n, {})
<1>1. PICK y : y = [x EXCEPT !.current = c]
  BY Zenon
<1>2. c \in 1 .. n /\ c # 0 /\ c \in 0 .. n
  BY VisibleIn
<1>3. /\ y \in SessionOf(n) /\ y.at = x.at /\ y.original = x.original /\ y.entries = x.entries
      /\ y.state = x.state /\ y.readFlag = x.readFlag /\ y.current = c
  BY <1>1, <1>2, Zenon DEF SessionOf
<1>4. Visible(y) = Visible(x)
  BY <1>3, Zenon DEF Visible
<1>5. Tended(x, y, n, {})
  BY <1>2, <1>3, <1>4, Zenon DEF Tended, CurrentOK
<1>6. QED
  BY <1>1, <1>5, Zenon

(* Two commands, the second of which saves nothing.                        *)
LEMMA TendedTwice ==
  ASSUME NEW n, NEW x, NEW y, NEW z, NEW nums, Tended(x, y, n, nums), Tended(y, z, n, {})
  PROVE  Tended(x, z, n, nums)
<1>1. /\ z \in SessionOf(n) /\ z.at = x.at /\ z.original = x.original /\ z.entries = x.entries
      /\ CurrentOK(z)
  BY Zenon DEF Tended
<1>2. ASSUME NEW i \in 1 .. n
      PROVE  /\ z.state[i] = "saved" => x.state[i] = "saved" \/ i \in nums
             /\ x.readFlag[i] => z.readFlag[i]
             /\ z.state[i] \in {"new", "unread"} => z.state[i] = x.state[i]
  <2>1. /\ y.state[i] = "saved" => x.state[i] = "saved" \/ i \in nums
        /\ x.readFlag[i] => y.readFlag[i]
        /\ y.state[i] \in {"new", "unread"} => y.state[i] = x.state[i]
    BY <1>2, Zenon DEF Tended
  <2>2. /\ z.state[i] = "saved" => y.state[i] = "saved"
        /\ y.readFlag[i] => z.readFlag[i]
        /\ z.state[i] \in {"new", "unread"} => z.state[i] = y.state[i]
    BY <1>2, Zenon DEF Tended
  <2>3. QED
    BY <2>1, <2>2, Zenon
<1>3. QED
  BY <1>1, <1>2, Zenon DEF Tended

(* Automatic printing of the current message.                              *)
LEMMA AutoPrintTended ==
  ASSUME NEW n \in Nat, NEW x, NEW y, NEW nums, Tended(x, y, n, nums), NEW r
  PROVE  Tended(x, AutoPrint(r, y), n, nums)
<1>1. y \in SessionOf(n)
  BY Zenon DEF Tended
<1>2. CASE opt[r].autoprint /\ y.current \in Visible(y)
  <2>1. {y.current} \in SUBSET Visible(y) /\ {y.current} # {}
    BY <1>2, Zenon
  <2>2. Tended(y, Show(y, {y.current}), n, {})
    BY <1>1, <2>1, ShowTended, Zenon
  <2>3. AutoPrint(r, y) = Show(y, {y.current})
    BY <1>2, Zenon DEF AutoPrint
  <2>4. QED
    BY <2>2, <2>3, TendedTwice, Zenon
<1>3. CASE ~(opt[r].autoprint /\ y.current \in Visible(y))
  BY <1>3, Zenon DEF AutoPrint
<1>4. QED
  BY <1>2, <1>3, Zenon

(* With the last message of the list deleted, the nearest that is left     *)
(* becomes current.                                                        *)
LEMMA ChosenAfter ==
  ASSUME NEW n \in Nat, NEW y \in SessionOf(n), NEW last \in 1 .. n, last \notin Visible(y)
  PROVE  /\ ChooseAfter(y, last) \in 0 .. n
         /\ IF ChooseAfter(y, last) = 0 THEN Visible(y) = {}
            ELSE ChooseAfter(y, last) \in Visible(y)
<1>1. Visible(y) \subseteq 1 .. n
  BY VisibleIn, Zenon
<1>2. After(y, last) \in SUBSET (1 .. n) /\ Before(y, last) \in SUBSET (1 .. n)
      /\ After(y, last) \subseteq Visible(y) /\ Before(y, last) \subseteq Visible(y)
  BY <1>1, Zenon DEF After, Before
<1>3. CASE After(y, last) # {}
  <2>1. ChooseAfter(y, last) \in After(y, last)
    BY <1>2, <1>3, MinIn, Zenon DEF ChooseAfter
  <2>2. QED
    BY <1>1, <1>2, <2>1
<1>4. CASE After(y, last) = {} /\ Before(y, last) # {}
  <2>1. ChooseAfter(y, last) \in Before(y, last)
    BY <1>2, <1>4, MaxIn, Zenon DEF ChooseAfter
  <2>2. QED
    BY <1>1, <1>2, <2>1
<1>5. CASE After(y, last) = {} /\ Before(y, last) = {}
  <2>1. ChooseAfter(y, last) = 0
    BY <1>5, Zenon DEF ChooseAfter
  <2>2. \A j \in Visible(y) : FALSE
    <3> TAKE j \in Visible(y)
    <3>1. j # last /\ j \in 1 .. n
      BY <1>1, Zenon
    <3>2. j > last \/ j < last
      BY <3>1
    <3>3. QED
      BY <1>5, <3>2, Zenon DEF After, Before
  <2>3. QED
    BY <2>1, <2>2
<1>6. QED
  BY <1>3, <1>4, <1>5, Zenon

(* delete, hold, mbox and touch.                                           *)
LEMMA MarkedTended ==
  ASSUME NEW n \in Nat, NEW x \in SessionOf(n), NEW nums \in SUBSET Visible(x), nums # {},
         NEW st \in {"deleted", "preserved", "mboxed", "read"}
  PROVE  Tended(x, Marked(x, nums, st), n, {})
<1>1. /\ nums \in SUBSET (1 .. n) /\ Max(nums) \in nums /\ Max(nums) \in 1 .. n
      /\ Max(nums) \in 0 .. n /\ Max(nums) # 0
  BY VisibleIn, LastIn, Zenon
<1>2. /\ DOMAIN x.state = 1 .. n /\ DOMAIN x.readFlag = 1 .. n /\ DOMAIN x.shown = 1 .. n
      /\ x.state \in [1 .. n -> States] /\ x.readFlag \in [1 .. n -> BOOLEAN]
      /\ x.shown \in [1 .. n -> BOOLEAN]
  BY Zenon DEF SessionOf
<1> DEFINE sts == [i \in 1 .. n |-> IF i \in nums THEN MarkedState(x.state[i], st) ELSE x.state[i]]
           rf == [i \in 1 .. n |-> (i \in nums /\ st \in {"mboxed", "read"}) \/ x.readFlag[i]]
           sh == [i \in 1 .. n |-> (i \in nums /\ st # "deleted") \/ x.shown[i]]
<1>3. PICK y : y = [x EXCEPT !.state = sts, !.readFlag = rf, !.shown = sh]
  BY Zenon
<1>4. \A t \in States :
        /\ MarkedState(t, st) \in States
        /\ MarkedState(t, st) = "saved" => t = "saved"
        /\ MarkedState(t, st) \in {"new", "unread"} => MarkedState(t, st) = t
        /\ t # "deleted" /\ st # "deleted" => MarkedState(t, st) # "deleted"
        /\ st = "deleted" => MarkedState(t, st) = "deleted"
  BY Zenon DEF MarkedState, ReadState, States
<1>5. sts \in [1 .. n -> States]
  BY <1>2, <1>4, Zenon
<1>6. rf \in [1 .. n -> BOOLEAN] /\ sh \in [1 .. n -> BOOLEAN]
  BY Zenon
<1>7. /\ y \in SessionOf(n) /\ y.at = x.at /\ y.original = x.original /\ y.entries = x.entries
      /\ y.state = sts /\ y.readFlag = rf
  <2> HIDE DEF sts, rf, sh
  <2>1. QED
    BY <1>3, <1>5, <1>6, Zenon DEF SessionOf
<1>8. PICK cur : cur = IF st = "deleted" THEN ChooseAfter(y, Max(nums)) ELSE Max(nums)
  BY Zenon
<1>9. PICK z : z = [y EXCEPT !.current = cur]
  BY Zenon
<1>10. z = Marked(x, nums, st)
  BY <1>2, <1>3, <1>8, <1>9, Zenon DEF Marked
<1>11. /\ cur \in 0 .. n
       /\ IF cur = 0 THEN Visible(y) = {} ELSE cur \in Visible(y)
  <2>1. y.state[Max(nums)] = MarkedState(x.state[Max(nums)], st)
    BY <1>1, <1>7, Zenon
  <2>2. x.state[Max(nums)] \in States /\ x.state[Max(nums)] # "deleted"
    BY <1>1, <1>2, VisibleIn, Zenon
  <2>3. CASE st = "deleted"
    <3>1. y.state[Max(nums)] = "deleted"
      BY <1>4, <2>1, <2>2, <2>3, Zenon
    <3>2. Max(nums) \notin Visible(y)
      BY <3>1, Zenon DEF Visible
    <3>3. cur = ChooseAfter(y, Max(nums))
      BY <1>8, <2>3, Zenon
    <3>4. QED
      BY <1>1, <1>7, <3>2, <3>3, ChosenAfter, Zenon
  <2>4. CASE st # "deleted"
    <3>1. y.state[Max(nums)] # "deleted"
      BY <1>4, <2>1, <2>2, <2>4, Zenon
    <3>2. Max(nums) \in Visible(y)
      BY <1>1, <1>7, <3>1, VisibleIn
    <3>3. QED
      BY <1>1, <1>8, <2>4, <3>2, Zenon
  <2>5. QED
    BY <2>3, <2>4, Zenon
<1>12. /\ z \in SessionOf(n) /\ z.at = x.at /\ z.original = x.original /\ z.entries = x.entries
       /\ z.state = y.state /\ z.readFlag = y.readFlag /\ z.current = cur
  BY <1>7, <1>9, <1>11, Zenon DEF SessionOf
<1>13. Visible(z) = Visible(y)
  BY <1>12, Zenon DEF Visible
<1>14. CurrentOK(z)
  BY <1>11, <1>12, <1>13, Zenon DEF CurrentOK
<1>15. ASSUME NEW i \in 1 .. n
       PROVE  /\ z.state[i] = "saved" => x.state[i] = "saved"
              /\ x.readFlag[i] => z.readFlag[i]
              /\ z.state[i] \in {"new", "unread"} => z.state[i] = x.state[i]
  <2>1. z.state[i] = sts[i] /\ x.state[i] \in States
    BY <1>2, <1>7, <1>12, Zenon
  <2>2. z.state[i] = MarkedState(x.state[i], st) \/ z.state[i] = x.state[i]
    BY <2>1, Zenon
  <2>3. x.readFlag[i] => z.readFlag[i]
    BY <1>7, <1>12, Zenon
  <2>4. QED
    BY <1>4, <2>1, <2>2, <2>3, Zenon
<1>16. QED
  BY <1>10, <1>12, <1>14, <1>15, Zenon DEF Tended

(* undelete.                                                               *)
LEMMA UndeletedTended ==
  ASSUME NEW n \in Nat, NEW x \in SessionOf(n), NEW nums \in SUBSET (1 .. n), nums # {}
  PROVE  Tended(x, [x EXCEPT !.state = [i \in DOMAIN @ |-> IF i \in nums THEN "read" ELSE @[i]],
                             !.readFlag = [i \in DOMAIN @ |-> i \in nums \/ @[i]],
                             !.current = Max(nums)], n, {})
<1>1. /\ Max(nums) \in nums /\ Max(nums) \in 1 .. n /\ Max(nums) \in 0 .. n /\ Max(nums) # 0
  BY LastIn, Zenon
<1>2. /\ DOMAIN x.state = 1 .. n /\ DOMAIN x.readFlag = 1 .. n
      /\ x.state \in [1 .. n -> States] /\ x.readFlag \in [1 .. n -> BOOLEAN]
  BY Zenon DEF SessionOf
<1> DEFINE sts == [i \in 1 .. n |-> IF i \in nums THEN "read" ELSE x.state[i]]
           rf == [i \in 1 .. n |-> i \in nums \/ x.readFlag[i]]
<1>3. PICK y : y = [x EXCEPT !.state = sts, !.readFlag = rf, !.current = Max(nums)]
  BY Zenon
<1>4. sts \in [1 .. n -> States] /\ rf \in [1 .. n -> BOOLEAN]
  <2>1. "read" \in States
    BY Zenon DEF States
  <2>2. QED
    BY <1>2, <2>1, Zenon
<1>5. /\ y \in SessionOf(n) /\ y.at = x.at /\ y.original = x.original /\ y.entries = x.entries
      /\ y.state = sts /\ y.readFlag = rf /\ y.current = Max(nums)
  <2> HIDE DEF sts, rf
  <2>1. QED
    BY <1>1, <1>3, <1>4, Zenon DEF SessionOf
<1>6. CurrentOK(y)
  <2>1. y.state[Max(nums)] = "read" /\ "read" # "deleted"
    BY <1>1, <1>5, Zenon
  <2>2. QED
    BY <1>1, <1>2, <1>5, <2>1, Zenon DEF CurrentOK, Visible
<1>7. ASSUME NEW i \in 1 .. n
      PROVE  /\ y.state[i] = "saved" => x.state[i] = "saved"
             /\ x.readFlag[i] => y.readFlag[i]
             /\ y.state[i] \in {"new", "unread"} => y.state[i] = x.state[i]
  <2>1. y.state[i] = "read" \/ y.state[i] = x.state[i]
    BY <1>5, Zenon
  <2>2. x.readFlag[i] => y.readFlag[i]
    BY <1>5, Zenon
  <2>3. QED
    BY <2>1, <2>2, Zenon
<1>8. Tended(x, y, n, {})
  BY <1>5, <1>6, <1>7, Zenon DEF Tended
<1>9. QED
  BY <1>2, <1>3, <1>8, Zenon

(* What save and write make of the states.                                 *)
LEMMA SavedTended ==
  ASSUME NEW n \in Nat, NEW x \in SessionOf(n), NEW nums \in SUBSET Visible(x), nums # {}
  PROVE  Tended(x, Saved(x, nums), n, nums)
<1>1. /\ nums \in SUBSET (1 .. n) /\ Max(nums) \in nums /\ Max(nums) \in 1 .. n
      /\ Max(nums) \in 0 .. n /\ Max(nums) # 0
  BY VisibleIn, LastIn, Zenon
<1>2. DOMAIN x.state = 1 .. n /\ x.state \in [1 .. n -> States]
  BY Zenon DEF SessionOf
<1> DEFINE sts == [i \in 1 .. n |->
                     IF i \in nums /\ x.state[i] # "preserved" THEN "saved" ELSE x.state[i]]
<1>3. PICK y : y = [x EXCEPT !.state = sts, !.current = Max(nums)]
  BY Zenon
<1>4. sts \in [1 .. n -> States]
  <2>1. "saved" \in States
    BY Zenon DEF States
  <2>2. QED
    BY <1>2, <2>1, Zenon
<1>5. /\ y \in SessionOf(n) /\ y.at = x.at /\ y.original = x.original /\ y.entries = x.entries
      /\ y.state = sts /\ y.readFlag = x.readFlag /\ y.current = Max(nums)
  <2> HIDE DEF sts
  <2>1. QED
    BY <1>1, <1>3, <1>4, Zenon DEF SessionOf
<1>6. \A i \in 1 .. n : \/ y.state[i] = "saved" /\ i \in nums
                        \/ y.state[i] = x.state[i]
  BY <1>5, Zenon
<1>7. CurrentOK(y)
  <2>1. y.state[Max(nums)] # "deleted"
    BY <1>1, <1>6, VisibleIn, Zenon
  <2>2. QED
    BY <1>1, <1>2, <1>5, <2>1, Zenon DEF CurrentOK, Visible
<1>8. ASSUME NEW i \in 1 .. n
      PROVE  /\ y.state[i] = "saved" => x.state[i] = "saved" \/ i \in nums
             /\ y.state[i] \in {"new", "unread"} => y.state[i] = x.state[i]
  BY <1>6, Zenon
<1>9. Tended(x, y, n, nums)
  BY <1>5, <1>7, <1>8, Zenon DEF Tended
<1>10. QED
  BY <1>2, <1>3, <1>9, Zenon DEF Saved

----------------------------------------------------------------------------
\* The entries of a session are the messages it read, whatever their status.
SameMessages(x) ==
  \A i \in DOMAIN x.original :
     x.entries[i].id = x.original[i].id /\ x.entries[i].whole = x.original[i].whole

\* What was read when a session opened the system mailbox stays read in it.
ReadKept(x) ==
  x.at = Spool => \A i \in DOMAIN x.original : x.original[i].status = "RO" =>
     x.readFlag[i] /\ x.state[i] \notin {"new", "unread"} /\ x.entries[i].status = "RO"

Open(r) == pc[r] \notin {"start", "done"}

SessionGood(x) ==
  /\ x.original \in Seq(Entry) /\ x \in SessionOf(Len(x.original))
  /\ SameMessages(x) /\ ReadKept(x)

SessionInv(r) == SessionGood(s[r]) /\ (Open(r) => CurrentOK(s[r]))

PendingInv(r) ==
  /\ pc[r] = "save" =>
       /\ pending[r] \in [kind : {"save", "copy"}, nums : SUBSET Visible(s[r]),
                          left : SUBSET Visible(s[r]), to : SaveTo]
       /\ pending[r].nums # {} /\ pending[r].left \subseteq pending[r].nums
  /\ pc[r] \in {"merge", "commit"} =>
       pending[r].kind \in {"quit", "file"} /\ pending[r].to \in Boxes

Holding == {"locked", "torn", "loaded", "written"}
Busy == Holding \cup {"called"}

\* The operation a process is in is the one its caller asked for, with arguments
\* that are still what the caller has.
Asked(c) ==
  \/ /\ c \in Senders /\ pc[c] = "send"
     /\ \E b \in Boxes : call[c] = AppendMbox(b, Fresh(Mail[c]))
  \/ /\ c \in Readers /\ pc[c] = "save"
     /\ \E i \in pending[c].nums \ pending[c].left :
           call[c] = AppendMbox(pending[c].to, s[c].entries[i])
  \/ /\ c \in Readers /\ pc[c] = "merge"
     /\ call[c] = MergeMbox(Mbox, MovedEntries(s[c], opt[c]), opt[c].append)
  \/ /\ c \in Readers /\ pc[c] = "commit"
     /\ call[c] = CommitCall(s[c], opt[c])

CallInv(c) ==
  /\ step[c] \in Busy => Asked(c)
  /\ c \in Senders => pc[c] \in {"send", "done"}
  /\ c \in Readers => pc[c] # "send"
  /\ step[c] = "dead" => pc[c] = "done"

\* What an operation has read and written is what its mailbox holds: the lock
\* keeps every other process away from it.
StepInv(c) ==
  /\ step[c] \in Holding => lock[call[c].box] = c
  /\ step[c] = "torn" =>
       /\ call[c].op = "append" /\ box[call[c].box] # <<>>
       /\ ~box[call[c].box][Len(box[call[c].box])].whole
       /\ box[call[c].box][Len(box[call[c].box])].id = call[c].entry.id
       /\ box[call[c].box][Len(box[call[c].box])].status = call[c].entry.status
  /\ step[c] = "loaded" =>
       \/ /\ call[c].op = "merge"
          /\ draft[c] = Merged(box[call[c].box], call[c].entries, call[c].atEnd)
       \/ /\ call[c].op = "commit"
          /\ Unchanged(call[c].snapshot, box[call[c].box])
          /\ draft[c] = Kept(call[c].updated, call[c].keep)
                          \o Arrived(call[c].snapshot, box[call[c].box])

Steps == {"out", "called", "locked", "torn", "loaded", "written", "dead"}
Places == {"start", "send", "prompt", "save", "merge", "commit", "done"}

StoreTyped ==
  /\ box \in [Boxes -> Seq(Entry)] /\ lock \in [Boxes -> Clients \cup {Free}]
  /\ step \in [Clients -> Steps] /\ DOMAIN call = Clients
  /\ draft \in [Clients -> Seq(Entry)] /\ answer \in [Clients -> {"none", "ok", "error"}]

SessionTyped ==
  /\ todo \in [Senders -> Seq(Boxes)] /\ pc \in [Clients -> Places]
  /\ opt \in [Readers -> Settings] /\ DOMAIN s = Readers /\ DOMAIN pending = Readers
  /\ plain \subseteq Ids /\ accepted \subseteq Ids /\ doubled \subseteq Ids

Inv ==
  /\ StoreTyped /\ SessionTyped
  /\ \A c \in Clients : CallInv(c) /\ StepInv(c)
  /\ \A r \in Readers : SessionInv(r) /\ PendingInv(r)

----------------------------------------------------------------------------
\* f and g differ at c only.
OnlyAt(f, g, c) == DOMAIN g = DOMAIN f /\ \A d \in DOMAIN f \ {c} : g[d] = f[d]

\* A step of c: no other process moves, and no mailbox or lock of theirs does.
Turn(c) ==
  /\ OnlyAt(step, step', c) /\ OnlyAt(call, call', c) /\ OnlyAt(draft, draft', c)
  /\ OnlyAt(answer, answer', c)
  /\ OnlyAt(pc, pc', c) /\ OnlyAt(s, s', c) /\ OnlyAt(pending, pending', c) /\ opt' = opt
  /\ \A b \in Boxes : lock[b] # c => box'[b] = box[b]
  /\ \A b \in Boxes : lock[b] \in Clients \ {c} => lock'[b] = lock[b]

(* An operation names a mailbox.                                           *)
LEMMA AskedTyped ==
  ASSUME Inv, NEW c \in Clients, step[c] \in Busy
  PROVE  call[c].box \in Boxes
<1>1. Asked(c)
  BY Zenon DEF Inv, CallInv
<1>2. CASE c \in Senders /\ \E b \in Boxes : call[c] = AppendMbox(b, Fresh(Mail[c]))
  BY <1>2 DEF AppendMbox
<1>3. CASE /\ c \in Readers /\ pc[c] = "save"
           /\ \E i \in pending[c].nums \ pending[c].left :
                call[c] = AppendMbox(pending[c].to, s[c].entries[i])
  <2>1. pending[c].to \in SaveTo
    BY <1>3, Zenon DEF Inv, PendingInv
  <2>2. call[c].box = pending[c].to
    BY <1>3 DEF AppendMbox
  <2>3. QED
    BY <2>1, <2>2, MailAssumption, Zenon
<1>4. CASE c \in Readers /\ call[c] = MergeMbox(Mbox, MovedEntries(s[c], opt[c]), opt[c].append)
  BY <1>4, MailAssumption DEF MergeMbox
<1>5. CASE c \in Readers /\ call[c] = CommitCall(s[c], opt[c])
  <2>1. s[c].at \in Boxes
    BY <1>5, Zenon DEF Inv, SessionInv, SessionGood, SessionOf
  <2>2. call[c].box = s[c].at
    BY <1>5 DEF CommitCall, CommitMbox
  <2>3. QED
    BY <2>1, <2>2, Zenon
<1>6. QED
  BY <1>1, <1>2, <1>3, <1>4, <1>5, Zenon DEF Asked

(* The other processes have what they had.                                 *)
LEMMA OthersKept ==
  ASSUME Inv, NEW c \in Clients, Turn(c), NEW d \in Clients, d # c
  PROVE  /\ CallInv(d)' /\ StepInv(d)'
         /\ d \in Readers => SessionInv(d)' /\ PendingInv(d)'
<1>1. step'[d] = step[d] /\ call'[d] = call[d] /\ draft'[d] = draft[d] /\ pc'[d] = pc[d]
  BY Zenon DEF Turn, OnlyAt, Inv, StoreTyped, SessionTyped
<1>2. d \in Readers => s'[d] = s[d] /\ pending'[d] = pending[d] /\ opt'[d] = opt[d]
  BY Zenon DEF Turn, OnlyAt, Inv, SessionTyped
<1>3. CallInv(d) /\ StepInv(d) /\ (d \in Readers => SessionInv(d) /\ PendingInv(d))
  BY Zenon DEF Inv
<1>4. CallInv(d)'
  <2>1. Asked(d) => Asked(d)'
    BY <1>1, <1>2, Zenon DEF Asked
  <2>2. QED
    BY <1>1, <1>3, <2>1, Zenon DEF CallInv
<1>5. step[d] \in Holding =>
        lock'[call[d].box] = lock[call[d].box] /\ box'[call[d].box] = box[call[d].box]
  <2>1. SUFFICES ASSUME step[d] \in Holding
                 PROVE  lock'[call[d].box] = lock[call[d].box] /\ box'[call[d].box] = box[call[d].box]
    BY Zenon
  <2>2. call[d].box \in Boxes
    BY <2>1, AskedTyped, Zenon DEF Busy
  <2>3. lock[call[d].box] = d
    BY <1>3, <2>1, Zenon DEF StepInv
  <2>4. QED
    BY <2>2, <2>3, Zenon DEF Turn
<1>6. StepInv(d)'
  <2>1. "torn" \in Holding /\ "loaded" \in Holding
    BY Zenon DEF Holding
  <2>2. QED
    BY <1>1, <1>3, <1>5, <2>1, Zenon DEF StepInv
<1>7. d \in Readers => SessionInv(d)' /\ PendingInv(d)'
  BY <1>1, <1>2, <1>3, Zenon DEF SessionInv, PendingInv, Open
<1>8. QED
  BY <1>4, <1>6, <1>7, Zenon

(* So a step keeps the invariant if it keeps it for the process that moves. *)
LEMMA TurnKeeps ==
  ASSUME Inv, NEW c \in Clients, Turn(c), StoreTyped', SessionTyped',
         CallInv(c)', StepInv(c)', c \in Readers => SessionInv(c)' /\ PendingInv(c)'
  PROVE  Inv'
<1>1. \A d \in Clients : CallInv(d)' /\ StepInv(d)'
  BY OthersKept, Zenon
<1>2. \A d \in Readers : SessionInv(d)' /\ PendingInv(d)'
  <2>1. Readers \subseteq Clients
    BY MailAssumption, Zenon
  <2>2. QED
    BY <2>1, OthersKept, Zenon
<1>3. QED
  BY <1>1, <1>2, Zenon DEF Inv

----------------------------------------------------------------------------
(* A command keeps a session good.                                         *)
LEMMA TendedGood ==
  ASSUME NEW x, SessionGood(x), NEW y, NEW nums, Tended(x, y, Len(x.original), nums)
  PROVE  SessionGood(y) /\ CurrentOK(y)
<1>1. /\ y \in SessionOf(Len(x.original)) /\ y.at = x.at /\ y.original = x.original
      /\ y.entries = x.entries /\ CurrentOK(y)
  BY Zenon DEF Tended
<1>2. x.original \in Seq(Entry) /\ SameMessages(x) /\ ReadKept(x)
  BY Zenon DEF SessionGood
<1>3. DOMAIN x.original = 1 .. Len(x.original)
  BY <1>2
<1>4. ReadKept(y)
  <2> SUFFICES ASSUME y.at = Spool, NEW i \in DOMAIN y.original, y.original[i].status = "RO"
               PROVE  y.readFlag[i] /\ y.state[i] \notin {"new", "unread"}
                      /\ y.entries[i].status = "RO"
    BY Zenon DEF ReadKept
  <2>1. x.readFlag[i] /\ x.state[i] \notin {"new", "unread"} /\ x.entries[i].status = "RO"
    BY <1>1, <1>2, Zenon DEF ReadKept
  <2>2. i \in 1 .. Len(x.original)
    BY <1>1, <1>3, Zenon
  <2>3. QED
    BY <1>1, <2>1, <2>2, Zenon DEF Tended
<1>5. QED
  BY <1>1, <1>2, <1>4, Zenon DEF SessionGood, SameMessages

(* A session that is over, or has not begun.                               *)
LEMMA NoSessionGood ==
  SessionGood(NoSession)
<1>1. NoSession.original = <<>> /\ <<>> \in Seq(Entry) /\ Len(NoSession.original) = 0
      /\ DOMAIN NoSession.original = {}
  BY DEF NoSession
<1>2. NoSession \in SessionOf(0)
  <2>1. \A S : <<>> \in [1 .. 0 -> S]
    OBVIOUS
  <2>2. 0 \in 0 .. 0 /\ Spool \in Boxes
    BY MailAssumption
  <2>3. QED
    BY <2>1, <2>2, Zenon DEF NoSession, SessionOf
<1>3. QED
  BY <1>1, <1>2, Zenon DEF SessionGood, SameMessages, ReadKept

(* loadSession: a mailbox that has just been opened.                       *)
LEMMA OpenedGood ==
  ASSUME NEW b \in Boxes, box[b] \in Seq(Entry)
  PROVE  SessionGood(Opened(b)) /\ CurrentOK(Opened(b))
<1>1. PICK es \in Seq(Entry) : es = box[b]
  BY Zenon
<1>2. PICK n \in Nat : n = Len(es)
  OBVIOUS
<1>3. DOMAIN es = 1 .. n /\ es \in [1 .. n -> Entry]
  BY <1>2
<1> DEFINE system == b = Spool
           sts == [i \in 1 .. n |-> InitialState(system, es[i].status)]
           rf == [i \in 1 .. n |-> system /\ sts[i] = "read"]
           sh == [i \in 1 .. n |-> FALSE]
<1>4. \A i \in 1 .. n : sts[i] \in {"new", "unread", "read"}
  BY Zenon DEF InitialState
<1>5. \A i \in 1 .. n : es[i].status = "RO" => sts[i] = "read"
  BY Zenon DEF InitialState
<1>6. rf \in [1 .. n -> BOOLEAN] /\ sh \in [1 .. n -> BOOLEAN] /\ DOMAIN sts = 1 .. n
  BY Zenon
<1>7. \A i \in 1 .. n : system /\ sts[i] = "read" => rf[i]
  BY Zenon
<1>8. Opened(b) = [at |-> b, original |-> es, entries |-> es, state |-> sts, readFlag |-> rf,
                   shown |-> sh, current |-> FirstCurrent(sts)]
  BY <1>1, <1>3, Zenon DEF Opened, ReadMbox
<1>9. sts \in [1 .. n -> States]
  <2>1. {"new", "unread", "read"} \subseteq States
    BY Zenon DEF States
  <2>2. \A i \in 1 .. n : sts[i] \in States
    BY <1>4, <2>1, Zenon
  <2>3. QED
    BY <2>2, Zenon
<1> HIDE DEF sts, rf, sh
<1>10. ASSUME NEW want
       PROVE  \/ FirstIn(sts, want) = 0 /\ \A i \in 1 .. n : sts[i] # want
              \/ FirstIn(sts, want) \in 1 .. n /\ sts[FirstIn(sts, want)] = want
  <2> DEFINE found == {i \in DOMAIN sts : sts[i] = want}
  <2>1. CASE found = {}
    BY <1>6, <2>1, Zenon DEF FirstIn
  <2>2. CASE found # {}
    <3>1. found \in SUBSET (1 .. n)
      BY <1>6, Zenon
    <3>2. FirstIn(sts, want) = Min(found)
      BY <2>2, Zenon DEF FirstIn
    <3>3. Min(found) \in found
      BY <2>2, <3>1, MinIn, Zenon
    <3>4. QED
      BY <3>1, <3>2, <3>3, Zenon
  <2>3. QED
    BY <2>1, <2>2, Zenon
<1>11. \/ FirstCurrent(sts) = 0 /\ n = 0
       \/ FirstCurrent(sts) \in 1 .. n /\ sts[FirstCurrent(sts)] # "deleted"
  <2>1. CASE FirstIn(sts, "new") # 0
    <3>1. FirstCurrent(sts) = FirstIn(sts, "new")
      BY <2>1, Zenon DEF FirstCurrent
    <3>2. QED
      BY <1>10, <2>1, <3>1, SMTT(30)
  <2>2. CASE FirstIn(sts, "new") = 0 /\ FirstIn(sts, "unread") # 0
    <3>1. FirstCurrent(sts) = FirstIn(sts, "unread")
      BY <2>2, Zenon DEF FirstCurrent
    <3>2. QED
      BY <1>10, <2>2, <3>1, Zenon
  <2>3. CASE FirstIn(sts, "new") = 0 /\ FirstIn(sts, "unread") = 0
    <3>1. FirstCurrent(sts) = FirstIn(sts, "read")
      BY <2>3, Zenon DEF FirstCurrent
    <3>2. \A i \in 1 .. n : sts[i] # "new" /\ sts[i] # "unread"
      BY <1>10, <2>3
    <3>3. \A i \in 1 .. n : sts[i] = "read"
      BY <1>4, <3>2, Zenon
    <3>4. CASE FirstIn(sts, "read") = 0
      <4>1. 1 \notin 1 .. n
        BY <1>10, <3>3, <3>4, SMTT(30)
      <4>2. QED
        BY <3>1, <3>4, <4>1, SMTT(30)
    <3>5. CASE FirstIn(sts, "read") # 0
      BY <1>10, <3>1, <3>5, SMTT(30)
    <3>6. QED
      BY <3>4, <3>5, Zenon
  <2>4. QED
    BY <2>1, <2>2, <2>3, Zenon
<1>12. FirstCurrent(sts) \in 0 .. n
  BY <1>11
<1>13. PICK x : x = Opened(b)
  BY Zenon
<1>14. /\ x.at = b /\ x.original = es /\ x.entries = es /\ x.state = sts /\ x.readFlag = rf
       /\ x.current = FirstCurrent(sts) /\ x \in SessionOf(n)
  <2>1. PICK now : now = FirstCurrent(sts)
    BY Zenon
  <2>2. x = [at |-> b, original |-> es, entries |-> es, state |-> sts, readFlag |-> rf,
             shown |-> sh, current |-> now]
    BY <1>8, <1>13, <2>1, Zenon
  <2>3. /\ x.at = b /\ x.original = es /\ x.entries = es /\ x.state = sts /\ x.readFlag = rf
        /\ x.current = now
    BY <2>2, Zenon
  <2>4. x \in SessionOf(n)
    BY <1>3, <1>6, <1>9, <1>12, <2>1, <2>2, Zenon DEF SessionOf
  <2>5. QED
    BY <2>1, <2>3, <2>4, Zenon
<1>15. SessionGood(x)
  <2>1. ReadKept(x)
    <3>1. \A i \in 1 .. n : sts[i] = "read" => sts[i] \notin {"new", "unread"}
      BY Zenon
    <3>2. QED
      BY <1>3, <1>5, <1>7, <1>14, <3>1, Zenon DEF ReadKept
  <2>2. SameMessages(x)
    BY <1>14, Zenon DEF SameMessages
  <2>3. QED
    BY <1>2, <1>14, <2>1, <2>2, Zenon DEF SessionGood
<1>16. CurrentOK(x)
  <2>1. Visible(x) = {i \in 1 .. n : sts[i] # "deleted"}
    BY <1>6, <1>14, Zenon DEF Visible
  <2>2. CASE FirstCurrent(sts) = 0 /\ n = 0
    <3>1. 1 .. n = {}
      BY <2>2
    <3>2. Visible(x) = {}
      BY <2>1, <3>1, Zenon
    <3>3. QED
      BY <1>14, <2>2, <3>2, Zenon DEF CurrentOK
  <2>3. CASE FirstCurrent(sts) \in 1 .. n /\ sts[FirstCurrent(sts)] # "deleted"
    <3>1. FirstCurrent(sts) # 0
      BY <2>3
    <3>2. QED
      BY <1>14, <2>1, <2>3, <3>1, Zenon DEF CurrentOK
  <2>4. QED
    BY <1>11, <2>2, <2>3, Zenon
<1>17. QED
  BY <1>13, <1>15, <1>16, Zenon

(* setStatus, at the start of a finish, changes no message and takes back  *)
(* no reading.                                                             *)
LEMMA StampedGood ==
  ASSUME NEW x, SessionGood(x), NEW o \in Settings
  PROVE  /\ SessionGood(Stamped(x, o)) /\ (CurrentOK(x) => CurrentOK(Stamped(x, o)))
         /\ Stamped(x, o).at = x.at /\ Stamped(x, o).state = x.state
         /\ Stamped(x, o).original = x.original
         /\ \A i \in DOMAIN x.original :
              /\ Stamped(x, o).entries[i].id = x.entries[i].id
              /\ Stamped(x, o).entries[i].whole = x.entries[i].whole
<1>1. PICK n \in Nat : n = Len(x.original)
  BY DEF SessionGood
<1>2. x \in SessionOf(n) /\ x.original \in Seq(Entry) /\ DOMAIN x.original = 1 .. n
  BY <1>1 DEF SessionGood
<1>3. /\ x.entries \in [1 .. n -> Entry] /\ DOMAIN x.entries = 1 .. n
      /\ x.original \in [1 .. n -> Entry]
  BY <1>2, Zenon DEF SessionOf
<1> DEFINE es == [i \in 1 .. n |-> [x.entries[i] EXCEPT !.status = NewStatus(x, o, i)]]
<1>4. ASSUME NEW i \in 1 .. n PROVE NewStatus(x, o, i) \in {"none", "O", "RO"}
  <2>1. x.entries[i] \in Entry
    BY <1>3, Zenon
  <2>2. x.entries[i].status \in {"none", "O", "RO"}
    BY <2>1, Zenon DEF Entry
  <2>3. QED
    BY <2>2, Zenon DEF NewStatus
<1>5. ASSUME NEW i \in 1 .. n
      PROVE  /\ es[i] \in Entry /\ es[i].id = x.entries[i].id /\ es[i].whole = x.entries[i].whole
             /\ es[i].status = NewStatus(x, o, i)
  <2>1. x.entries[i] \in Entry
    BY <1>3
  <2>2. QED
    BY <1>4, <2>1, Zenon DEF Entry
<1>6. es \in [1 .. n -> Entry]
  BY <1>5, Zenon
<1>7. Stamped(x, o) = [x EXCEPT !.entries = es]
  BY <1>3, Zenon DEF Stamped
<1> HIDE DEF es
<1>8. PICK y : y = Stamped(x, o)
  BY Zenon
<1>9. /\ y \in SessionOf(n) /\ y.at = x.at /\ y.state = x.state /\ y.original = x.original
      /\ y.readFlag = x.readFlag /\ y.current = x.current /\ y.entries = es
  BY <1>2, <1>6, <1>7, <1>8, Zenon DEF SessionOf
<1>10. SameMessages(y)
  BY <1>2, <1>5, <1>9, Zenon DEF SessionGood, SameMessages
<1>11. ReadKept(y)
  <2> SUFFICES ASSUME y.at = Spool, NEW i \in 1 .. n, y.original[i].status = "RO"
               PROVE  y.readFlag[i] /\ y.state[i] \notin {"new", "unread"}
                      /\ y.entries[i].status = "RO"
    BY <1>2, <1>9, Zenon DEF ReadKept
  <2>1. x.readFlag[i] /\ x.state[i] \notin {"new", "unread"} /\ x.entries[i].status = "RO"
    BY <1>2, <1>9, Zenon DEF SessionGood, ReadKept
  <2>2. NewStatus(x, o, i) = "RO"
    <3>1. x.at # Mbox /\ x.at = Spool
      BY <1>9, MailAssumption, Zenon
    <3>2. QED
      BY <2>1, <3>1, Zenon DEF NewStatus
  <2>3. QED
    BY <1>5, <1>9, <2>1, <2>2, Zenon
<1>12. CurrentOK(x) => CurrentOK(y)
  BY <1>9, Zenon DEF CurrentOK, Visible
<1>13. SessionGood(y)
  BY <1>1, <1>2, <1>9, <1>10, <1>11, Zenon DEF SessionGood
<1>14. QED
  BY <1>2, <1>5, <1>8, <1>9, <1>12, <1>13, Zenon

(* What a command is given to work on: messages that are not deleted.      *)
LEMMA SelectionsIn ==
  ASSUME NEW x, CurrentOK(x), NEW nums \in Selections(x)
  PROVE  nums \in SUBSET Visible(x) /\ nums # {}
<1>1. CASE nums \in (SUBSET Visible(x)) \ {{}}
  BY <1>1, Zenon
<1>2. CASE x.current # 0 /\ nums = {x.current}
  BY <1>2, Zenon DEF CurrentOK
<1>3. QED
  BY <1>1, <1>2, Zenon DEF Selections

(* The session of a reader at its prompt.                                  *)
LEMMA PromptFacts ==
  ASSUME Inv, NEW r \in Readers, AtPrompt(r)
  PROVE  /\ SessionGood(s[r]) /\ CurrentOK(s[r]) /\ Len(s[r].original) \in Nat
         /\ s[r] \in SessionOf(Len(s[r].original)) /\ opt[r] \in Settings
         /\ r \in Clients /\ r \notin Senders
<1>1. pc[r] = "prompt" /\ Open(r)
  BY Zenon DEF AtPrompt, Open
<1>2. SessionGood(s[r]) /\ CurrentOK(s[r])
  BY <1>1, Zenon DEF Inv, SessionInv
<1>3. s[r].original \in Seq(Entry) /\ s[r] \in SessionOf(Len(s[r].original))
  BY <1>2, Zenon DEF SessionGood
<1>4. Len(s[r].original) \in Nat
  BY <1>3
<1>5. opt[r] \in Settings /\ r \in Clients /\ r \notin Senders
  BY MailAssumption, Zenon DEF Inv, SessionTyped
<1>6. QED
  BY <1>2, <1>3, <1>4, <1>5, Zenon

(* The commands that change nothing but the session all tend it.           *)
LEMMA CommandsTend ==
  ASSUME Inv, NEW r \in Readers,
         \/ ShowMessages(r) \/ NextMessage(r) \/ Look(r)
         \/ Mark(r) \/ DeletePrint(r) \/ Undelete(r)
  PROVE  AtPrompt(r) /\ \E y : Tended(s[r], y, Len(s[r].original), {}) /\ Command(r, y)
<1>1. AtPrompt(r)
  BY Zenon DEF ShowMessages, NextMessage, Look, Mark, DeletePrint, Undelete
<1>2. PICK x : x = s[r]
  BY Zenon
<1>3. PICK n \in Nat : n = Len(x.original)
  BY <1>1, <1>2, PromptFacts, Zenon
<1>4. x \in SessionOf(n) /\ CurrentOK(x)
  BY <1>1, <1>2, <1>3, PromptFacts, Zenon
<1>5. \A nums \in Selections(x) : nums \in SUBSET Visible(x) /\ nums # {}
  BY <1>4, SelectionsIn, Zenon
<1> SUFFICES \E y : Tended(x, y, n, {}) /\ Command(r, y)
  BY <1>1, <1>2, <1>3, Zenon
<1>6. CASE ShowMessages(r)
  <2>1. PICK nums \in Selections(x) : \/ Command(r, Show(x, nums))
                                      \/ Command(r, [Show(x, nums) EXCEPT !.shown = x.shown])
    BY <1>2, <1>6, Zenon DEF ShowMessages
  <2>2. Tended(x, Show(x, nums), n, {})
    BY <1>4, <1>5, ShowTended, Zenon
  <2>3. Tended(x, [Show(x, nums) EXCEPT !.shown = x.shown], n, {})
    BY <1>4, <1>5, PipeTended, Zenon
  <2>4. QED
    BY <2>1, <2>2, <2>3, Zenon
<1>7. CASE NextMessage(r)
  <2>1. CASE x.current # 0 /\ Command(r, Show(x, {x.current}))
    <3>1. {x.current} \in SUBSET Visible(x) /\ {x.current} # {}
      BY <1>4, <2>1, Zenon DEF CurrentOK
    <3>2. QED
      BY <1>4, <2>1, <3>1, ShowTended, Zenon
  <2>2. CASE After(x, x.current) # {} /\ Command(r, Show(x, {Min(After(x, x.current))}))
    <3>1. After(x, x.current) \subseteq Visible(x) /\ Visible(x) \subseteq 1 .. n
      BY <1>4, VisibleIn, Zenon DEF After
    <3>2. Min(After(x, x.current)) \in After(x, x.current)
      BY <2>2, <3>1, MinIn, Zenon
    <3>3. {Min(After(x, x.current))} \in SUBSET Visible(x) /\ {Min(After(x, x.current))} # {}
      BY <3>1, <3>2, Zenon
    <3>4. QED
      BY <1>4, <2>2, <3>3, ShowTended, Zenon
  <2>3. QED
    BY <1>2, <1>7, <2>1, <2>2, Zenon DEF NextMessage
<1>8. CASE Look(r)
  <2>1. PICK i \in Visible(x) : Command(r, [x EXCEPT !.current = i])
    BY <1>2, <1>8, Zenon DEF Look
  <2>2. QED
    BY <1>4, <2>1, LookTended, Zenon
<1>9. CASE Mark(r)
  <2>1. PICK nums \in Selections(x), st \in {"deleted", "preserved", "mboxed", "read"} :
          Command(r, AutoPrint(r, Marked(x, nums, st)))
    BY <1>2, <1>9, Zenon DEF Mark
  <2>2. Tended(x, Marked(x, nums, st), n, {})
    BY <1>4, <1>5, MarkedTended, Zenon
  <2>3. QED
    BY <2>1, <2>2, AutoPrintTended, Zenon
<1>10. CASE DeletePrint(r)
  <2>1. PICK nums \in Selections(x) :
          LET y == Marked(x, nums, "deleted")
          IN  Command(r, IF y.current > Max(nums) THEN Show(y, {y.current}) ELSE y)
    BY <1>2, <1>10, Zenon DEF DeletePrint
  <2>2. PICK y : y = Marked(x, nums, "deleted")
    BY Zenon
  <2>3. Tended(x, y, n, {})
    <3>1. "deleted" \in {"deleted", "preserved", "mboxed", "read"}
      BY Zenon
    <3>2. QED
      BY <1>4, <1>5, <2>2, <3>1, MarkedTended, Zenon
  <2>4. Command(r, IF y.current > Max(nums) THEN Show(y, {y.current}) ELSE y)
    BY <2>1, <2>2, Zenon
  <2>5. CASE y.current > Max(nums)
    <3>1. Command(r, Show(y, {y.current}))
      BY <2>4, <2>5, Zenon
    <3>2. y.current # 0
      <4>1. Max(nums) \in 1 .. n
        BY <1>4, <1>5, VisibleIn, LastIn, Zenon
      <4>2. QED
        BY <2>5, <4>1
    <3>3. y \in SessionOf(n) /\ {y.current} \in SUBSET Visible(y) /\ {y.current} # {}
      BY <2>3, <3>2, Zenon DEF Tended, CurrentOK
    <3>4. Tended(y, Show(y, {y.current}), n, {})
      BY <3>3, ShowTended, Zenon
    <3>5. QED
      BY <2>3, <3>1, <3>4, TendedTwice, Zenon
  <2>6. CASE ~(y.current > Max(nums))
    BY <2>3, <2>4, <2>6, Zenon
  <2>7. QED
    BY <2>5, <2>6, Zenon
<1>11. CASE Undelete(r)
  <2>1. PICK nums \in ((SUBSET Deleted(x)) \ {{}}) \cup NearestDeleted(x) :
          Command(r, AutoPrint(r,
             [x EXCEPT !.state = [i \in DOMAIN @ |-> IF i \in nums THEN "read" ELSE @[i]],
                       !.readFlag = [i \in DOMAIN @ |-> i \in nums \/ @[i]],
                       !.current = Max(nums)]))
    BY <1>2, <1>11, Zenon DEF Undelete
  <2>2. Deleted(x) \in SUBSET (1 .. n)
    BY <1>4, VisibleIn, Zenon
  <2>3. nums \in SUBSET (1 .. n) /\ nums # {}
    <3> DEFINE after == {i \in Deleted(x) : i > x.current}
               before == {i \in Deleted(x) : i < x.current}
    <3>1. CASE nums \in (SUBSET Deleted(x)) \ {{}}
      BY <2>2, <3>1, Zenon
    <3>2. CASE after # {} /\ nums = {Min(after)}
      <4>1. after \in SUBSET (1 .. n)
        BY <2>2, Zenon
      <4>2. Min(after) \in 1 .. n
        BY <3>2, <4>1, MinIn, Zenon
      <4>3. QED
        BY <3>2, <4>2, Zenon
    <3>3. CASE before # {} /\ nums = {Max(before)}
      <4>1. before \in SUBSET (1 .. n)
        BY <2>2, Zenon
      <4>2. Max(before) \in 1 .. n
        BY <3>3, <4>1, MaxIn, Zenon
      <4>3. QED
        BY <3>3, <4>2, Zenon
    <3>4. nums \in NearestDeleted(x) =>
            (after # {} /\ nums = {Min(after)}) \/ (before # {} /\ nums = {Max(before)})
      <4> HIDE DEF after, before
      <4>1. NearestDeleted(x) = IF after # {} THEN {{Min(after)}}
                                ELSE IF before # {} THEN {{Max(before)}} ELSE {}
        BY Zenon DEF NearestDeleted, after, before
      <4>2. QED
        BY <4>1, Zenon
    <3>5. QED
      BY <3>1, <3>2, <3>3, <3>4, Zenon
  <2>4. PICK y : y =
          [x EXCEPT !.state = [i \in DOMAIN @ |-> IF i \in nums THEN "read" ELSE @[i]],
                    !.readFlag = [i \in DOMAIN @ |-> i \in nums \/ @[i]],
                    !.current = Max(nums)]
    BY Zenon
  <2>5. Tended(x, y, n, {})
    BY <1>4, <2>3, <2>4, UndeletedTended, Zenon
  <2>6. Command(r, AutoPrint(r, y))
    BY <2>1, <2>4, Zenon
  <2>7. QED
    BY <2>5, <2>6, AutoPrintTended, Zenon
<1>12. QED
  BY <1>6, <1>7, <1>8, <1>9, <1>10, <1>11, Zenon

----------------------------------------------------------------------------
\* The store side and the session side of a step that touches no mailbox.
StoreTurn(c) ==
  /\ StoreTyped' /\ OnlyAt(step, step', c) /\ OnlyAt(call, call', c) /\ OnlyAt(draft, draft', c)
  /\ OnlyAt(answer, answer', c)
  /\ box' = box /\ lock' = lock /\ step'[c] \in {"out", "called", "dead"}

SessionTurn(c) ==
  /\ SessionTyped' /\ OnlyAt(pc, pc', c) /\ OnlyAt(s, s', c) /\ OnlyAt(pending, pending', c)
  /\ opt' = opt

(* An assignment to one component.                                         *)
LEMMA ExceptOnly ==
  ASSUME NEW f, NEW c, NEW v
  PROVE  /\ OnlyAt(f, [f EXCEPT ![c] = v], c) /\ OnlyAt(f, f, c)
         /\ c \in DOMAIN f => [f EXCEPT ![c] = v][c] = v
         /\ DOMAIN [f EXCEPT ![c] = v] = DOMAIN f
BY Zenon DEF OnlyAt

(* Such a step keeps the invariant if the process that moves is left well. *)
LEMMA CallerKeeps ==
  ASSUME Inv, NEW c \in Clients, StoreTurn(c), SessionTurn(c),
         CallInv(c)', c \in Readers => SessionInv(c)' /\ PendingInv(c)'
  PROVE  Inv' /\ Turn(c)
<1>1. Turn(c)
  BY Zenon DEF StoreTurn, SessionTurn, Turn
<1>2. StepInv(c)'
  <2>1. step'[c] \notin Holding /\ step'[c] # "torn" /\ step'[c] # "loaded"
    BY Zenon DEF StoreTurn, Holding
  <2>2. QED
    BY <2>1, Zenon DEF StepInv
<1>3. QED
  BY <1>1, <1>2, TurnKeeps, Zenon DEF StoreTurn, SessionTurn

(* A call.                                                                 *)
LEMMA CallTurn ==
  ASSUME Inv, NEW c \in Clients, NEW o, Call(c, o)
  PROVE  StoreTurn(c) /\ step'[c] = "called" /\ call'[c] = o /\ answer'[c] = "none"
<1>1. /\ box' = box /\ lock' = lock /\ draft' = draft /\ call' = [call EXCEPT ![c] = o]
      /\ step' = [step EXCEPT ![c] = "called"] /\ answer' = [answer EXCEPT ![c] = "none"]
  BY Zenon DEF Call
<1>2. /\ step \in [Clients -> Steps] /\ DOMAIN call = Clients /\ DOMAIN step = Clients
      /\ answer \in [Clients -> {"none", "ok", "error"}] /\ StoreTyped
      /\ DOMAIN answer = Clients
  BY Zenon DEF Inv, StoreTyped
<1>3. /\ step' \in [Clients -> Steps] /\ answer' \in [Clients -> {"none", "ok", "error"}]
  BY <1>1, <1>2, Zenon DEF Steps
<1>4. /\ OnlyAt(step, step', c) /\ OnlyAt(call, call', c) /\ OnlyAt(draft, draft', c)
      /\ OnlyAt(answer, answer', c)
      /\ step'[c] = "called" /\ call'[c] = o /\ answer'[c] = "none" /\ DOMAIN call' = Clients
  BY <1>1, <1>2, ExceptOnly, Zenon
<1>5. StoreTyped'
  BY <1>1, <1>2, <1>3, <1>4, Zenon DEF StoreTyped
<1>6. QED
  BY <1>1, <1>4, <1>5, Zenon DEF StoreTurn

(* A caller that has heard the answer, or that calls nothing.              *)
LEMMA HeardTurn ==
  ASSUME Inv, NEW c \in Clients, step[c] = "out", Heard(c) \/ UNCHANGED store
  PROVE  /\ StoreTurn(c) /\ step'[c] = "out"
         /\ answer' = [answer EXCEPT ![c] = "none"] \/ answer' = answer
<1>1. /\ box' = box /\ lock' = lock /\ draft' = draft /\ call' = call /\ step' = step
      /\ answer' = [answer EXCEPT ![c] = "none"] \/ answer' = answer
  BY Zenon DEF Heard, store
<1>2. answer \in [Clients -> {"none", "ok", "error"}] /\ StoreTyped
  BY Zenon DEF Inv, StoreTyped
<1>3. answer' \in [Clients -> {"none", "ok", "error"}]
  BY <1>1, <1>2, Zenon
<1>4. OnlyAt(step, step', c) /\ OnlyAt(call, call', c) /\ OnlyAt(draft, draft', c)
      /\ OnlyAt(answer, answer', c)
  <2>1. OnlyAt(step, step', c) /\ OnlyAt(call, call', c) /\ OnlyAt(draft, draft', c)
    BY <1>1, ExceptOnly, Zenon
  <2>2. CASE answer' = answer
    BY <2>1, <2>2, ExceptOnly, Zenon
  <2>3. CASE answer' = [answer EXCEPT ![c] = "none"]
    BY <2>1, <2>3, ExceptOnly, Zenon
  <2>4. QED
    BY <1>1, <2>1, <2>2, <2>3, Zenon
<1>5. StoreTyped'
  BY <1>1, <1>2, <1>3, Zenon DEF StoreTyped
<1>6. QED
  BY <1>1, <1>4, <1>5, Zenon DEF StoreTurn

(* A process that dies.                                                    *)
LEMMA CrashTurn ==
  ASSUME Inv, NEW c \in Clients, StoreCrash(c)
  PROVE  StoreTurn(c) /\ step'[c] = "dead" /\ answer' = [answer EXCEPT ![c] = "none"]
<1>1. /\ box' = box /\ lock' = lock /\ draft' = [draft EXCEPT ![c] = <<>>]
      /\ call' = [call EXCEPT ![c] = NoCall]
      /\ step' = [step EXCEPT ![c] = "dead"] /\ answer' = [answer EXCEPT ![c] = "none"]
  BY Zenon DEF StoreCrash
<1>2. /\ step \in [Clients -> Steps] /\ DOMAIN call = Clients /\ DOMAIN step = Clients
      /\ answer \in [Clients -> {"none", "ok", "error"}] /\ StoreTyped
      /\ draft \in [Clients -> Seq(Entry)]
  BY Zenon DEF Inv, StoreTyped
<1>3. /\ step' \in [Clients -> Steps] /\ answer' \in [Clients -> {"none", "ok", "error"}]
      /\ draft' \in [Clients -> Seq(Entry)]
  BY <1>1, <1>2, SMTT(30) DEF Steps
<1>4. /\ OnlyAt(step, step', c) /\ OnlyAt(call, call', c) /\ OnlyAt(draft, draft', c)
      /\ OnlyAt(answer, answer', c)
      /\ step'[c] = "dead" /\ DOMAIN call' = Clients
  BY <1>1, <1>2, ExceptOnly, Zenon
<1>5. StoreTyped'
  BY <1>1, <1>2, <1>3, <1>4, Zenon DEF StoreTyped
<1>6. QED
  BY <1>1, <1>4, <1>5, Zenon DEF StoreTurn

(* What a step of a process changes on its own side.                       *)
LEMMA OwnTurn ==
  ASSUME Inv, NEW c \in Clients, NEW p \in Places,
         pc' = [pc EXCEPT ![c] = p] \/ (pc' = pc /\ p = pc[c]),
         NEW x, NEW pd,
         \/ c \in Readers /\ s' = [s EXCEPT ![c] = x]
         \/ s' = s /\ x = s[c],
         \/ c \in Readers /\ pending' = [pending EXCEPT ![c] = pd]
         \/ pending' = pending /\ pd = pending[c],
         opt' = opt, todo' \in [Senders -> Seq(Boxes)],
         plain' \subseteq Ids, accepted' \subseteq Ids, doubled' \subseteq Ids
  PROVE  SessionTurn(c) /\ pc'[c] = p /\ s'[c] = x /\ pending'[c] = pd
<1>1. SessionTyped /\ pc \in [Clients -> Places] /\ DOMAIN s = Readers /\ DOMAIN pending = Readers
      /\ DOMAIN pc = Clients
  BY Zenon DEF Inv, SessionTyped
<1>2. OnlyAt(pc, pc', c) /\ pc'[c] = p
  <2>1. CASE pc' = [pc EXCEPT ![c] = p]
    BY <1>1, <2>1, ExceptOnly, Zenon
  <2>2. CASE pc' = pc /\ p = pc[c]
    BY <1>1, <2>2, ExceptOnly, Zenon
  <2>3. QED
    BY <2>1, <2>2, Zenon
<1>3. OnlyAt(s, s', c) /\ s'[c] = x /\ DOMAIN s' = Readers
  <2>1. CASE c \in Readers /\ s' = [s EXCEPT ![c] = x]
    BY <1>1, <2>1, ExceptOnly, Zenon
  <2>2. CASE s' = s /\ x = s[c]
    BY <1>1, <2>2, ExceptOnly, Zenon
  <2>3. QED
    BY <2>1, <2>2, Zenon
<1>4. OnlyAt(pending, pending', c) /\ pending'[c] = pd /\ DOMAIN pending' = Readers
  <2>1. CASE c \in Readers /\ pending' = [pending EXCEPT ![c] = pd]
    BY <1>1, <2>1, ExceptOnly, Zenon
  <2>2. CASE pending' = pending /\ pd = pending[c]
    BY <1>1, <2>2, ExceptOnly, Zenon
  <2>3. QED
    BY <2>1, <2>2, Zenon
<1>5. pc' \in [Clients -> Places]
  BY <1>1, Zenon
<1>6. QED
  BY <1>1, <1>2, <1>3, <1>4, <1>5, Zenon DEF SessionTurn, SessionTyped

(* A place between two operations is not in one.                           *)
LEMMA NotBusy ==
  /\ "out" \notin Busy /\ "dead" \notin Busy /\ "called" \in Busy /\ Holding \subseteq Busy
  /\ \A st \in Steps : st \in Busy \/ st \in {"out", "dead"}
  /\ {"start", "send", "prompt", "save", "merge", "commit", "done"} \subseteq Places
BY Zenon DEF Busy, Holding, Steps, Places

(* deliver.                                                                *)
LEMMA DeliverInv ==
  ASSUME Inv, NEW c \in Senders, Deliver(c)
  PROVE  Inv' /\ Turn(c)
<1>1. c \in Clients /\ c \notin Readers
  BY MailAssumption, Zenon
<1>2. /\ todo \in [Senders -> Seq(Boxes)] /\ pc[c] = "send" /\ step[c] = "out" /\ SessionTyped
  BY Zenon DEF Inv, SessionTyped, Deliver
<1>3. /\ s' = s /\ opt' = opt /\ pending' = pending /\ plain' = plain /\ doubled' = doubled
      /\ accepted' = accepted
  BY Zenon DEF Deliver, history
<1>4. plain' \subseteq Ids /\ doubled' \subseteq Ids /\ accepted' \subseteq Ids
  BY <1>2, <1>3, Zenon DEF SessionTyped
<1>5. CASE /\ todo[c] # <<>> /\ Call(c, AppendMbox(Head(todo[c]), Fresh(Mail[c])))
           /\ todo' = [todo EXCEPT ![c] = Tail(@)] /\ pc' = pc
  <2>1. Head(todo[c]) \in Boxes /\ Tail(todo[c]) \in Seq(Boxes)
    <3>1. todo[c] \in Seq(Boxes)
      BY <1>2, Zenon
    <3>2. QED
      BY <1>5, <3>1
  <2>2. todo' \in [Senders -> Seq(Boxes)]
    BY <1>2, <1>5, <2>1, Zenon
  <2>3. StoreTurn(c) /\ step'[c] = "called"
        /\ call'[c] = AppendMbox(Head(todo[c]), Fresh(Mail[c]))
    BY <1>1, <1>5, CallTurn, Zenon
  <2>4. SessionTurn(c) /\ pc'[c] = "send"
    BY <1>1, <1>2, <1>3, <1>4, <1>5, <2>2, OwnTurn, NotBusy, Zenon
  <2>5. Asked(c)'
    BY <2>1, <2>3, <2>4, Zenon DEF Asked
  <2>6. CallInv(c)'
    BY <1>1, <2>3, <2>4, <2>5, Zenon DEF CallInv
  <2>7. QED
    BY <1>1, <2>3, <2>4, <2>6, CallerKeeps, Zenon
<1>6. CASE Heard(c) /\ pc' = [pc EXCEPT ![c] = "done"] /\ todo' = todo
  <2>1. StoreTurn(c) /\ step'[c] = "out"
    BY <1>1, <1>2, <1>6, HeardTurn, Zenon
  <2>2. SessionTurn(c) /\ pc'[c] = "done"
    BY <1>1, <1>2, <1>3, <1>4, <1>6, OwnTurn, NotBusy, Zenon
  <2>3. CallInv(c)'
    BY <1>1, <2>1, <2>2, NotBusy, Zenon DEF CallInv
  <2>4. QED
    BY <1>1, <2>1, <2>2, <2>3, CallerKeeps, Zenon
<1>7. QED
  BY <1>5, <1>6, Zenon DEF Deliver

(* A command that only tends the session.                                  *)
LEMMA TendedInv ==
  ASSUME Inv, NEW r \in Readers, AtPrompt(r), NEW y, NEW nums,
         Tended(s[r], y, Len(s[r].original), nums), s' = [s EXCEPT ![r] = y],
         UNCHANGED <<store, todo, pc, opt, pending, doubled, accepted>>, plain' \subseteq Ids
  PROVE  Inv' /\ Turn(r)
<1>1. r \in Clients /\ r \notin Senders /\ SessionGood(s[r]) /\ pc[r] = "prompt" /\ step[r] = "out"
  BY PromptFacts, Zenon DEF AtPrompt
<1>2. SessionGood(y) /\ CurrentOK(y)
  BY <1>1, TendedGood, Zenon
<1>3. StoreTurn(r) /\ step'[r] = "out"
  BY <1>1, HeardTurn, Zenon
<1>4. /\ SessionTyped /\ todo' = todo /\ pc' = pc /\ opt' = opt /\ pending' = pending
      /\ doubled' = doubled /\ accepted' = accepted
  BY Zenon DEF Inv
<1>5. todo' \in [Senders -> Seq(Boxes)] /\ accepted' \subseteq Ids /\ doubled' \subseteq Ids
  BY <1>4, Zenon DEF SessionTyped
<1>6. SessionTurn(r) /\ pc'[r] = "prompt" /\ s'[r] = y
  BY <1>1, <1>4, <1>5, OwnTurn, NotBusy, ZenonT(30)
<1>7. CallInv(r)'
  BY <1>1, <1>3, <1>6, NotBusy, Zenon DEF CallInv
<1>8. SessionInv(r)' /\ PendingInv(r)'
  <2>1. SessionInv(r)'
    BY <1>2, <1>6, Zenon DEF SessionInv
  <2>2. PendingInv(r)'
    BY <1>6, Zenon DEF PendingInv
  <2>3. QED
    BY <2>1, <2>2, Zenon
<1>9. QED
  BY <1>1, <1>3, <1>6, <1>7, <1>8, CallerKeeps, Zenon

(* The commands, and write.                                                *)
LEMMA CommandInv ==
  ASSUME Inv, NEW r \in Readers,
         \/ ShowMessages(r) \/ NextMessage(r) \/ Look(r)
         \/ Mark(r) \/ DeletePrint(r) \/ Undelete(r)
  PROVE  Inv' /\ Turn(r)
<1>1. PICK y : Tended(s[r], y, Len(s[r].original), {}) /\ Command(r, y) /\ AtPrompt(r)
  BY CommandsTend, Zenon
<1>2. /\ s' = [s EXCEPT ![r] = y] /\ plain' = plain
      /\ UNCHANGED <<store, todo, pc, opt, pending, doubled, accepted>>
  BY <1>1, Zenon DEF Command, history
<1>3. plain \subseteq Ids
  BY Zenon DEF Inv, SessionTyped
<1>4. QED
  BY <1>1, <1>2, <1>3, TendedInv, Zenon

(* The entries of a session are entries.                                   *)
LEMMA EntriesTyped ==
  ASSUME NEW x, SessionGood(x)
  PROVE  /\ x.entries \in [1 .. Len(x.original) -> Entry] /\ Len(x.original) \in Nat
         /\ x.state \in [1 .. Len(x.original) -> States]
         /\ DOMAIN x.state = 1 .. Len(x.original) /\ DOMAIN x.original = 1 .. Len(x.original)
         /\ Visible(x) \subseteq 1 .. Len(x.original) /\ Deleted(x) \subseteq 1 .. Len(x.original)
         /\ x.original \in [1 .. Len(x.original) -> Entry] /\ x.original \in Seq(Entry)
         /\ Len(x.entries) = Len(x.original)
         /\ x.at \in Boxes
<1>1. x.original \in Seq(Entry) /\ x \in SessionOf(Len(x.original))
  BY Zenon DEF SessionGood
<1>2. PICK n \in Nat : n = Len(x.original)
  BY <1>1
<1>3. /\ x.entries \in [1 .. n -> Entry] /\ x.state \in [1 .. n -> States]
      /\ x.original \in [1 .. n -> Entry] /\ DOMAIN x.state = 1 .. n
      /\ DOMAIN x.original = 1 .. n /\ x.at \in Boxes
  BY <1>1, <1>2, Zenon DEF SessionOf
<1>4. Visible(x) \subseteq 1 .. n /\ Deleted(x) \subseteq 1 .. n
  BY <1>1, <1>2, VisibleIn, Zenon
<1>5. Len(x.entries) = n
  BY <1>3
<1>6. QED
  BY <1>1, <1>2, <1>3, <1>4, <1>5, Zenon

(* write.                                                                  *)
LEMMA WriteInv ==
  ASSUME Inv, NEW r \in Readers, Write(r)
  PROVE  Inv' /\ Turn(r)
<1>1. AtPrompt(r)
  BY Zenon DEF Write
<1>2. PICK nums \in Selections(s[r]) :
        /\ s' = [s EXCEPT ![r] = Saved(s[r], nums)]
        /\ plain' = plain \cup {s[r].entries[i].id : i \in {i \in nums : s[r].entries[i].whole}}
  BY Zenon DEF Write
<1>3. /\ SessionGood(s[r]) /\ CurrentOK(s[r]) /\ Len(s[r].original) \in Nat
      /\ s[r] \in SessionOf(Len(s[r].original))
  BY <1>1, PromptFacts, Zenon
<1>4. nums \in SUBSET Visible(s[r]) /\ nums # {}
  BY <1>3, SelectionsIn, Zenon
<1>5. Tended(s[r], Saved(s[r], nums), Len(s[r].original), nums)
  BY <1>3, <1>4, SavedTended, Zenon
<1>6. plain' \subseteq Ids
  <2>1. plain \subseteq Ids
    BY Zenon DEF Inv, SessionTyped
  <2>2. \A i \in nums : s[r].entries[i] \in Entry
    <3>1. nums \subseteq 1 .. Len(s[r].original)
      BY <1>3, <1>4, EntriesTyped, Zenon
    <3>2. s[r].entries \in [1 .. Len(s[r].original) -> Entry]
      BY <1>3, EntriesTyped, Zenon
    <3>3. QED
      BY <3>1, <3>2, Zenon
  <2>3. \A e \in Entry : e.id \in Ids
    BY Zenon DEF Entry
  <2>4. QED
    BY <1>2, <2>1, <2>2, <2>3, Zenon
<1>7. UNCHANGED <<store, todo, pc, opt, pending, doubled, accepted>>
  BY Zenon DEF Write, history
<1>8. QED
  BY <1>1, <1>2, <1>5, <1>6, <1>7, TendedInv, Zenon

(* What every reader's step starts from.                                   *)
LEMMA ReaderFacts ==
  ASSUME Inv, NEW r \in Readers
  PROVE  /\ r \in Clients /\ r \notin Senders /\ SessionTyped /\ opt[r] \in Settings
         /\ todo \in [Senders -> Seq(Boxes)] /\ plain \subseteq Ids /\ accepted \subseteq Ids
         /\ doubled \subseteq Ids /\ SessionGood(s[r]) /\ SessionInv(r) /\ PendingInv(r)
         /\ CallInv(r) /\ StepInv(r)
<1>1. r \in Clients /\ r \notin Senders /\ SessionTyped /\ opt[r] \in Settings
  BY MailAssumption, Zenon DEF Inv, SessionTyped
<1>2. QED
  BY <1>1, Zenon DEF Inv, SessionTyped, SessionInv

(* save and copy begin.                                                    *)
LEMMA SaveInv ==
  ASSUME Inv, NEW r \in Readers, Save(r)
  PROVE  Inv' /\ Turn(r)
<1>1. AtPrompt(r) /\ step[r] = "out"
  BY Zenon DEF Save, AtPrompt
<1>2. PICK nums \in Selections(s[r]), b \in SaveTo, kind \in {"save", "copy"} :
        pending' = [pending EXCEPT ![r] = [kind |-> kind, nums |-> nums, left |-> nums, to |-> b]]
  BY Zenon DEF Save
<1>3. /\ pc' = [pc EXCEPT ![r] = "save"] /\ UNCHANGED store /\ todo' = todo /\ opt' = opt /\ s' = s
      /\ plain' = plain /\ doubled' = doubled /\ accepted' = accepted
  BY DEF Save, history
<1>4. StoreTurn(r) /\ step'[r] = "out"
  BY <1>1, <1>3, ReaderFacts, HeardTurn, Zenon
<1>5. PICK pd : pd = [kind |-> kind, nums |-> nums, left |-> nums, to |-> b]
  BY Zenon
<1>6. SessionTurn(r) /\ pc'[r] = "save" /\ s'[r] = s[r] /\ pending'[r] = pd
  <2>1. "save" \in Places /\ pending' = [pending EXCEPT ![r] = pd]
    BY <1>2, <1>5, NotBusy, Zenon
  <2>2. /\ todo' \in [Senders -> Seq(Boxes)] /\ plain' \subseteq Ids /\ accepted' \subseteq Ids
        /\ doubled' \subseteq Ids /\ r \in Clients
    BY <1>3, ReaderFacts, Zenon
  <2>3. QED
    BY <1>3, <2>1, <2>2, OwnTurn, Zenon
<1>7. nums \in SUBSET Visible(s[r]) /\ nums # {}
  BY <1>1, PromptFacts, SelectionsIn, Zenon
<1>8. SessionInv(r)'
  BY <1>1, <1>6, PromptFacts, Zenon DEF SessionInv
<1>9. PendingInv(r)'
  <2>1. pd \in [kind : {"save", "copy"}, nums : SUBSET Visible(s[r]), left : SUBSET Visible(s[r]),
                to : SaveTo] /\ pd.nums # {} /\ pd.left \subseteq pd.nums
    BY <1>5, <1>7, Zenon
  <2>2. pc'[r] \notin {"merge", "commit"}
    BY <1>6, Zenon
  <2>3. QED
    BY <1>6, <2>1, <2>2, Zenon DEF PendingInv
<1>10. CallInv(r)'
  BY <1>4, <1>6, ReaderFacts, NotBusy, Zenon DEF CallInv
<1>11. QED
  BY <1>4, <1>6, <1>8, <1>9, <1>10, ReaderFacts, CallerKeeps, ZenonT(30)

(* One message is appended.                                                *)
LEMMA SaveAppendInv ==
  ASSUME Inv, NEW r \in Readers, SaveAppend(r)
  PROVE  Inv' /\ Turn(r)
<1>1. pc[r] = "save" /\ step[r] = "out" /\ pending[r].left # {}
  BY Zenon DEF SaveAppend
<1>2. PICK pd : pd = pending[r]
  BY Zenon
<1>3. /\ pd \in [kind : {"save", "copy"}, nums : SUBSET Visible(s[r]), left : SUBSET Visible(s[r]),
                 to : SaveTo] /\ pd.nums # {} /\ pd.left \subseteq pd.nums /\ pd.left # {}
  BY <1>1, <1>2, ReaderFacts, Zenon DEF PendingInv
<1>4. PICK i : i = Min(pd.left)
  BY Zenon
<1>5. i \in pd.left /\ i \in pd.nums /\ i \in Visible(s[r]) /\ s[r].entries[i] \in Entry
  <2>1. pd.left \in SUBSET (1 .. Len(s[r].original)) /\ Len(s[r].original) \in Nat
    BY <1>3, ReaderFacts, EntriesTyped, Zenon
  <2>2. i \in pd.left
    BY <1>3, <1>4, <2>1, MinIn, Zenon
  <2>3. i \in 1 .. Len(s[r].original) /\ s[r].entries \in [1 .. Len(s[r].original) -> Entry]
    BY <2>1, <2>2, ReaderFacts, EntriesTyped, Zenon
  <2>4. QED
    BY <1>3, <2>2, <2>3, Zenon
<1>6. /\ Call(r, AppendMbox(pd.to, s[r].entries[i]))
      /\ doubled' = doubled \cup {s[r].entries[i].id}
      /\ pending' = [pending EXCEPT ![r].left = @ \ {i}]
      /\ todo' = todo /\ pc' = pc /\ opt' = opt /\ s' = s /\ plain' = plain /\ accepted' = accepted
  BY <1>2, <1>4, Zenon DEF SaveAppend, history
<1>7. PICK np : np = [pd EXCEPT !.left = @ \ {i}]
  BY Zenon
<1>8. /\ np \in [kind : {"save", "copy"}, nums : SUBSET Visible(s[r]), left : SUBSET Visible(s[r]),
                 to : SaveTo]
      /\ np.nums = pd.nums /\ np.to = pd.to /\ np.left = pd.left \ {i} /\ np.kind = pd.kind
  BY <1>3, <1>7, Zenon
<1>9. pending' = [pending EXCEPT ![r] = np]
  BY <1>2, <1>6, <1>7, Zenon
<1>10. StoreTurn(r) /\ step'[r] = "called" /\ call'[r] = AppendMbox(pd.to, s[r].entries[i])
  BY <1>6, ReaderFacts, CallTurn, Zenon
<1>11. SessionTurn(r) /\ pc'[r] = "save" /\ s'[r] = s[r] /\ pending'[r] = np
  <2>1. s[r].entries[i].id \in Ids
    BY <1>5, Zenon DEF Entry
  <2>2. doubled' \subseteq Ids
    BY <1>6, <2>1, ReaderFacts, Zenon
  <2>3. QED
    BY <1>1, <1>6, <1>9, <2>2, ReaderFacts, OwnTurn, NotBusy, ZenonT(30)
<1>12. SessionInv(r)'
  BY <1>1, <1>11, ReaderFacts, Zenon DEF SessionInv, Open
<1>13. PendingInv(r)'
  <2>1. np.nums # {} /\ np.left \subseteq np.nums /\ pc'[r] \notin {"merge", "commit"}
    BY <1>3, <1>8, <1>11, Zenon
  <2>2. QED
    BY <1>8, <1>11, <2>1, ZenonT(30) DEF PendingInv
<1>14. Asked(r)'
  <2>1. i \in np.nums \ np.left
    BY <1>5, <1>8, ZenonT(30)
  <2>2. QED
    BY <1>8, <1>10, <1>11, <2>1, Zenon DEF Asked
<1>15. CallInv(r)'
  BY <1>10, <1>11, <1>14, ReaderFacts, NotBusy, ZenonT(30) DEF CallInv
<1>16. QED
  BY <1>10, <1>11, <1>12, <1>13, <1>15, ReaderFacts, CallerKeeps, ZenonT(30)

(* save and copy end: what they make of the session.                       *)
LEMMA SaveDoneTends ==
  ASSUME Inv, NEW r \in Readers, SaveDone(r)
  PROVE  \E y : /\ s' = [s EXCEPT ![r] = y]
                /\ \/ y = s[r]
                   \/ /\ answer[r] # "error" /\ pending[r].left = {}
                      /\ Tended(s[r], y, Len(s[r].original), pending[r].nums)
<1>1. pc[r] = "save" /\ (pending[r].left = {} \/ answer[r] = "error")
  BY DEF SaveDone
<1>2. PICK x : x = s[r]
  BY Zenon
<1>3. PICK n \in Nat : n = Len(x.original)
  BY <1>2, ReaderFacts, EntriesTyped, Zenon
<1>4. x \in SessionOf(n)
  BY <1>2, <1>3, ReaderFacts, Zenon DEF SessionGood
<1>5. PICK nums : nums = pending[r].nums
  BY ZenonT(30)
<1>6. nums \in SUBSET Visible(x) /\ nums # {}
  BY <1>1, <1>2, <1>5, ReaderFacts, Zenon DEF PendingInv
<1>7. s' = [s EXCEPT ![r] = IF answer[r] = "error" THEN x
                            ELSE IF pending[r].kind = "save" THEN Saved(x, nums)
                            ELSE Show(x, nums)]
  BY <1>2, <1>5, Zenon DEF SaveDone
<1>8. CASE answer[r] = "error"
  BY <1>2, <1>7, <1>8, Zenon
<1>9. CASE answer[r] # "error"
  <2>1. Tended(x, Saved(x, nums), n, nums)
    BY <1>4, <1>6, SavedTended, Zenon
  <2>2. Tended(x, Show(x, nums), n, {})
    BY <1>4, <1>6, ShowTended, Zenon
  <2>3. Tended(x, Show(x, nums), n, nums)
    BY <2>2, Zenon DEF Tended
  <2>4. PICK y : y = IF pending[r].kind = "save" THEN Saved(x, nums) ELSE Show(x, nums)
    BY Zenon
  <2>5. Tended(x, y, n, nums)
    BY <2>1, <2>3, <2>4, Zenon
  <2>6. s' = [s EXCEPT ![r] = y]
    BY <1>7, <1>9, <2>4, Zenon
  <2>7. QED
    BY <1>1, <1>2, <1>3, <1>5, <1>9, <2>5, <2>6, Zenon
<1>10. QED
  BY <1>8, <1>9, Zenon

(* The reader is back at its prompt.                                       *)
LEMMA BackInv ==
  ASSUME Inv, NEW r \in Readers, step[r] = "out", Heard(r) \/ UNCHANGED store,
         NEW p \in {"prompt", "done"}, pc' = [pc EXCEPT ![r] = p],
         NEW y, s' = [s EXCEPT ![r] = y] \/ (s' = s /\ y = s[r]),
         SessionGood(y), p = "prompt" => CurrentOK(y),
         pending' = [pending EXCEPT ![r] = Idle] \/ pending' = pending,
         opt' = opt, todo' = todo, plain' = plain, accepted' = accepted, doubled' \subseteq Ids
  PROVE  Inv' /\ Turn(r)
<1>1. StoreTurn(r) /\ step'[r] = "out"
  BY ReaderFacts, HeardTurn, Zenon
<1>2. p \in Places /\ p \notin {"send", "save", "merge", "commit"} /\ (p = "prompt" \/ p = "done")
  BY Zenon DEF Places
<1>3. PICK pd : \/ r \in Readers /\ pending' = [pending EXCEPT ![r] = pd]
                \/ pending' = pending /\ pd = pending[r]
  BY Zenon
<1>4. SessionTurn(r) /\ pc'[r] = p /\ s'[r] = y
  <2>1. /\ todo' \in [Senders -> Seq(Boxes)] /\ plain' \subseteq Ids /\ accepted' \subseteq Ids
        /\ r \in Clients
    BY ReaderFacts, Zenon
  <2>2. CASE s' = [s EXCEPT ![r] = y] /\ pending' = [pending EXCEPT ![r] = pd]
    BY <1>2, <2>1, <2>2, OwnTurn, Zenon
  <2>3. CASE s' = [s EXCEPT ![r] = y] /\ pending' = pending /\ pd = pending[r]
    BY <1>2, <2>1, <2>3, OwnTurn, Zenon
  <2>4. CASE s' = s /\ y = s[r] /\ pending' = [pending EXCEPT ![r] = pd]
    BY <1>2, <2>1, <2>4, OwnTurn, Zenon
  <2>5. CASE s' = s /\ y = s[r] /\ pending' = pending /\ pd = pending[r]
    BY <1>2, <2>1, <2>5, OwnTurn, Zenon
  <2>6. QED
    BY <1>3, <2>2, <2>3, <2>4, <2>5, Zenon
<1>5. SessionInv(r)'
  <2>1. p = "prompt" \/ p \in {"start", "done"}
    BY <1>2, Zenon
  <2>2. QED
    BY <1>4, <2>1, Zenon DEF SessionInv, Open
<1>6. PendingInv(r)'
  BY <1>2, <1>4, Zenon DEF PendingInv
<1>7. CallInv(r)'
  BY <1>1, <1>2, <1>4, ReaderFacts, NotBusy, Zenon DEF CallInv
<1>8. QED
  BY <1>1, <1>4, <1>5, <1>6, <1>7, ReaderFacts, CallerKeeps, Zenon

(* save and copy end.                                                      *)
LEMMA SaveDoneInv ==
  ASSUME Inv, NEW r \in Readers, SaveDone(r)
  PROVE  Inv' /\ Turn(r)
<1>1. /\ pc[r] = "save" /\ step[r] = "out" /\ Heard(r) /\ pc' = [pc EXCEPT ![r] = "prompt"]
      /\ pending' = [pending EXCEPT ![r] = Idle] /\ opt' = opt /\ todo' = todo /\ plain' = plain
      /\ accepted' = accepted /\ doubled' = doubled
  BY Zenon DEF SaveDone, history
<1>2. PICK y : /\ s' = [s EXCEPT ![r] = y]
               /\ y = s[r] \/ Tended(s[r], y, Len(s[r].original), pending[r].nums)
  BY SaveDoneTends, Zenon
<1>3. SessionGood(s[r]) /\ CurrentOK(s[r])
  <2>1. Open(r)
    BY <1>1, Zenon DEF Open
  <2>2. QED
    BY <2>1, ReaderFacts, Zenon DEF SessionInv
<1>4. SessionGood(y) /\ CurrentOK(y)
  BY <1>2, <1>3, TendedGood, Zenon
<1>5. "prompt" \in {"prompt", "done"}
  BY Zenon
<1>6. QED
  BY <1>1, <1>2, <1>4, <1>5, ReaderFacts, BackInv, Zenon

(* quit and file begin to commit the session.                              *)
LEMMA FinishInv ==
  ASSUME Inv, NEW r \in Readers, AtPrompt(r), NEW then \in {"quit", "file"}, NEW to \in Boxes,
         Finish(r, then, to)
  PROVE  Inv' /\ Turn(r)
<1>1. PICK x : x = Stamped(s[r], opt[r])
  BY Zenon
<1>2. SessionGood(x) /\ CurrentOK(x)
  BY <1>1, PromptFacts, StampedGood, Zenon
<1>3. PICK pd : pd = [kind |-> then, to |-> to]
  BY Zenon
<1>4. /\ s' = [s EXCEPT ![r] = x] /\ pending' = [pending EXCEPT ![r] = pd] /\ todo' = todo
      /\ opt' = opt /\ plain' = plain /\ doubled' = doubled /\ accepted' = accepted
  BY <1>1, <1>3, Zenon DEF Finish, history
<1>5. PICK p, o :
        /\ p \in {"merge", "commit"} /\ pc' = [pc EXCEPT ![r] = p] /\ Call(r, o)
        /\ p = "merge" => o = MergeMbox(Mbox, MovedEntries(x, opt[r]), opt[r].append)
        /\ p = "commit" => o = CommitCall(x, opt[r])
  <2>1. "merge" \in {"merge", "commit"} /\ "commit" \in {"merge", "commit"} /\ "merge" # "commit"
    BY Zenon
  <2>2. CASE Moved(x, opt[r]) = {}
    BY <1>1, <2>1, <2>2, Zenon DEF Finish
  <2>3. CASE Moved(x, opt[r]) # {}
    BY <1>1, <2>1, <2>3, ZenonT(30) DEF Finish
  <2>4. QED
    BY <2>2, <2>3, Zenon
<1>6. StoreTurn(r) /\ step'[r] = "called" /\ call'[r] = o
  BY <1>5, ReaderFacts, CallTurn, Zenon
<1>7. p \in Places /\ p \notin {"send", "save", "start", "done"} /\ (p = "merge" \/ p = "commit")
  BY <1>5, Zenon DEF Places
<1>8. SessionTurn(r) /\ pc'[r] = p /\ s'[r] = x /\ pending'[r] = pd
  <2>1. /\ todo' \in [Senders -> Seq(Boxes)] /\ plain' \subseteq Ids /\ accepted' \subseteq Ids
        /\ doubled' \subseteq Ids /\ r \in Clients
    BY <1>4, ReaderFacts, Zenon
  <2>2. QED
    BY <1>4, <1>5, <1>7, <2>1, OwnTurn, Zenon
<1>9. SessionInv(r)'
  BY <1>2, <1>8, Zenon DEF SessionInv
<1>10. PendingInv(r)'
  <2>1. pd.kind \in {"quit", "file"} /\ pd.to \in Boxes
    BY <1>3, Zenon
  <2>2. pc'[r] # "save"
    BY <1>7, <1>8, Zenon
  <2>3. QED
    BY <1>8, <2>1, <2>2, Zenon DEF PendingInv
<1>11. Asked(r)'
  <2>1. opt'[r] = opt[r]
    BY <1>4, Zenon
  <2>2. QED
    BY <1>5, <1>6, <1>7, <1>8, <2>1, Zenon DEF Asked
<1>12. CallInv(r)'
  BY <1>6, <1>7, <1>8, <1>11, ReaderFacts, NotBusy, Zenon DEF CallInv
<1>13. QED
  BY <1>6, <1>8, <1>9, <1>10, <1>12, ReaderFacts, CallerKeeps, Zenon

(* quit and file.                                                          *)
LEMMA QuitInv ==
  ASSUME Inv, NEW r \in Readers, Quit(r) \/ File(r)
  PROVE  Inv' /\ Turn(r)
<1>1. "quit" \in {"quit", "file"} /\ "file" \in {"quit", "file"} /\ Spool \in Boxes
      /\ FileTo \subseteq Boxes
  BY MailAssumption, Zenon
<1>2. CASE Quit(r)
  BY <1>1, <1>2, FinishInv, Zenon DEF Quit
<1>3. CASE File(r)
  <2>1. PICK b \in FileTo : Finish(r, "file", b)
    BY <1>3, Zenon DEF File
  <2>2. QED
    BY <1>1, <1>3, <2>1, FinishInv, Zenon DEF File
<1>4. QED
  BY <1>2, <1>3, Zenon

(* A finish that fails.                                                    *)
LEMMA FinishFailsInv ==
  ASSUME Inv, NEW r \in Readers, step[r] = "out", pc[r] \in {"merge", "commit"},
         FinishFails(r), doubled' \subseteq Ids
  PROVE  Inv' /\ Turn(r)
<1>1. /\ Heard(r) /\ pending' = [pending EXCEPT ![r] = Idle] /\ opt' = opt /\ todo' = todo
      /\ plain' = plain /\ accepted' = accepted
  BY Zenon DEF FinishFails, history
<1>2. SessionGood(s[r]) /\ CurrentOK(s[r])
  <2>1. Open(r)
    BY Zenon DEF Open
  <2>2. QED
    BY <2>1, ReaderFacts, Zenon DEF SessionInv
<1>3. "prompt" \in {"prompt", "done"} /\ "done" \in {"prompt", "done"} /\ "done" # "prompt"
  BY Zenon
<1>4. CASE End(r)
  <2>1. pc' = [pc EXCEPT ![r] = "done"] /\ s' = [s EXCEPT ![r] = NoSession]
    BY <1>4, Zenon DEF End
  <2>2. QED
    BY <1>1, <1>3, <2>1, NoSessionGood, BackInv, Zenon
<1>5. CASE pc' = [pc EXCEPT ![r] = "prompt"] /\ s' = s
  BY <1>1, <1>2, <1>3, <1>5, BackInv, Zenon
<1>6. QED
  BY <1>4, <1>5, Zenon DEF FinishFails

(* The messages to move to MBOX.                                           *)
LEMMA MovedTyped ==
  ASSUME NEW x, SessionGood(x), NEW o
  PROVE  /\ MovedEntries(x, o) \in Seq(Entry) /\ IdsOf(MovedEntries(x, o)) \subseteq Ids
         /\ \E at : Picks(MovedEntries(x, o), at, x.entries,
                          [i \in DOMAIN x.state |-> i \in Moved(x, o)], Len(x.original))
<1>1. x.entries \in [1 .. Len(x.original) -> Entry] /\ Len(x.original) \in Nat
  BY EntriesTyped, Zenon
<1>2. /\ MovedEntries(x, o) \in Seq(Entry)
      /\ \E at : Picks(MovedEntries(x, o), at, x.entries,
                       [i \in DOMAIN x.state |-> i \in Moved(x, o)], Len(x.original))
  BY <1>1, KeptPicks, Zenon DEF MovedEntries
<1>3. \A i \in DOMAIN MovedEntries(x, o) : MovedEntries(x, o)[i] \in Entry
  BY <1>2
<1>4. \A e \in Entry : e.id \in Ids
  BY Zenon DEF Entry
<1>5. QED
  BY <1>2, <1>3, <1>4, Zenon DEF IdsOf

(* The merge into MBOX returns.                                            *)
LEMMA MergeReturnsInv ==
  ASSUME Inv, NEW r \in Readers, MergeReturns(r)
  PROVE  Inv' /\ Turn(r)
<1>1. pc[r] = "merge" /\ step[r] = "out" /\ pc[r] \in {"merge", "commit"}
  BY Zenon DEF MergeReturns
<1>2. CASE FinishFails(r) /\ doubled' = doubled
  BY <1>1, <1>2, ReaderFacts, FinishFailsInv, Zenon
<1>3. CASE /\ Call(r, CommitCall(s[r], opt[r])) /\ pc' = [pc EXCEPT ![r] = "commit"]
           /\ UNCHANGED <<todo, opt, s, commands, pending, crashes, plain, doubled, history>>
  <2>1. /\ todo' = todo /\ opt' = opt /\ s' = s /\ pending' = pending /\ plain' = plain
        /\ doubled' = doubled /\ accepted' = accepted
    BY <1>3, Zenon DEF history
  <2>2. /\ StoreTurn(r) /\ step'[r] = "called" /\ call'[r] = CommitCall(s[r], opt[r])
    BY <1>3, ReaderFacts, CallTurn, Zenon
  <2>3. SessionTurn(r) /\ pc'[r] = "commit" /\ s'[r] = s[r] /\ pending'[r] = pending[r]
    <3>1. /\ todo' \in [Senders -> Seq(Boxes)] /\ plain' \subseteq Ids /\ accepted' \subseteq Ids
          /\ doubled' \subseteq Ids /\ r \in Clients /\ "commit" \in Places
      BY <2>1, ReaderFacts, NotBusy, Zenon
    <3>2. QED
      BY <1>3, <2>1, <3>1, OwnTurn, Zenon
  <2>4. SessionInv(r)'
    <3>1. Open(r)
      BY <1>1, Zenon DEF Open
    <3>2. QED
      BY <2>3, <3>1, ReaderFacts, Zenon DEF SessionInv
  <2>5. PendingInv(r)'
    <3>1. pending[r].kind \in {"quit", "file"} /\ pending[r].to \in Boxes
      BY <1>1, ReaderFacts, Zenon DEF PendingInv
    <3>2. pc'[r] # "save"
      BY <2>3, Zenon
    <3>3. QED
      BY <2>3, <3>1, <3>2, Zenon DEF PendingInv
  <2>6. CallInv(r)'
    <3>1. Asked(r)'
      BY <2>1, <2>2, <2>3, Zenon DEF Asked
    <3>2. QED
      BY <2>2, <2>3, <3>1, ReaderFacts, Zenon DEF CallInv
  <2>7. QED
    BY <2>2, <2>3, <2>4, <2>5, <2>6, ReaderFacts, CallerKeeps, ZenonT(30)
<1>4. QED
  BY <1>2, <1>3, Zenon DEF MergeReturns

(* A commit that fails.                                                    *)
LEMMA CommitFailsInv ==
  ASSUME Inv, NEW r \in Readers, CommitFails(r)
  PROVE  Inv' /\ Turn(r)
<1>1. /\ pc[r] \in {"merge", "commit"} /\ step[r] = "out" /\ FinishFails(r)
      /\ doubled' = doubled \cup MovedIds(r)
  BY Zenon DEF CommitFails
<1>2. MovedIds(r) \subseteq Ids
  BY ReaderFacts, MovedTyped, Zenon DEF MovedIds
<1>3. doubled' \subseteq Ids
  BY <1>1, <1>2, ReaderFacts, Zenon
<1>4. QED
  BY <1>1, <1>3, FinishFailsInv, Zenon

(* A commit that succeeds.                                                 *)
LEMMA CommitReturnsInv ==
  ASSUME Inv, NEW r \in Readers, CommitReturns(r)
  PROVE  Inv' /\ Turn(r)
<1>1. /\ pc[r] = "commit" /\ step[r] = "out" /\ Heard(r)
      /\ pending' = [pending EXCEPT ![r] = Idle] /\ opt' = opt /\ todo' = todo /\ plain' = plain
      /\ accepted' = accepted /\ doubled' = doubled
  BY Zenon DEF CommitReturns, history
<1>2. doubled' \subseteq Ids
  BY <1>1, ReaderFacts, Zenon
<1>3. "prompt" \in {"prompt", "done"} /\ "done" \in {"prompt", "done"} /\ "done" # "prompt"
  BY Zenon
<1>4. CASE End(r)
  <2>1. pc' = [pc EXCEPT ![r] = "done"] /\ s' = [s EXCEPT ![r] = NoSession]
    BY <1>4, Zenon DEF End
  <2>2. QED
    BY <1>1, <1>2, <1>3, <2>1, NoSessionGood, BackInv, Zenon
<1>5. CASE pc' = [pc EXCEPT ![r] = "prompt"] /\ s' = [s EXCEPT ![r] = Opened(pending[r].to)]
  <2>1. pending[r].to \in Boxes /\ box[pending[r].to] \in Seq(Entry)
    <3>1. pending[r].to \in Boxes
      BY <1>1, ReaderFacts, Zenon DEF PendingInv
    <3>2. box \in [Boxes -> Seq(Entry)]
      BY Zenon DEF Inv, StoreTyped
    <3>3. QED
      BY <3>1, <3>2, Zenon
  <2>2. SessionGood(Opened(pending[r].to)) /\ CurrentOK(Opened(pending[r].to))
    BY <2>1, OpenedGood, Zenon
  <2>3. QED
    BY <1>1, <1>2, <1>3, <1>5, <2>2, BackInv, Zenon
<1>6. CASE pc' = [pc EXCEPT ![r] = "prompt"] /\ s' = s
  <2>1. SessionGood(s[r]) /\ CurrentOK(s[r])
    <3>1. Open(r)
      BY <1>1, Zenon DEF Open
    <3>2. QED
      BY <3>1, ReaderFacts, Zenon DEF SessionInv
  <2>2. QED
    BY <1>1, <1>2, <1>3, <1>6, <2>1, BackInv, Zenon
<1>7. QED
  BY <1>4, <1>5, <1>6, ZenonT(30) DEF CommitReturns

(* The program starts, or its user leaves without a commit.                *)
LEMMA StartInv ==
  ASSUME Inv, NEW r \in Readers, Start(r) \/ ExitSession(r)
  PROVE  Inv' /\ Turn(r)
<1>1. /\ step[r] = "out" /\ UNCHANGED store /\ pending' = pending /\ opt' = opt /\ todo' = todo
      /\ plain' = plain /\ accepted' = accepted /\ doubled' = doubled
  BY Zenon DEF Start, ExitSession, AtPrompt, history
<1>2. doubled' \subseteq Ids
  BY <1>1, ReaderFacts, Zenon
<1>3. "prompt" \in {"prompt", "done"} /\ "done" \in {"prompt", "done"} /\ "done" # "prompt"
  BY Zenon
<1>4. CASE End(r)
  <2>1. pc' = [pc EXCEPT ![r] = "done"] /\ s' = [s EXCEPT ![r] = NoSession]
    BY <1>4, Zenon DEF End
  <2>2. QED
    BY <1>1, <1>2, <1>3, <2>1, NoSessionGood, BackInv, Zenon
<1>5. CASE pc' = [pc EXCEPT ![r] = "prompt"] /\ s' = [s EXCEPT ![r] = Opened(Spool)]
  <2>1. Spool \in Boxes /\ box[Spool] \in Seq(Entry)
    <3>1. Spool \in Boxes
      BY MailAssumption, Zenon
    <3>2. box \in [Boxes -> Seq(Entry)]
      BY Zenon DEF Inv, StoreTyped
    <3>3. QED
      BY <3>1, <3>2, Zenon
  <2>2. SessionGood(Opened(Spool)) /\ CurrentOK(Opened(Spool))
    BY <2>1, OpenedGood, Zenon
  <2>3. QED
    BY <1>1, <1>2, <1>3, <1>5, <2>2, BackInv, Zenon
<1>6. QED
  BY <1>4, <1>5, Zenon DEF Start, ExitSession

(* A process dies.                                                         *)
LEMMA CrashInv ==
  ASSUME Inv, NEW c \in Clients, Crash(c)
  PROVE  Inv' /\ Turn(c)
<1>1. /\ StoreCrash(c) /\ todo' = todo /\ opt' = opt /\ plain' = plain /\ accepted' = accepted
      /\ pc' = [pc EXCEPT ![c] = "done"]
  BY Zenon DEF Crash, End, history
<1>2. StoreTurn(c) /\ step'[c] = "dead"
  BY <1>1, CrashTurn, Zenon
<1>3. /\ SessionTyped /\ todo' \in [Senders -> Seq(Boxes)] /\ plain' \subseteq Ids
      /\ accepted' \subseteq Ids /\ doubled \subseteq Ids /\ "done" \in Places
  BY <1>1, NotBusy, Zenon DEF Inv, SessionTyped
<1>4. doubled' \subseteq Ids
  <2>1. c \in Readers => MovedIds(c) \subseteq Ids
    BY ReaderFacts, MovedTyped, Zenon DEF MovedIds
  <2>2. doubled' = IF c \in Readers /\ Moving(c) THEN doubled \cup MovedIds(c) ELSE doubled
    BY Zenon DEF Crash
  <2>3. QED
    BY <1>3, <2>1, <2>2, Zenon
<1>5. CASE c \in Readers
  <2>1. s' = [s EXCEPT ![c] = NoSession] /\ pending' = [pending EXCEPT ![c] = Idle]
    BY <1>5, Zenon DEF Crash, End
  <2>2. SessionTurn(c) /\ pc'[c] = "done" /\ s'[c] = NoSession
    BY <1>1, <1>3, <1>4, <1>5, <2>1, OwnTurn, Zenon
  <2>3. SessionInv(c)'
    <3>1. "done" \in {"start", "done"}
      BY Zenon
    <3>2. QED
      BY <2>2, <3>1, NoSessionGood, Zenon DEF SessionInv, Open
  <2>4. PendingInv(c)' /\ CallInv(c)'
    BY <1>2, <1>5, <2>2, ReaderFacts, NotBusy, Zenon DEF PendingInv, CallInv
  <2>5. QED
    BY <1>2, <2>2, <2>3, <2>4, CallerKeeps, Zenon
<1>6. CASE c \notin Readers
  <2>1. s' = s /\ pending' = pending
    BY <1>6, Zenon DEF Crash
  <2>2. SessionTurn(c) /\ pc'[c] = "done"
    BY <1>1, <1>3, <1>4, <2>1, OwnTurn, Zenon
  <2>3. CallInv(c)'
    BY <1>2, <1>6, <2>2, NotBusy, Zenon DEF CallInv
  <2>4. QED
    BY <1>2, <1>6, <2>2, <2>3, CallerKeeps, Zenon
<1>7. QED
  BY <1>5, <1>6, Zenon

----------------------------------------------------------------------------
(* What a rolled back append leaves.                                       *)
LEMMA TruncatedFacts ==
  ASSUME NEW S, NEW q \in Seq(S), q # <<>>
  PROVE  /\ Truncated(q) \in Seq(S) /\ Len(Truncated(q)) = Len(q) - 1
         /\ \A k \in 1 .. Len(q) - 1 : Truncated(q)[k] = q[k]
         /\ Len(q) \in Nat /\ Len(q) > 0 /\ DOMAIN q = 1 .. Len(q)
<1>1. Len(q) \in Nat /\ Len(q) > 0 /\ DOMAIN q = 1 .. Len(q)
  OBVIOUS
<1>2. QED
  BY <1>1 DEF Truncated

(* What arrived since a snapshot.                                          *)
LEMMA ArrivedFacts ==
  ASSUME NEW S, NEW old \in Seq(S), NEW q \in Seq(S), Len(q) >= Len(old)
  PROVE  /\ Arrived(old, q) \in Seq(S) /\ Len(Arrived(old, q)) = Len(q) - Len(old)
         /\ \A k \in 1 .. Len(q) - Len(old) : Arrived(old, q)[k] = q[Len(old) + k]
<1>1. PICK l \in Nat, m \in Nat : l = Len(old) /\ m = Len(q) /\ m >= l
  OBVIOUS
<1>2. /\ SubSeq(q, l + 1, m) \in Seq(S) /\ Len(SubSeq(q, l + 1, m)) = m - l
      /\ \A k \in 1 .. m - l : SubSeq(q, l + 1, m)[k] = q[l + k]
  BY <1>1, SMTT(30)
<1>3. QED
  BY <1>1, <1>2, Zenon DEF Arrived

(* Two mailboxes end to end.                                               *)
LEMMA ConcatFacts ==
  ASSUME NEW S, NEW p \in Seq(S), NEW q \in Seq(S)
  PROVE  /\ p \o q \in Seq(S) /\ Len(p \o q) = Len(p) + Len(q)
         /\ Len(p) \in Nat /\ Len(q) \in Nat
         /\ \A k \in 1 .. Len(p) : (p \o q)[k] = p[k]
         /\ \A k \in 1 .. Len(q) : (p \o q)[Len(p) + k] = q[k]
OBVIOUS

(* What the caller of each operation passes to it.                         *)
LEMMA AskedWhat ==
  ASSUME Inv, NEW c \in Clients, step[c] \in Busy
  PROVE  /\ call[c].box \in Boxes /\ box[call[c].box] \in Seq(Entry)
         /\ call[c].op = "append" =>
              /\ call[c].entry \in Entry
              /\ \/ c \in Senders /\ call[c].entry = Fresh(Mail[c])
                 \/ /\ c \in Readers /\ pc[c] = "save" /\ call[c].box = pending[c].to
                    /\ \E i \in pending[c].nums \ pending[c].left : call[c].entry = s[c].entries[i]
         /\ call[c].op = "merge" =>
              /\ call[c].entries \in Seq(Entry) /\ c \in Readers /\ pc[c] = "merge"
              /\ call[c].box = Mbox /\ call[c].entries = MovedEntries(s[c], opt[c])
         /\ call[c].op = "commit" =>
              /\ c \in Readers /\ pc[c] = "commit" /\ call[c].box = s[c].at
              /\ call[c].snapshot = s[c].original /\ call[c].updated = s[c].entries
              /\ call[c].keep = Keep(s[c], opt[c])
         /\ call[c].op \in {"append", "merge", "commit"}
<1>1. call[c].box \in Boxes /\ box[call[c].box] \in Seq(Entry)
  <2>1. call[c].box \in Boxes /\ box \in [Boxes -> Seq(Entry)]
    BY AskedTyped, Zenon DEF Inv, StoreTyped
  <2>2. QED
    BY <2>1, Zenon
<1>2. Asked(c)
  BY ZenonT(30) DEF Inv, CallInv
<1>3. CASE c \in Senders /\ \E b \in Boxes : call[c] = AppendMbox(b, Fresh(Mail[c]))
  <2>1. call[c].op = "append" /\ call[c].entry = Fresh(Mail[c])
    <3>1. PICK a, b, e : a = call[c] /\ e = Fresh(Mail[c]) /\ a = AppendMbox(b, e)
      BY <1>3, Zenon
    <3>2. a = AppendMbox(b, e)
      BY <3>1, Zenon
    <3>3. a.op = "append" /\ a.entry = e
      BY <3>2, Zenon DEF AppendMbox
    <3>4. QED
      BY <3>1, <3>3, Zenon
  <2>2. Mail[c] \in Ids
    BY <1>3, MailAssumption, Zenon
  <2>3. Fresh(Mail[c]) \in Entry
    BY <2>2, Zenon DEF Fresh, Entry
  <2>4. QED
    BY <1>1, <1>3, <2>1, <2>3, Zenon
<1>4. CASE /\ c \in Readers /\ pc[c] = "save"
           /\ \E i \in pending[c].nums \ pending[c].left :
                call[c] = AppendMbox(pending[c].to, s[c].entries[i])
  <2>1. PICK i \in pending[c].nums \ pending[c].left :
          call[c] = AppendMbox(pending[c].to, s[c].entries[i])
    BY <1>4, Zenon
  <2>2. /\ call[c].op = "append" /\ call[c].entry = s[c].entries[i]
        /\ call[c].box = pending[c].to
    <3>1. PICK a, b, e : a = call[c] /\ b = pending[c].to /\ e = s[c].entries[i]
      BY Zenon
    <3>2. a = AppendMbox(b, e)
      BY <2>1, <3>1, Zenon
    <3>3. a.op = "append" /\ a.box = b /\ a.entry = e
      BY <3>2, AppendFields, ZenonT(30)
    <3>4. QED
      BY <3>1, <3>3, Zenon
  <2>3. i \in Visible(s[c])
    BY <1>4, <2>1, ReaderFacts, Zenon DEF PendingInv
  <2>4. s[c].entries[i] \in Entry
    <3>1. /\ s[c].entries \in [1 .. Len(s[c].original) -> Entry]
          /\ i \in 1 .. Len(s[c].original)
      BY <1>4, <2>3, ReaderFacts, EntriesTyped, ZenonT(30)
    <3>2. QED
      BY <3>1, Zenon
  <2>5. QED
    BY <1>1, <1>4, <2>1, <2>2, <2>4, ZenonT(30)
<1>5. CASE /\ c \in Readers /\ pc[c] = "merge"
           /\ call[c] = MergeMbox(Mbox, MovedEntries(s[c], opt[c]), opt[c].append)
  <2>1. /\ call[c].op = "merge" /\ call[c].entries = MovedEntries(s[c], opt[c])
        /\ call[c].box = Mbox
    <3>1. PICK a, es, end :
             a = call[c] /\ es = MovedEntries(s[c], opt[c]) /\ end = opt[c].append
      BY Zenon
    <3>2. a = MergeMbox(Mbox, es, end)
      BY <1>5, <3>1, Zenon
    <3>3. a.op = "merge" /\ a.box = Mbox /\ a.entries = es
      BY <3>2, Zenon DEF MergeMbox
    <3>4. QED
      BY <3>1, <3>3, ZenonT(30)
  <2>2. MovedEntries(s[c], opt[c]) \in Seq(Entry)
    BY <1>5, ReaderFacts, MovedTyped, ZenonT(30)
  <2>3. QED
    BY <1>1, <1>5, <2>1, <2>2, Zenon
<1>6. CASE c \in Readers /\ pc[c] = "commit" /\ call[c] = CommitCall(s[c], opt[c])
  <2>1. /\ call[c].op = "commit" /\ call[c].box = s[c].at /\ call[c].snapshot = s[c].original
        /\ call[c].updated = s[c].entries /\ call[c].keep = Keep(s[c], opt[c])
    <3>1. PICK a, b, old, new, keep : /\ a = call[c] /\ b = s[c].at /\ old = s[c].original
                                      /\ new = s[c].entries /\ keep = Keep(s[c], opt[c])
      BY Zenon
    <3>2. a = CommitMbox(b, old, new, keep)
      BY <1>6, <3>1, Zenon DEF CommitCall
    <3>3. /\ a.op = "commit" /\ a.box = b /\ a.snapshot = old /\ a.updated = new
          /\ a.keep = keep
      BY <3>2, Zenon DEF CommitMbox
    <3>4. QED
      BY <3>1, <3>3, Zenon
  <2>2. QED
    BY <1>1, <1>6, <2>1, Zenon
<1>7. QED
  BY <1>2, <1>3, <1>4, <1>5, <1>6, ZenonT(30) DEF Asked

\* r holds the entries of p and of q and no others.
Joins(r, p, q) ==
  /\ r \in Seq(Entry)
  /\ \A k \in DOMAIN r : (\E i \in DOMAIN p : r[k] = p[i]) \/ (\E i \in DOMAIN q : r[k] = q[i])
  /\ \A i \in DOMAIN p : \E k \in DOMAIN r : r[k] = p[i]
  /\ \A i \in DOMAIN q : \E k \in DOMAIN r : r[k] = q[i]

(* Two sequences of entries end to end.                                    *)
LEMMA ConcatJoins ==
  ASSUME NEW p \in Seq(Entry), NEW q \in Seq(Entry)
  PROVE  Joins(p \o q, p, q)
<1>1. PICK l \in Nat, m \in Nat : l = Len(p) /\ m = Len(q)
  OBVIOUS
<1>2. PICK pq : pq = p \o q
  BY Zenon
<1>3. /\ pq \in Seq(Entry) /\ DOMAIN pq = 1 .. l + m /\ DOMAIN p = 1 .. l /\ DOMAIN q = 1 .. m
      /\ \A k \in 1 .. l : pq[k] = p[k]
      /\ \A k \in 1 .. m : pq[l + k] = q[k]
  BY <1>1, <1>2, SMTT(30)
<1>4. ASSUME NEW k \in 1 .. l + m
      PROVE  \/ \E i \in 1 .. l : pq[k] = p[i]
             \/ \E i \in 1 .. m : pq[k] = q[i]
  <2>1. CASE k <= l
    BY <1>3, <2>1, SMTT(30)
  <2>2. CASE ~(k <= l)
    <3>1. k - l \in 1 .. m /\ l + (k - l) = k
      BY <2>2, SMTT(30)
    <3>2. pq[k] = q[k - l]
      BY <1>3, <3>1, Zenon
    <3>3. QED
      BY <3>1, <3>2, Zenon
  <2>3. QED
    BY <2>1, <2>2, Zenon
<1>5. \A i \in 1 .. l : i \in 1 .. l + m
  OBVIOUS
<1>6. \A i \in 1 .. m : l + i \in 1 .. l + m
  OBVIOUS
<1>7. QED
  BY <1>2, <1>3, <1>4, <1>5, <1>6, Zenon DEF Joins

(* The whole messages of both are in the result.                           *)
LEMMA JoinsWhole ==
  ASSUME NEW r, NEW p, NEW q, Joins(r, p, q)
  PROVE  WholeIn(p) \subseteq WholeIn(r) /\ WholeIn(q) \subseteq WholeIn(r)
<1>1. ASSUME NEW e \in DOMAIN p, p[e].whole PROVE p[e].id \in WholeIn(r)
  <2>1. PICK k \in DOMAIN r : r[k] = p[e]
    BY <1>1, Zenon DEF Joins
  <2>2. QED
    BY <1>1, <2>1, Zenon DEF WholeIn
<1>2. ASSUME NEW e \in DOMAIN q, q[e].whole PROVE q[e].id \in WholeIn(r)
  <2>1. PICK k \in DOMAIN r : r[k] = q[e]
    BY <1>2, Zenon DEF Joins
  <2>2. QED
    BY <1>2, <2>1, Zenon DEF WholeIn
<1>3. WholeIn(p) \subseteq WholeIn(r)
  BY <1>1, Zenon DEF WholeIn
<1>4. WholeIn(q) \subseteq WholeIn(r)
  BY <1>2, Zenon DEF WholeIn
<1>5. QED
  BY <1>3, <1>4, Zenon

(* What a merge puts in MBOX: what was there and what was moved.           *)
LEMMA MergedJoins ==
  ASSUME NEW old \in Seq(Entry), NEW es \in Seq(Entry), NEW atEnd
  PROVE  Joins(Merged(old, es, atEnd), old, es)
<1>1. CASE atEnd
  BY <1>1, ConcatJoins, Zenon DEF Merged
<1>2. CASE ~atEnd
  <2>1. Joins(Merged(old, es, atEnd), es, old)
    BY <1>2, ConcatJoins, Zenon DEF Merged
  <2>2. QED
    BY <2>1, Zenon DEF Joins
<1>3. QED
  BY <1>1, <1>2, Zenon

(* The ids of a mailbox are ids.                                           *)
LEMMA WholeTyped ==
  ASSUME NEW contents \in [Boxes -> Seq(Entry)]
  PROVE  Whole(contents) \subseteq Ids
<1>1. \A b \in Boxes : \A i \in DOMAIN contents[b] : contents[b][i] \in Entry
  <2> TAKE b \in Boxes
  <2>1. contents[b] \in Seq(Entry)
    BY Zenon
  <2>2. QED
    BY <2>1, SMTT(30)
<1>2. \A e \in Entry : e.id \in Ids
  BY Zenon DEF Entry
<1>3. \A b \in Boxes : WholeIn(contents[b]) \subseteq Ids
  BY <1>1, <1>2, Zenon DEF WholeIn
<1>4. QED
  BY <1>3, Zenon DEF Whole

\* What every step of the store leaves alone, and the mailboxes it may change.
StoreFrame(c) ==
  /\ UNCHANGED session /\ accepted' = accepted \cup Whole(box')
  /\ box' \in [Boxes -> Seq(Entry)] /\ \A b \in Boxes : lock[b] # c => box'[b] = box[b]

(* The session side of a step of the store.                                *)
LEMMA StoreSide ==
  ASSUME Inv, NEW c \in Clients, StoreFrame(c)
  PROVE  /\ SessionTyped' /\ OnlyAt(pc, pc', c) /\ OnlyAt(s, s', c)
         /\ OnlyAt(pending, pending', c) /\ opt' = opt /\ pc' = pc /\ s' = s /\ pending' = pending
         /\ c \in Readers => SessionInv(c)' /\ PendingInv(c)'
<1>1. /\ pc' = pc /\ s' = s /\ pending' = pending /\ opt' = opt /\ todo' = todo /\ plain' = plain
      /\ doubled' = doubled /\ accepted' = accepted \cup Whole(box')
      /\ box' \in [Boxes -> Seq(Entry)]
  BY Zenon DEF StoreFrame, session
<1>2. Whole(box') \subseteq Ids
  BY <1>1, WholeTyped, Zenon
<1>3. SessionTyped
  BY Zenon DEF Inv
<1>4. SessionTyped'
  BY <1>1, <1>2, <1>3, Zenon DEF SessionTyped
<1>5. c \in Readers => SessionInv(c)' /\ PendingInv(c)'
  BY <1>1, Zenon DEF Inv, SessionInv, PendingInv, Open
<1>6. OnlyAt(pc, pc', c) /\ OnlyAt(s, s', c) /\ OnlyAt(pending, pending', c)
  BY <1>1, ExceptOnly, Zenon
<1>7. QED
  BY <1>1, <1>4, <1>5, <1>6, ZenonT(30)

(* An operation returns.                                                   *)
LEMMA ReturnInv ==
  ASSUME Inv, NEW c \in Clients, step[c] \in Busy, NEW result \in {"ok", "error"},
         Return(c, result), StoreFrame(c),
         \/ lock' = lock
         \/ step[c] \in Holding /\ lock' = [lock EXCEPT ![call[c].box] = Free]
  PROVE  Inv' /\ Turn(c)
<1>1. /\ step' = [step EXCEPT ![c] = "out"] /\ call' = [call EXCEPT ![c] = NoCall]
      /\ draft' = [draft EXCEPT ![c] = <<>>] /\ answer' = [answer EXCEPT ![c] = result]
  BY Zenon DEF Return
<1>2. /\ lock \in [Boxes -> Clients \cup {Free}] /\ step \in [Clients -> Steps]
      /\ DOMAIN step = Clients /\ DOMAIN call = Clients /\ draft \in [Clients -> Seq(Entry)]
      /\ answer \in [Clients -> {"none", "ok", "error"}]
  BY Zenon DEF Inv, StoreTyped
<1>3. /\ step' \in [Clients -> Steps] /\ draft' \in [Clients -> Seq(Entry)]
      /\ answer' \in [Clients -> {"none", "ok", "error"}]
  BY <1>1, <1>2, SMTT(30) DEF Steps
<1>4. call[c].box \in Boxes
  BY AskedTyped, Zenon
<1>5. lock' \in [Boxes -> Clients \cup {Free}]
  BY <1>2, <1>4, Zenon
<1>6. /\ OnlyAt(step, step', c) /\ OnlyAt(call, call', c) /\ OnlyAt(draft, draft', c)
      /\ OnlyAt(answer, answer', c)
      /\ step'[c] = "out" /\ DOMAIN call' = Clients
  BY <1>1, <1>2, ExceptOnly, Zenon
<1>7. StoreTyped'
  BY <1>3, <1>5, <1>6, Zenon DEF StoreTyped, StoreFrame
<1>8. \A b \in Boxes : lock[b] \in Clients \ {c} => lock'[b] = lock[b]
  <2>1. step[c] \in Holding => lock[call[c].box] = c
    BY Zenon DEF Inv, StepInv
  <2>2. QED
    BY <1>2, <2>1, Zenon
<1>9. Turn(c)
  BY <1>6, <1>8, StoreSide, Zenon DEF Turn, StoreFrame
<1>10. CallInv(c)' /\ StepInv(c)'
  <2>1. step'[c] # "dead" /\ step'[c] # "torn" /\ step'[c] # "loaded" /\ step'[c] \notin Busy
        /\ step'[c] \notin Holding
    BY <1>6, NotBusy, Zenon
  <2>2. pc'[c] = pc[c]
    BY StoreSide, Zenon
  <2>3. QED
    BY <2>1, <2>2, ZenonT(30) DEF Inv, CallInv, StepInv
<1>11. QED
  BY <1>7, <1>9, <1>10, StoreSide, TurnKeeps, ZenonT(30)

(* An operation goes on.                                                   *)
LEMMA AdvanceInv ==
  ASSUME Inv, NEW c \in Clients, step[c] \in Busy, NEW st \in Holding,
         step' = [step EXCEPT ![c] = st], call' = call, answer' = answer, StoreFrame(c),
         draft' \in [Clients -> Seq(Entry)], OnlyAt(draft, draft', c),
         \/ step[c] \in Holding /\ lock' = lock
         \/ lock[call[c].box] = Free /\ lock' = [lock EXCEPT ![call[c].box] = c],
         st = "torn" =>
           /\ call[c].op = "append" /\ box'[call[c].box] # <<>>
           /\ ~box'[call[c].box][Len(box'[call[c].box])].whole
           /\ box'[call[c].box][Len(box'[call[c].box])].id = call[c].entry.id
           /\ box'[call[c].box][Len(box'[call[c].box])].status = call[c].entry.status,
         st = "loaded" =>
           \/ /\ call[c].op = "merge"
              /\ draft'[c] = Merged(box'[call[c].box], call[c].entries, call[c].atEnd)
           \/ /\ call[c].op = "commit"
              /\ Unchanged(call[c].snapshot, box'[call[c].box])
              /\ draft'[c] = Kept(call[c].updated, call[c].keep)
                               \o Arrived(call[c].snapshot, box'[call[c].box])
  PROVE  Inv' /\ Turn(c)
<1>1. /\ lock \in [Boxes -> Clients \cup {Free}] /\ step \in [Clients -> Steps]
      /\ DOMAIN step = Clients /\ DOMAIN call = Clients
      /\ answer \in [Clients -> {"none", "ok", "error"}]
  BY Zenon DEF Inv, StoreTyped
<1>2. call[c].box \in Boxes
  BY AskedTyped, ZenonT(30)
<1>3. st \in Steps /\ st # "dead" /\ st \in Busy
  BY ZenonT(30) DEF Steps, Holding, Busy
<1>4. step' \in [Clients -> Steps]
  BY <1>1, <1>3, ZenonT(30)
<1>5. /\ lock' \in [Boxes -> Clients \cup {Free}] /\ lock'[call[c].box] = c
      /\ \A b \in Boxes : lock[b] \in Clients \ {c} => lock'[b] = lock[b]
  <2>1. CASE step[c] \in Holding /\ lock' = lock
    BY <1>1, <2>1, ZenonT(30) DEF Inv, StepInv
  <2>2. CASE lock[call[c].box] = Free /\ lock' = [lock EXCEPT ![call[c].box] = c]
    BY <1>1, <1>2, <2>2, MailAssumption, Zenon
  <2>3. QED
    BY <2>1, <2>2, Zenon
<1>6. OnlyAt(step, step', c) /\ OnlyAt(call, call', c) /\ OnlyAt(answer, answer', c)
      /\ step'[c] = st
  BY <1>1, ExceptOnly, Zenon
<1>7. StoreTyped'
  BY <1>1, <1>4, <1>5, ZenonT(30) DEF StoreTyped, StoreFrame
<1>8. Turn(c)
  BY <1>5, <1>6, StoreSide, Zenon DEF Turn, StoreFrame
<1>9. StepInv(c)'
  BY <1>5, <1>6, Zenon DEF StepInv
<1>10. CallInv(c)'
  <2>1. CallInv(c) /\ Asked(c)
    BY Zenon DEF Inv, CallInv
  <2>2. Asked(c)'
    BY <2>1, StoreSide, ZenonT(30) DEF Asked
  <2>3. QED
    BY <1>3, <1>6, <2>1, <2>2, StoreSide, ZenonT(30) DEF CallInv
<1>11. QED
  BY <1>7, <1>8, <1>9, <1>10, StoreSide, TurnKeeps, Zenon

(* An operation that writes its own mailbox, or none.                      *)
LEMMA Framed ==
  ASSUME Inv, NEW c \in Clients, StoreWorks(c),
         \/ box' = box
         \/ /\ step[c] \in Holding
            /\ \E v \in Seq(Entry) : box' = [box EXCEPT ![call[c].box] = v]
  PROVE  StoreFrame(c)
<1>1. UNCHANGED session /\ accepted' = accepted \cup Whole(box')
  BY Zenon DEF StoreWorks
<1>2. box \in [Boxes -> Seq(Entry)]
  BY Zenon DEF Inv, StoreTyped
<1>3. CASE box' = box
  BY <1>1, <1>2, <1>3, Zenon DEF StoreFrame
<1>4. CASE step[c] \in Holding /\ \E v \in Seq(Entry) : box' = [box EXCEPT ![call[c].box] = v]
  <2>1. PICK v \in Seq(Entry) : box' = [box EXCEPT ![call[c].box] = v]
    BY <1>4, Zenon
  <2>2. lock[call[c].box] = c
    BY <1>4, Zenon DEF Inv, StepInv
  <2>3. box' \in [Boxes -> Seq(Entry)]
    BY <1>2, <2>1, Zenon
  <2>4. \A b \in Boxes : lock[b] # c => box'[b] = box[b]
    BY <1>2, <2>1, <2>2, SMTT(30)
  <2>5. QED
    BY <1>1, <2>3, <2>4, ZenonT(30) DEF StoreFrame
<1>5. QED
  BY <1>3, <1>4, Zenon

(* The operations that return, but for the append that rolls back.         *)
LEMMA ReturningInv ==
  ASSUME Inv, NEW c \in Clients, StoreWorks(c),
         \/ AcquireBusy(c) \/ FailUntouched(c) \/ CloseFails(c) \/ CommitRefused(c) \/ Succeed(c)
  PROVE  Inv' /\ Turn(c) /\ box' = box /\ step'[c] = "out"
<1>1. box' = box
  BY Zenon DEF AcquireBusy, FailUntouched, CloseFails, CommitRefused, Succeed
<1>2. StoreFrame(c)
  BY <1>1, Framed, ZenonT(30)
<1>3. step[c] \in Busy
  BY Zenon DEF AcquireBusy, FailUntouched, CloseFails, CommitRefused, Succeed, Busy, Holding
<1>4. PICK result \in {"ok", "error"} :
        /\ Return(c, result)
        /\ \/ lock' = lock
           \/ step[c] \in Holding /\ lock' = [lock EXCEPT ![call[c].box] = Free]
  <2>1. CASE AcquireBusy(c)
    BY <2>1, Zenon DEF AcquireBusy
  <2>2. CASE Succeed(c)
    BY <2>2, Zenon DEF Succeed, UnlockAndReturn, Holding
  <2>3. CASE FailUntouched(c) \/ CloseFails(c) \/ CommitRefused(c)
    BY <2>3, Zenon DEF FailUntouched, CloseFails, CommitRefused, UnlockAndReturn, Holding
  <2>4. QED
    BY <2>1, <2>2, <2>3, Zenon
<1>5. Inv' /\ Turn(c)
  BY <1>2, <1>3, <1>4, ReturnInv, Zenon
<1>6. step'[c] = "out"
  <2>1. step' = [step EXCEPT ![c] = "out"] /\ DOMAIN step = Clients
    BY <1>4, Zenon DEF Return, Inv, StoreTyped
  <2>2. QED
    BY <2>1, Zenon
<1>7. QED
  BY <1>1, <1>5, <1>6, Zenon

(* The lock file is made.                                                  *)
LEMMA AcquireInv ==
  ASSUME Inv, NEW c \in Clients, StoreWorks(c), Acquire(c)
  PROVE  Inv' /\ Turn(c) /\ box' = box
<1>1. /\ step[c] = "called" /\ lock[call[c].box] = Free /\ step' = [step EXCEPT ![c] = "locked"]
      /\ lock' = [lock EXCEPT ![call[c].box] = c] /\ box' = box /\ call' = call /\ draft' = draft
      /\ answer' = answer
  BY Zenon DEF Acquire
<1>2. StoreFrame(c)
  BY <1>1, Framed, Zenon
<1>3. /\ step[c] \in Busy /\ "locked" \in Holding /\ "locked" # "torn" /\ "locked" # "loaded"
  BY <1>1, Zenon DEF Busy, Holding
<1>4. draft' \in [Clients -> Seq(Entry)] /\ OnlyAt(draft, draft', c)
  BY <1>1, ExceptOnly, Zenon DEF Inv, StoreTyped
<1>5. QED
  BY <1>1, <1>2, <1>3, <1>4, AdvanceInv, ZenonT(30)

(* An append writes.                                                       *)
LEMMA AppendBeginsInv ==
  ASSUME Inv, NEW c \in Clients, StoreWorks(c), AppendBegins(c)
  PROVE  Inv' /\ Turn(c)
<1>1. /\ step[c] = "locked" /\ call[c].op = "append" /\ step' = [step EXCEPT ![c] = "torn"]
      /\ box' = [box EXCEPT ![call[c].box] = Append(@, [call[c].entry EXCEPT !.whole = FALSE])]
      /\ lock' = lock /\ call' = call /\ draft' = draft /\ answer' = answer
  BY Zenon DEF AppendBegins
<1>2. step[c] \in Busy /\ step[c] \in Holding /\ "torn" \in Holding /\ "torn" # "loaded"
  BY <1>1, Zenon DEF Busy, Holding
<1>3. /\ call[c].box \in Boxes /\ box[call[c].box] \in Seq(Entry) /\ call[c].entry \in Entry
  BY <1>1, <1>2, AskedWhat, Zenon
<1>4. PICK e : e = [call[c].entry EXCEPT !.whole = FALSE]
  BY Zenon
<1>5. e \in Entry /\ ~e.whole /\ e.id = call[c].entry.id /\ e.status = call[c].entry.status
  BY <1>3, <1>4, Zenon DEF Entry
<1>6. PICK v : v = Append(box[call[c].box], e)
  BY Zenon
<1>7. v \in Seq(Entry) /\ v # <<>> /\ v[Len(v)] = e
  BY <1>3, <1>5, <1>6, SMTT(30)
<1>8. box' = [box EXCEPT ![call[c].box] = v]
  BY <1>1, <1>4, <1>6, Zenon
<1>9. box'[call[c].box] = v
  BY <1>3, <1>8, Zenon DEF Inv, StoreTyped
<1>10. StoreFrame(c)
  BY <1>2, <1>7, <1>8, Framed, Zenon
<1>11. draft' \in [Clients -> Seq(Entry)] /\ OnlyAt(draft, draft', c)
  BY <1>1, ExceptOnly, ZenonT(30) DEF Inv, StoreTyped
<1>12. QED
  BY <1>1, <1>2, <1>5, <1>7, <1>9, <1>10, <1>11, AdvanceInv, Zenon

(* An append completes, or is rolled back.                                 *)
LEMMA TornEnds ==
  ASSUME Inv, NEW c \in Clients, StoreWorks(c), AppendEnds(c) \/ AppendRollsBack(c)
  PROVE  /\ Inv' /\ Turn(c) /\ call[c].box \in Boxes /\ box[call[c].box] \in Seq(Entry)
         /\ box[call[c].box] # <<>> /\ call[c].op = "append" /\ call[c].entry \in Entry
         /\ box'[call[c].box] = Truncated(box[call[c].box])
            \/ box'[call[c].box] = Append(Truncated(box[call[c].box]), call[c].entry)
<1>1. step[c] = "torn"
  BY Zenon DEF AppendEnds, AppendRollsBack
<1>2. step[c] \in Busy /\ step[c] \in Holding /\ "written" \in Holding
      /\ "written" # "torn" /\ "written" # "loaded"
  BY <1>1, Zenon DEF Busy, Holding
<1>3. call[c].op = "append" /\ box[call[c].box] # <<>>
  BY <1>1, Zenon DEF Inv, StepInv
<1>4. call[c].box \in Boxes /\ box[call[c].box] \in Seq(Entry) /\ call[c].entry \in Entry
  BY <1>2, <1>3, AskedWhat, Zenon
<1>5. PICK t : t = Truncated(box[call[c].box])
  BY Zenon
<1>6. t \in Seq(Entry)
  BY <1>3, <1>4, <1>5, TruncatedFacts, Zenon
<1>7. PICK v : v = Append(t, call[c].entry)
  BY Zenon
<1>8. v \in Seq(Entry)
  BY <1>4, <1>6, <1>7, AppendFacts, Zenon
<1>9. CASE AppendEnds(c)
  <2>1. /\ box' = [box EXCEPT ![call[c].box] = v] /\ step' = [step EXCEPT ![c] = "written"]
        /\ lock' = lock /\ call' = call /\ draft' = draft /\ answer' = answer
    BY <1>5, <1>7, <1>9, Zenon DEF AppendEnds
  <2>2. StoreFrame(c)
    BY <1>2, <1>8, <2>1, Framed, ZenonT(30)
  <2>3. draft' \in [Clients -> Seq(Entry)] /\ OnlyAt(draft, draft', c)
    BY <2>1, ExceptOnly, Zenon DEF Inv, StoreTyped
  <2>4. Inv' /\ Turn(c)
    BY <1>2, <2>1, <2>2, <2>3, AdvanceInv, Zenon
  <2>5. box'[call[c].box] = v
    BY <1>4, <2>1, Zenon DEF Inv, StoreTyped
  <2>6. QED
    BY <1>3, <1>4, <1>5, <1>7, <2>4, <2>5, ZenonT(30)
<1>10. CASE AppendRollsBack(c)
  <2>1. /\ box' = [box EXCEPT ![call[c].box] = t] /\ Return(c, "error")
        /\ lock' = [lock EXCEPT ![call[c].box] = Free]
    BY <1>5, <1>10, Zenon DEF AppendRollsBack, UnlockAndReturn
  <2>2. StoreFrame(c)
    BY <1>2, <1>6, <2>1, Framed, Zenon
  <2>3. "error" \in {"ok", "error"}
    BY Zenon
  <2>4. Inv' /\ Turn(c)
    BY <1>2, <2>1, <2>2, <2>3, ReturnInv, Zenon
  <2>5. box'[call[c].box] = t
    BY <1>4, <2>1, Zenon DEF Inv, StoreTyped
  <2>6. QED
    BY <1>3, <1>4, <1>5, <2>4, <2>5, ZenonT(30)
<1>11. QED
  BY <1>9, <1>10, Zenon

(* A merge or a commit reads its mailbox.                                  *)
LEMMA ReadsInv ==
  ASSUME Inv, NEW c \in Clients, StoreWorks(c), MergeReads(c) \/ CommitReads(c)
  PROVE  Inv' /\ Turn(c) /\ box' = box
<1>1. /\ step[c] = "locked" /\ step' = [step EXCEPT ![c] = "loaded"] /\ box' = box
      /\ lock' = lock /\ call' = call /\ answer' = answer
  BY Zenon DEF MergeReads, CommitReads
<1>2. /\ step[c] \in Busy /\ step[c] \in Holding /\ "loaded" \in Holding /\ "loaded" # "torn"
  BY <1>1, Zenon DEF Busy, Holding
<1>3. StoreFrame(c)
  BY <1>1, Framed, Zenon
<1>4. draft \in [Clients -> Seq(Entry)] /\ DOMAIN draft = Clients
  BY Zenon DEF Inv, StoreTyped
<1>5. call[c].box \in Boxes /\ box[call[c].box] \in Seq(Entry)
  BY <1>2, AskedWhat, ZenonT(30)
<1>6. PICK v \in Seq(Entry) :
        /\ draft' = [draft EXCEPT ![c] = v]
        /\ \/ /\ call[c].op = "merge"
              /\ v = Merged(box[call[c].box], call[c].entries, call[c].atEnd)
           \/ /\ call[c].op = "commit" /\ Unchanged(call[c].snapshot, box[call[c].box])
              /\ v = Kept(call[c].updated, call[c].keep)
                       \o Arrived(call[c].snapshot, box[call[c].box])
  <2>1. CASE MergeReads(c)
    <3>1. PICK v : v = Merged(box[call[c].box], call[c].entries, call[c].atEnd)
      BY Zenon
    <3>2. call[c].op = "merge" /\ draft' = [draft EXCEPT ![c] = v]
      BY <2>1, <3>1, Zenon DEF MergeReads
    <3>3. call[c].entries \in Seq(Entry)
      BY <1>2, <3>2, AskedWhat, Zenon
    <3>4. v \in Seq(Entry)
      BY <1>5, <3>1, <3>3, MergedJoins, Zenon DEF Joins
    <3>5. QED
      BY <3>1, <3>2, <3>4, Zenon
  <2>2. CASE CommitReads(c)
    <3>1. PICK v : v = Kept(call[c].updated, call[c].keep)
                         \o Arrived(call[c].snapshot, box[call[c].box])
      BY Zenon
    <3>2. /\ call[c].op = "commit" /\ draft' = [draft EXCEPT ![c] = v]
          /\ Unchanged(call[c].snapshot, box[call[c].box])
      BY <2>2, <3>1, Zenon DEF CommitReads
    <3>3. /\ c \in Readers /\ call[c].snapshot = s[c].original /\ call[c].updated = s[c].entries
      BY <1>2, <3>2, AskedWhat, Zenon
    <3>4. /\ call[c].snapshot \in Seq(Entry) /\ Len(call[c].snapshot) \in Nat
          /\ call[c].updated \in [1 .. Len(call[c].snapshot) -> Entry]
      BY <3>3, ReaderFacts, EntriesTyped, Zenon
    <3>5. Kept(call[c].updated, call[c].keep) \in Seq(Entry)
      BY <3>4, KeptPicks, Zenon
    <3>6. Arrived(call[c].snapshot, box[call[c].box]) \in Seq(Entry)
      BY <1>5, <3>2, <3>4, ArrivedFacts, Zenon DEF Unchanged
    <3>7. v \in Seq(Entry)
      BY <3>1, <3>5, <3>6, ConcatFacts, ZenonT(30)
    <3>8. QED
      BY <3>1, <3>2, <3>7, Zenon
  <2>3. QED
    BY <2>1, <2>2, Zenon
<1>7. draft' \in [Clients -> Seq(Entry)]
  BY <1>4, <1>6, Zenon
<1>8. OnlyAt(draft, draft', c) /\ draft'[c] = v
  BY <1>4, <1>6, ExceptOnly, Zenon
<1>9. \/ /\ call[c].op = "merge"
         /\ draft'[c] = Merged(box'[call[c].box], call[c].entries, call[c].atEnd)
      \/ /\ call[c].op = "commit"
         /\ Unchanged(call[c].snapshot, box'[call[c].box])
         /\ draft'[c] = Kept(call[c].updated, call[c].keep)
                          \o Arrived(call[c].snapshot, box'[call[c].box])
  BY <1>1, <1>6, <1>8, Zenon
<1>10. QED
  BY <1>1, <1>2, <1>3, <1>7, <1>8, <1>9, AdvanceInv, Zenon

(* The rename.                                                             *)
LEMMA ReplaceInv ==
  ASSUME Inv, NEW c \in Clients, StoreWorks(c), Replace(c)
  PROVE  Inv' /\ Turn(c) /\ call[c].box \in Boxes /\ box'[call[c].box] = draft[c]
<1>1. /\ step[c] = "loaded" /\ step' = [step EXCEPT ![c] = "written"]
      /\ box' = [box EXCEPT ![call[c].box] = draft[c]]
      /\ lock' = lock /\ call' = call /\ draft' = draft /\ answer' = answer
  BY Zenon DEF Replace
<1>2. step[c] \in Busy /\ step[c] \in Holding /\ "written" \in Holding
      /\ "written" # "torn" /\ "written" # "loaded"
  BY <1>1, Zenon DEF Busy, Holding
<1>3. draft \in [Clients -> Seq(Entry)] /\ draft[c] \in Seq(Entry)
  BY Zenon DEF Inv, StoreTyped
<1>4. StoreFrame(c)
  BY <1>1, <1>2, <1>3, Framed, Zenon
<1>5. draft' \in [Clients -> Seq(Entry)] /\ OnlyAt(draft, draft', c)
  BY <1>1, <1>3, ExceptOnly, Zenon
<1>6. Inv' /\ Turn(c)
  BY <1>1, <1>2, <1>4, <1>5, AdvanceInv, Zenon
<1>7. call[c].box \in Boxes
  BY <1>2, AskedTyped, Zenon
<1>8. box'[call[c].box] = draft[c]
  BY <1>1, <1>7, Zenon DEF Inv, StoreTyped
<1>9. QED
  BY <1>6, <1>7, <1>8, Zenon

(* The store keeps the invariant.                                          *)
LEMMA StoreWorksInv ==
  ASSUME Inv, NEW c \in Clients, StoreWorks(c)
  PROVE  Inv' /\ Turn(c)
<1>1. StoreStep(c)
  BY Zenon DEF StoreWorks
<1>2. QED
  BY <1>1, AcquireInv, ReturningInv, AppendBeginsInv, TornEnds, ReadsInv, ReplaceInv, Zenon
     DEF StoreStep

----------------------------------------------------------------------------
(* The invariant holds initially.                                          *)
LEMMA InvInit ==
  Init => Inv
<1> SUFFICES ASSUME Init PROVE Inv
  BY Zenon
<1>1. PICK x \in Scenes :
        /\ StoreInit(x.boxes) /\ todo = x.route
        /\ pc = [c \in Clients |-> IF c \in Senders THEN "send"
                                   ELSE IF c \in x.readers THEN "start" ELSE "done"]
        /\ opt = x.options /\ s = [r \in Readers |-> NoSession]
        /\ pending = [r \in Readers |-> Idle] /\ plain = {} /\ purged = {} /\ doubled = {}
        /\ accepted = Whole(x.boxes)
  BY Zenon DEF Init
<1>2. /\ x.boxes \in [Boxes -> Seq(Entry)] /\ x.route \in [Senders -> Seq(Boxes)]
      /\ x.options \in [Readers -> Settings]
  BY MailAssumption, Zenon
<1>3. /\ box = x.boxes /\ lock = [b \in Boxes |-> Free] /\ call = [c \in Clients |-> NoCall]
      /\ step = [c \in Clients |-> "out"] /\ draft = [c \in Clients |-> <<>>]
      /\ answer = [c \in Clients |-> "none"]
  BY <1>1, Zenon DEF StoreInit
<1>4. StoreTyped
  <2>1. /\ step \in [Clients -> Steps] /\ draft \in [Clients -> Seq(Entry)]
        /\ answer \in [Clients -> {"none", "ok", "error"}]
        /\ lock \in [Boxes -> Clients \cup {Free}] /\ DOMAIN call = Clients
    BY <1>3, SMTT(30) DEF Steps
  <2>2. QED
    BY <1>2, <1>3, <2>1, Zenon DEF StoreTyped
<1>5. SessionTyped
  <2>1. pc \in [Clients -> Places] /\ DOMAIN s = Readers /\ DOMAIN pending = Readers
    BY <1>1, Zenon DEF Places
  <2>2. accepted \subseteq Ids
    BY <1>1, <1>2, WholeTyped, Zenon
  <2>3. QED
    BY <1>1, <1>2, <2>1, <2>2, ZenonT(30) DEF SessionTyped
<1>6. ASSUME NEW c \in Clients PROVE CallInv(c) /\ StepInv(c)
  <2>1. step[c] = "out" /\ step[c] \notin Busy /\ step[c] \notin Holding /\ step[c] # "dead"
        /\ step[c] # "torn" /\ step[c] # "loaded"
    BY <1>3, NotBusy, Zenon
  <2>2. /\ c \in Senders => pc[c] \in {"send", "done"}
        /\ c \in Readers => pc[c] # "send"
    BY <1>1, MailAssumption, Zenon
  <2>3. QED
    BY <2>1, <2>2, Zenon DEF CallInv, StepInv
<1>7. ASSUME NEW r \in Readers PROVE SessionInv(r) /\ PendingInv(r)
  <2>1. s[r] = NoSession /\ r \in Clients /\ r \notin Senders
    BY <1>1, MailAssumption, Zenon
  <2>2. pc[r] \in {"start", "done"}
    BY <1>1, <2>1, Zenon
  <2>3. SessionInv(r)
    BY <2>1, <2>2, NoSessionGood, Zenon DEF SessionInv, Open
  <2>4. PendingInv(r)
    BY <2>2, Zenon DEF PendingInv
  <2>5. QED
    BY <2>3, <2>4, Zenon
<1>8. QED
  BY <1>4, <1>5, <1>6, <1>7, Zenon DEF Inv

(* Every step keeps it.                                                    *)
LEMMA InvNext ==
  ASSUME Inv, [Next]_vars
  PROVE  Inv'
<1>1. ASSUME NEW r \in Readers, ReaderStep(r) PROVE Inv'
  BY <1>1, StartInv, CommandInv, SaveInv, SaveAppendInv, SaveDoneInv, WriteInv, QuitInv,
     MergeReturnsInv, CommitFailsInv, CommitReturnsInv, Zenon DEF ReaderStep
<1>2. ASSUME NEW c \in Senders, Deliver(c) PROVE Inv'
  BY <1>2, DeliverInv, Zenon
<1>3. ASSUME NEW c \in Clients, StoreWorks(c) \/ Crash(c) PROVE Inv'
  BY <1>3, StoreWorksInv, CrashInv, Zenon
<1>4. ASSUME UNCHANGED vars PROVE Inv'
  <2>1. /\ box' = box /\ lock' = lock /\ call' = call /\ step' = step /\ draft' = draft
        /\ answer' = answer /\ todo' = todo /\ pc' = pc /\ opt' = opt /\ s' = s
        /\ pending' = pending /\ plain' = plain /\ doubled' = doubled /\ accepted' = accepted
    BY <1>4, Zenon DEF vars, store, session, history
  <2>2. StoreTyped' /\ SessionTyped'
    BY <2>1, Zenon DEF Inv, StoreTyped, SessionTyped
  <2>3. ASSUME NEW c \in Clients PROVE CallInv(c)' /\ StepInv(c)'
    <3>1. CallInv(c) /\ StepInv(c)
      BY Zenon DEF Inv
    <3>2. Asked(c) => Asked(c)'
      BY <2>1, Zenon DEF Asked
    <3>3. CallInv(c)'
      BY <2>1, <3>1, <3>2, Zenon DEF CallInv
    <3>4. StepInv(c)'
      BY <2>1, <3>1, Zenon DEF StepInv
    <3>5. QED
      BY <3>3, <3>4, Zenon
  <2>4. ASSUME NEW r \in Readers PROVE SessionInv(r)' /\ PendingInv(r)'
    BY <2>1, Zenon DEF Inv, SessionInv, PendingInv, Open
  <2>5. QED
    BY <2>2, <2>3, <2>4, Zenon DEF Inv
<1>5. QED
  BY <1>1, <1>2, <1>3, <1>4, Zenon DEF Next

(* The invariant holds throughout.                                         *)
THEOREM InvHolds ==
  Spec => []Inv
<1>1. QED
  BY InvInit, InvNext, PTL DEF Spec

(* Every mailbox, lock, call and session always has its type; in           *)
(* particular an operation past its lock holds the lock file of its own     *)
(* mailbox, so no two operations are inside one mailbox together.           *)
THEOREM TypeCorrect ==
  Spec => []TypeOK
<1>1. Inv => TypeOK
  <2> SUFFICES ASSUME Inv PROVE TypeOK
    BY Zenon
  <2>1. StoreTyped /\ SessionTyped
    BY Zenon DEF Inv
  <2>2. StoreTypeOK
    <3>1. \A b \in Boxes : \A i \in DOMAIN box[b] : box[b][i] \in Entry
      <4> TAKE b \in Boxes
      <4>1. box[b] \in Seq(Entry)
        BY <2>1, Zenon DEF StoreTyped
      <4>2. QED
        BY <4>1, SMTT(30)
    <3>2. ASSUME NEW c \in Clients
          PROVE  /\ step[c] \in {"out", "called", "locked", "torn", "loaded", "written", "dead"}
                 /\ step[c] \in {"out", "dead"} \/ call[c].box \in Boxes
                 /\ step[c] \in {"locked", "torn", "loaded", "written"} => lock[call[c].box] = c
                 /\ \A i \in DOMAIN draft[c] : draft[c][i] \in Entry
      <4>1. step[c] \in Steps /\ draft[c] \in Seq(Entry)
        BY <2>1, Zenon DEF StoreTyped
      <4>2. step[c] \in {"out", "dead"} \/ call[c].box \in Boxes
        BY <4>1, NotBusy, AskedTyped, Zenon
      <4>3. step[c] \in Holding => lock[call[c].box] = c
        BY Zenon DEF Inv, StepInv
      <4>4. \A i \in DOMAIN draft[c] : draft[c][i] \in Entry
        BY <4>1, SMTT(30)
      <4>5. QED
        BY <4>1, <4>2, <4>3, <4>4, Zenon DEF Steps, Holding
    <3>3. QED
      BY <2>1, <3>1, <3>2, Zenon DEF StoreTypeOK, StoreTyped
  <2>3. ASSUME NEW r \in Readers
        PROVE  LET n == Len(s[r].original)
               IN  /\ s[r].at \in Boxes
                   /\ Len(s[r].entries) = n /\ s[r].state \in [1 .. n -> States]
                   /\ s[r].readFlag \in [1 .. n -> BOOLEAN]
                   /\ s[r].shown \in [1 .. n -> BOOLEAN]
                   /\ s[r].current \in 0 .. n
    <3>1. SessionGood(s[r])
      BY ReaderFacts, Zenon
    <3>2. s[r] \in SessionOf(Len(s[r].original)) /\ Len(s[r].entries) = Len(s[r].original)
      BY <3>1, EntriesTyped, Zenon DEF SessionGood
    <3>3. QED
      BY <3>2, Zenon DEF SessionOf
  <2>4. QED
    BY <2>1, <2>2, <2>3, Zenon DEF TypeOK, SessionTyped, Places
<1>2. QED
  BY <1>1, InvHolds, PTL

(* The current message of a session is never a deleted one, whatever        *)
(* commands, commits and failures led there.                                *)
THEOREM CurrentIsVisibleHolds ==
  Spec => []CurrentIsVisible
<1>1. Inv => CurrentIsVisible
  BY Zenon DEF Inv, SessionInv, Open, CurrentOK, CurrentIsVisible
<1>2. QED
  BY <1>1, InvHolds, PTL

----------------------------------------------------------------------------
(* What the steps do, for the invariants that rest on this one.            *)

(* A step of a reader, a sender or a crash is a turn of that process.      *)
LEMMA CallerTurn ==
  ASSUME Inv, NEW c \in Clients, \/ c \in Readers /\ ReaderStep(c)
                                 \/ c \in Senders /\ Deliver(c)
                                 \/ Crash(c)
  PROVE  Turn(c)
<1>1. CASE c \in Readers /\ ReaderStep(c)
  BY <1>1, StartInv, CommandInv, SaveInv, SaveAppendInv, SaveDoneInv, WriteInv, QuitInv,
     MergeReturnsInv, CommitFailsInv, CommitReturnsInv, Zenon DEF ReaderStep
<1>2. CASE c \in Senders /\ Deliver(c)
  BY <1>2, DeliverInv, Zenon
<1>3. CASE Crash(c)
  BY <1>3, CrashInv, Zenon
<1>4. QED
  BY <1>1, <1>2, <1>3, Zenon

(* The callers change no mailbox and delete nothing themselves.            *)
LEMMA CallersQuiet ==
  ASSUME NEW c, ReaderStep(c) \/ Deliver(c) \/ Crash(c)
  PROVE  box' = box /\ purged' = purged /\ accepted' = accepted /\ plain \subseteq plain'
<1>1. ASSUME UNCHANGED store, UNCHANGED history
      PROVE  box' = box /\ purged' = purged /\ accepted' = accepted
  BY <1>1, Zenon DEF store, history
<1>2. \A o : Call(c, o) => box' = box
  BY Zenon DEF Call
<1>3. Heard(c) => box' = box
  BY Zenon DEF Heard
<1>4. ASSUME UNCHANGED history PROVE purged' = purged /\ accepted' = accepted
  BY <1>4, Zenon DEF history
<1>5. CASE Start(c)
  BY <1>1, <1>5, Zenon DEF Start
<1>6. ASSUME NEW x, Command(c, x)
      PROVE  box' = box /\ purged' = purged /\ accepted' = accepted /\ plain' = plain
  BY <1>1, <1>6, Zenon DEF Command
<1>7. CASE ShowMessages(c) \/ NextMessage(c) \/ Look(c) \/ Mark(c) \/ DeletePrint(c) \/ Undelete(c)
  <2>1. \E x : Command(c, x)
    BY <1>7, Zenon DEF ShowMessages, NextMessage, Look, Mark, DeletePrint, Undelete
  <2>2. QED
    BY <1>6, <2>1, Zenon
<1>8. CASE Save(c)
  BY <1>1, <1>8, Zenon DEF Save
<1>9. CASE SaveAppend(c)
  <2>1. UNCHANGED history /\ plain' = plain /\ \E o : Call(c, o)
    BY <1>9, Zenon DEF SaveAppend
  <2>2. QED
    BY <1>2, <1>4, <2>1, Zenon
<1>10. CASE SaveDone(c)
  BY <1>3, <1>4, <1>10, Zenon DEF SaveDone
<1>11. CASE Write(c)
  <2>1. UNCHANGED store /\ UNCHANGED history /\ \E v : plain' = plain \cup v
    BY <1>11, Zenon DEF Write
  <2>2. QED
    BY <1>1, <2>1, Zenon
<1>12. CASE Quit(c) \/ File(c)
  <2>1. PICK then, to : Finish(c, then, to)
    BY <1>12, Zenon DEF Quit, File
  <2>2. UNCHANGED history /\ plain' = plain /\ \E o : Call(c, o)
    BY <2>1, Zenon DEF Finish
  <2>3. QED
    BY <1>2, <1>4, <2>2, SMTT(30)
<1>13. CASE ExitSession(c)
  BY <1>1, <1>13, SMTT(30) DEF ExitSession
<1>14. FinishFails(c) => box' = box /\ purged' = purged /\ accepted' = accepted /\ plain' = plain
  BY <1>3, <1>4, Zenon DEF FinishFails
<1>15. CASE MergeReturns(c)
  <2>1. CASE FinishFails(c)
    BY <1>14, <2>1, Zenon
  <2>2. CASE Call(c, CommitCall(s[c], opt[c])) /\ UNCHANGED history /\ plain' = plain
    BY <1>2, <1>4, <2>2, Zenon
  <2>3. QED
    BY <1>15, <2>1, <2>2, Zenon DEF MergeReturns
<1>16. CASE CommitFails(c)
  BY <1>14, <1>16, Zenon DEF CommitFails
<1>17. CASE CommitReturns(c)
  BY <1>3, <1>4, <1>17, Zenon DEF CommitReturns
<1>18. CASE Deliver(c)
  <2>1. UNCHANGED history /\ plain' = plain /\ (Heard(c) \/ \E o : Call(c, o))
    BY <1>18, ZenonT(30) DEF Deliver
  <2>2. QED
    BY <1>2, <1>3, <1>4, <2>1, Zenon
<1>19. CASE Crash(c)
  BY <1>4, <1>19, Zenon DEF Crash, StoreCrash
<1>20. QED
  BY <1>5, <1>7, <1>8, <1>9, <1>10, <1>11, <1>12, <1>13, <1>15, <1>16, <1>17, <1>18, <1>19, Zenon
     DEF ReaderStep

(* What a step of the store does to the rest.                              *)
LEMMA StoreRest ==
  ASSUME NEW c, StoreWorks(c)
  PROVE  /\ todo' = todo /\ pc' = pc /\ opt' = opt /\ s' = s /\ pending' = pending
         /\ plain' = plain /\ accepted' = accepted \cup Whole(box')
         /\ purged' = purged \cup Purges(c)
BY Zenon DEF StoreWorks, session

(* What a commit puts in its mailbox: the entries it keeps, each once, and  *)
(* what arrived since the snapshot.                                         *)
LEMMA CommitWrites ==
  ASSUME Inv, NEW c \in Clients, step[c] = "loaded", call[c].op = "commit",
         NEW q \in Seq(Entry), q = box[call[c].box]
  PROVE  /\ c \in Readers /\ pc[c] = "commit" /\ call[c].box = s[c].at
         /\ Len(q) >= Len(s[c].original) /\ \A i \in 1 .. Len(s[c].original) : q[i] = s[c].original[i]
         /\ \E k \in Seq(Entry), a \in Seq(Entry) :
              /\ draft[c] = k \o a
              /\ \E at : Picks(k, at, s[c].entries, Keep(s[c], opt[c]), Len(s[c].original))
              /\ Len(a) = Len(q) - Len(s[c].original)
              /\ \A j \in 1 .. Len(q) - Len(s[c].original) : a[j] = q[Len(s[c].original) + j]
<1>1. step[c] \in Busy
  BY Zenon DEF Busy, Holding
<1>2. /\ c \in Readers /\ pc[c] = "commit" /\ call[c].box = s[c].at
      /\ call[c].snapshot = s[c].original /\ call[c].updated = s[c].entries
      /\ call[c].keep = Keep(s[c], opt[c])
  BY <1>1, AskedWhat, Zenon
<1>3. /\ Unchanged(s[c].original, q)
      /\ draft[c] = Kept(s[c].entries, Keep(s[c], opt[c])) \o Arrived(s[c].original, q)
  <2>1. "commit" # "merge"
    BY Zenon
  <2>2. /\ Unchanged(call[c].snapshot, q)
        /\ draft[c] = Kept(call[c].updated, call[c].keep) \o Arrived(call[c].snapshot, q)
    BY <2>1, Zenon DEF Inv, StepInv
  <2>3. QED
    BY <1>2, <2>2, Zenon
<1>4. /\ s[c].entries \in [1 .. Len(s[c].original) -> Entry] /\ Len(s[c].original) \in Nat
      /\ s[c].original \in Seq(Entry) /\ DOMAIN s[c].original = 1 .. Len(s[c].original)
  BY <1>2, ReaderFacts, EntriesTyped, Zenon
<1>5. Len(q) >= Len(s[c].original) /\ \A i \in 1 .. Len(s[c].original) : q[i] = s[c].original[i]
  BY <1>3, <1>4, Zenon DEF Unchanged
<1>6. PICK k : k = Kept(s[c].entries, Keep(s[c], opt[c]))
  BY Zenon
<1>7. k \in Seq(Entry) /\ \E at : Picks(k, at, s[c].entries, Keep(s[c], opt[c]), Len(s[c].original))
  BY <1>4, <1>6, KeptPicks, ZenonT(30)
<1>8. PICK a : a = Arrived(s[c].original, q)
  BY Zenon
<1>9. /\ a \in Seq(Entry) /\ Len(a) = Len(q) - Len(s[c].original)
      /\ \A j \in 1 .. Len(q) - Len(s[c].original) : a[j] = q[Len(s[c].original) + j]
  <2>1. PICK old \in Seq(Entry) : old = s[c].original
    BY <1>4, Zenon
  <2>2. Len(q) >= Len(old) /\ a = Arrived(old, q)
    BY <1>5, <1>8, <2>1, Zenon
  <2>3. /\ a \in Seq(Entry) /\ Len(a) = Len(q) - Len(old)
        /\ \A j \in 1 .. Len(q) - Len(old) : a[j] = q[Len(old) + j]
    BY <2>2, ArrivedFacts, ZenonT(30)
  <2>4. QED
    BY <2>1, <2>3, ZenonT(30)
<1>10. draft[c] = k \o a
  BY <1>3, <1>6, <1>8, Zenon
<1>11. QED
  BY <1>2, <1>5, <1>7, <1>9, <1>10, ZenonT(30)

=============================================================================

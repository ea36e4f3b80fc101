-------------------------- MODULE Operations_proofs --------------------------
(***************************************************************************)
(* The tree and its snapshots, for every volume and every set of calls:    *)
(* wherever a call fails, nothing that may change has two names, and what  *)
(* a snapshot holds stays as it is.                                        *)
(***************************************************************************)
EXTENDS Operations, SequenceTheorems, WellFoundedInduction, TLAPS

\* The directory d has the name n, and it leads to the inode i.
Leads(m, d, n, i) == d \in DOMAIN m /\ n \in DOMAIN m[d].entries /\ m[d].entries[n] = i

IsNode(x) ==
    /\ x \in [kind : Kind, data : {x.data}, entries : {x.entries}, frozen : 0 .. 2]
    /\ x.kind \notin DirKinds => x.entries = NoEntries
    /\ x.frozen = 2 => DOMAIN x.entries # {}

\* What is not frozen has at most one name, in a directory that is not frozen; no
\* name leads to the root, and the root of a snapshot is never empty.
Tidy(m) ==
    /\ DOMAIN m \subseteq Inode /\ Root \in DOMAIN m /\ m[Root].frozen = 0
    /\ \A i \in DOMAIN m : IsNode(m[i])
    /\ \A d, n, i : Leads(m, d, n, i) =>
          i \in DOMAIN m /\ i # Root /\ (m[i].frozen = 0 => m[d].frozen = 0)
    /\ \A d, n, e, k, i :
          Leads(m, d, n, i) /\ Leads(m, e, k, i) /\ m[i].frozen = 0 => d = e /\ n = k

\* Frozen inodes are as they were.
FrozenKept(m, w) == \A i \in DOMAIN m : m[i].frozen # 0 => i \in DOMAIN w /\ w[i] = m[i]

LEMMA NodeFacts ==
  ASSUME NEW x, IsNode(x)
  PROVE  /\ \A e : LET y == [x EXCEPT !.entries = e]
                   IN  /\ y.kind = x.kind /\ y.frozen = x.frozen /\ y.entries = e
                       /\ y \in [kind : Kind, data : {y.data}, entries : {e}, frozen : 0 .. 2]
         /\ \A c : LET y == [x EXCEPT !.frozen = c]
                   IN  /\ y.kind = x.kind /\ y.frozen = c /\ y.entries = x.entries
                       /\ c \in 0 .. 2 => y \in [kind : Kind, data : {y.data}, entries : {y.entries}, frozen : 0 .. 2]
         /\ \A c : LET y == [x EXCEPT !.data = c]
                   IN  /\ y.kind = x.kind /\ y.frozen = x.frozen /\ y.entries = x.entries
                       /\ y \in [kind : Kind, data : {c}, entries : {y.entries}, frozen : 0 .. 2]
         /\ [x EXCEPT !.entries = x.entries] = x
BY DEF IsNode

LEMMA Marks == \A c : (c = 0 => c # 1 /\ c # 2) /\ (c = 2 => c # 1 /\ c # 0)
<1>1. SUFFICES ASSUME NEW c, c = 0 \/ c = 2 PROVE (c = 0 => c # 1 /\ c # 2) /\ (c = 2 => c # 1 /\ c # 0)
  OBVIOUS
<1>2. c \in Int
  BY <1>1
<1> QED  BY <1>2

LEMMA NoNames == DOMAIN NoEntries = {}
BY DEF NoEntries

LEMMA NewInodeFacts ==
  ASSUME NEW kind \in Kind
  PROVE  /\ IsNode(NewInode(kind)) /\ NewInode(kind).kind = kind /\ NewInode(kind).frozen = 0
         /\ DOMAIN NewInode(kind).entries = {}
BY DEF IsNode, NewInode, NoEntries

------------------------------------------------------------------------------
(***************************************************************************)
(* What keeps the inodes tidy: new ones, the entries of one directory, the *)
(* removal of what nothing leads to.                                       *)
(***************************************************************************)
\* w has some more inodes, which lead to frozen ones only.
Grown(m, w) ==
    /\ DOMAIN m \subseteq DOMAIN w /\ DOMAIN w \subseteq Inode
    /\ \A i \in DOMAIN m : w[i] = m[i]
    /\ \A i \in DOMAIN w \ DOMAIN m :
          /\ IsNode(w[i])
          /\ \A n \in DOMAIN w[i].entries :
                w[i].entries[n] \in DOMAIN m /\ w[i].entries[n] # Root /\ m[w[i].entries[n]].frozen # 0

LEMMA GrownTidy ==
  ASSUME NEW m, NEW w, Tidy(m), Grown(m, w)
  PROVE  Tidy(w) /\ FrozenKept(m, w)
<1>1. /\ DOMAIN w \subseteq Inode /\ Root \in DOMAIN w /\ w[Root].frozen = 0
      /\ \A i \in DOMAIN w : IsNode(w[i])
  BY DEF Tidy, Grown
<1>2. ASSUME NEW d, NEW n, NEW i, Leads(w, d, n, i)
      PROVE  /\ i \in DOMAIN m /\ i # Root /\ (w[i].frozen = 0 => w[d].frozen = 0)
             /\ w[i].frozen = 0 => Leads(m, d, n, i)
  <2>1. CASE d \in DOMAIN m
    <3>1. Leads(m, d, n, i)
      BY <1>2, <2>1 DEF Leads, Grown
    <3> QED  BY <2>1, <3>1 DEF Tidy, Grown
  <2>2. CASE d \notin DOMAIN m
    BY <1>2, <2>2 DEF Leads, Grown
  <2> QED  BY <2>1, <2>2
<1>3. ASSUME NEW d, NEW n, NEW e, NEW k, NEW i, Leads(w, d, n, i), Leads(w, e, k, i), w[i].frozen = 0
      PROVE  d = e /\ n = k
  <2>1. Leads(m, d, n, i) /\ Leads(m, e, k, i) /\ m[i].frozen = 0
    BY <1>2, <1>3 DEF Grown
  <2> QED  BY <2>1 DEF Tidy
<1>4. \A i \in DOMAIN m : i \in DOMAIN w
  BY DEF Grown
<1>5. Tidy(w)
  BY <1>1, <1>2, <1>3, <1>4 DEF Tidy
<1>6. FrozenKept(m, w)
  BY DEF Grown, FrozenKept
<1> QED  BY <1>5, <1>6

\* The directory d has other entries.
Saved(m, w, d, list) ==
    /\ DOMAIN w = DOMAIN m /\ d \in DOMAIN m
    /\ \A i \in DOMAIN m : i # d => w[i] = m[i]
    /\ w[d] = [m[d] EXCEPT !.entries = list]

\* They may be those of d: what is not frozen has its only name there.
Fit(m, d, list) ==
    \A n \in DOMAIN list :
        /\ list[n] \in DOMAIN m /\ list[n] # Root
        /\ m[list[n]].frozen = 0 => /\ \A e, k : Leads(m, e, k, list[n]) => e = d
                                    /\ \A k \in DOMAIN list : list[k] = list[n] => k = n

LEMMA SavedTidy ==
  ASSUME NEW m, NEW w, NEW d, NEW list, Tidy(m), Saved(m, w, d, list), Fit(m, d, list),
         m[d].frozen = 0, m[d].kind \in DirKinds
  PROVE  Tidy(w) /\ FrozenKept(m, w)
<1>0. d \in DOMAIN m /\ IsNode(m[d])
  BY DEF Saved, Tidy
<1>1. /\ w[d].entries = list /\ w[d].frozen = 0 /\ w[d].kind = m[d].kind
      /\ w[d] \in [kind : Kind, data : {w[d].data}, entries : {w[d].entries}, frozen : 0 .. 2]
  BY <1>0, NodeFacts DEF Saved
<1>2. \A i \in DOMAIN m : w[i].frozen = m[i].frozen
  BY <1>1 DEF Saved
<1>3. \A i \in DOMAIN w : IsNode(w[i])
  <2>1. IsNode(w[d])
    BY <1>1 DEF IsNode
  <2> QED  BY <2>1 DEF Saved, Tidy
<1>4. ASSUME NEW e, NEW n, NEW i, Leads(w, e, n, i)
      PROVE  IF e = d THEN n \in DOMAIN list /\ list[n] = i ELSE Leads(m, e, n, i)
  BY <1>1, <1>4 DEF Leads, Saved
<1>5. ASSUME NEW e, NEW n, NEW i, Leads(w, e, n, i)
      PROVE  i \in DOMAIN m /\ i # Root /\ (w[i].frozen = 0 => w[e].frozen = 0)
  <2>1. CASE e = d
    BY <1>1, <1>4, <1>5, <2>1 DEF Fit
  <2>2. CASE e # d
    <3>1. Leads(m, e, n, i)
      BY <1>4, <1>5, <2>2
    <3>2. e \in DOMAIN m /\ i \in DOMAIN m /\ i # Root /\ (m[i].frozen = 0 => m[e].frozen = 0)
      BY <3>1 DEF Tidy, Leads
    <3> QED  BY <1>2, <3>2
  <2> QED  BY <2>1, <2>2
<1>6. ASSUME NEW e, NEW n, NEW f, NEW k, NEW i, Leads(w, e, n, i), Leads(w, f, k, i), w[i].frozen = 0
      PROVE  e = f /\ n = k
  <2>1. i \in DOMAIN m /\ m[i].frozen = 0
    BY <1>2, <1>5, <1>6
  <2>2. CASE e = d /\ f = d
    BY <1>4, <1>6, <2>1, <2>2 DEF Fit
  <2>3. CASE e = d /\ f # d
    BY <1>4, <1>6, <2>1, <2>3 DEF Fit
  <2>4. CASE e # d /\ f = d
    BY <1>4, <1>6, <2>1, <2>4 DEF Fit
  <2>5. CASE e # d /\ f # d
    BY <1>4, <1>6, <2>1, <2>5 DEF Tidy
  <2> QED  BY <2>2, <2>3, <2>4, <2>5
<1>7. DOMAIN w \subseteq Inode /\ Root \in DOMAIN w /\ w[Root].frozen = 0 /\ DOMAIN w = DOMAIN m
  BY <1>1, <1>2 DEF Tidy, Saved
<1>8. Tidy(w)
  BY <1>3, <1>5, <1>6, <1>7 DEF Tidy
<1>9. FrozenKept(m, w)
  BY DEF Saved, FrozenKept
<1> QED  BY <1>8, <1>9

LEMMA SavedFacts ==
  ASSUME NEW m, NEW w, NEW d, NEW list, Tidy(m), Saved(m, w, d, list)
  PROVE  /\ DOMAIN w = DOMAIN m /\ w[d].entries = list
         /\ \A i \in DOMAIN m : w[i].kind = m[i].kind
         /\ \A i \in DOMAIN m : w[i].frozen = m[i].frozen
<1>1. IsNode(m[d]) /\ w[d] = [m[d] EXCEPT !.entries = list]
  BY DEF Saved, Tidy
<1>2. w[d].entries = list /\ w[d].kind = m[d].kind /\ w[d].frozen = m[d].frozen
  BY <1>1, NodeFacts
<1> QED  BY <1>2 DEF Saved

\* A directory may lose a name, and have one more, for an inode that had none.
LEMMA RemovedFits ==
  ASSUME NEW m, NEW d \in DOMAIN m, NEW name, Tidy(m)
  PROVE  Fit(m, d, Without(m[d].entries, name))
<1> DEFINE list == Without(m[d].entries, name)
<1>1. DOMAIN list = DOMAIN m[d].entries \ {name} /\ \A n \in DOMAIN list : list[n] = m[d].entries[n]
  BY DEF Without
<1> HIDE DEF list
<1>2. \A n \in DOMAIN list : Leads(m, d, n, list[n])
  BY <1>1 DEF Leads
<1>3. Fit(m, d, list)
  BY <1>2 DEF Fit, Tidy
<1> QED  BY <1>3 DEF list

LEMMA RemovedFacts ==
  ASSUME NEW m, NEW w, NEW d, NEW name, NEW i, Tidy(m), Leads(m, d, name, i), m[i].frozen = 0,
         Saved(m, w, d, Without(m[d].entries, name))
  PROVE  \A e, k : ~Leads(w, e, k, i)
<1>1. SUFFICES ASSUME NEW e, NEW k, Leads(w, e, k, i) PROVE FALSE
  OBVIOUS
<1>2. \A f, n : Leads(m, f, n, i) => f = d /\ n = name
  BY DEF Tidy
<1> DEFINE list == Without(m[d].entries, name)
<1>3. DOMAIN list = DOMAIN m[d].entries \ {name} /\ \A n \in DOMAIN list : list[n] = m[d].entries[n]
  BY DEF Without
<1> HIDE DEF list
<1>4. DOMAIN w = DOMAIN m /\ w[d].entries = list /\ \A j \in DOMAIN m : j # d => w[j] = m[j]
  <2>1. Saved(m, w, d, list)
    BY DEF list
  <2>2. DOMAIN w = DOMAIN m /\ w[d].entries = list
    BY <2>1, SavedFacts
  <2> QED  BY <2>1, <2>2 DEF Saved
<1>5. Leads(m, e, k, i) /\ (e = d => k # name)
  BY <1>1, <1>3, <1>4 DEF Leads
<1> QED  BY <1>2, <1>5

LEMMA AddedFits ==
  ASSUME NEW m, NEW d \in DOMAIN m, NEW name, NEW i \in DOMAIN m, Tidy(m), i # Root,
         \A e, k : ~Leads(m, e, k, i), name \notin DOMAIN m[d].entries
  PROVE  Fit(m, d, With(m[d].entries, name, i))
<1> DEFINE list == m[d].entries
           new == With(list, name, i)
<1>1. /\ DOMAIN new = DOMAIN list \cup {name} /\ new[name] = i
      /\ \A n \in DOMAIN list : new[n] = list[n]
  BY DEF With
<1> HIDE DEF new
<1>2. \A n \in DOMAIN list : /\ Leads(m, d, n, list[n]) /\ list[n] \in DOMAIN m
                            /\ list[n] # Root /\ list[n] # i
  BY DEF Tidy, Leads
<1>3. ASSUME NEW n \in DOMAIN list
      PROVE  /\ new[n] \in DOMAIN m /\ new[n] # Root
             /\ m[new[n]].frozen = 0 => /\ \A e, k : Leads(m, e, k, new[n]) => e = d
                                        /\ \A k \in DOMAIN new : new[k] = new[n] => k = n
  <2>1. new[n] = list[n] /\ list[n] \in DOMAIN m /\ list[n] # Root /\ Leads(m, d, n, list[n])
    BY <1>1, <1>2
  <2>2. \A k \in DOMAIN new : new[k] = new[n] => k \in DOMAIN list /\ Leads(m, d, k, list[n])
    BY <1>1, <1>2, <2>1
  <2>3. m[list[n]].frozen = 0 => \A e, k : Leads(m, e, k, list[n]) => e = d /\ k = n
    BY <2>1 DEF Tidy
  <2> QED  BY <2>1, <2>2, <2>3
<1>4. \A k \in DOMAIN new : new[k] = i => k = name
  BY <1>1, <1>2
<1>5. Fit(m, d, new)
  BY <1>1, <1>3, <1>4 DEF Fit
<1> QED  BY <1>5 DEF new

\* Some inodes are gone, and nothing leads to them.
LEMMA CutTidy ==
  ASSUME NEW m, NEW S, Tidy(m), S \subseteq DOMAIN m, Root \in S,
         \A d, n, i : Leads(m, d, n, i) /\ d \in S => i \in S
  PROVE  Tidy([i \in S |-> m[i]])
<1> DEFINE w == [i \in S |-> m[i]]
<1>1. DOMAIN w = S /\ \A i \in S : w[i] = m[i] /\ i \in DOMAIN m
  OBVIOUS
<1> HIDE DEF w
<1>2. \A d, n, i : Leads(w, d, n, i) => Leads(m, d, n, i) /\ d \in S /\ i \in S
  BY <1>1 DEF Leads
<1>3. DOMAIN w \subseteq Inode /\ Root \in DOMAIN w /\ w[Root].frozen = 0
  BY <1>1 DEF Tidy
<1>4. \A i \in DOMAIN w : IsNode(w[i])
  BY <1>1 DEF Tidy
<1>5. ASSUME NEW d, NEW n, NEW i, Leads(w, d, n, i)
      PROVE  i \in DOMAIN w /\ i # Root /\ (w[i].frozen = 0 => w[d].frozen = 0)
  BY <1>1, <1>2, <1>5 DEF Tidy
<1>6. ASSUME NEW d, NEW n, NEW e, NEW k, NEW i, Leads(w, d, n, i), Leads(w, e, k, i), w[i].frozen = 0
      PROVE  d = e /\ n = k
  BY <1>1, <1>2, <1>6 DEF Tidy
<1>7. Tidy(w)
  BY <1>3, <1>4, <1>5, <1>6 DEF Tidy
<1> QED  BY <1>7 DEF w

\* An inode that is not frozen loses what it holds.
LEMMA ReplacedTidy ==
  ASSUME NEW m, NEW d \in DOMAIN m, NEW x, Tidy(m), m[d].frozen = 0, IsNode(x), x.frozen = 0,
         x.entries = m[d].entries \/ DOMAIN x.entries = {}
  PROVE  Tidy([m EXCEPT ![d] = x]) /\ FrozenKept(m, [m EXCEPT ![d] = x])
<1> DEFINE w == [m EXCEPT ![d] = x]
<1>1. DOMAIN w = DOMAIN m /\ w[d] = x /\ \A i \in DOMAIN m : i # d => w[i] = m[i]
  OBVIOUS
<1> HIDE DEF w
<1>2. \A i \in DOMAIN m : w[i].frozen = m[i].frozen
  BY <1>1
<1>3. \A e, n, i : Leads(w, e, n, i) => Leads(m, e, n, i)
  BY <1>1 DEF Leads
<1>4. DOMAIN w \subseteq Inode /\ Root \in DOMAIN w /\ w[Root].frozen = 0
  BY <1>1, <1>2 DEF Tidy
<1>5. \A i \in DOMAIN w : IsNode(w[i])
  BY <1>1 DEF Tidy
<1>6. ASSUME NEW e, NEW n, NEW i, Leads(w, e, n, i)
      PROVE  i \in DOMAIN w /\ i # Root /\ (w[i].frozen = 0 => w[e].frozen = 0)
  <2>1. Leads(m, e, n, i) /\ e \in DOMAIN m
    BY <1>3, <1>6 DEF Leads
  <2> QED  BY <1>1, <1>2, <2>1 DEF Tidy
<1>7. ASSUME NEW e, NEW n, NEW f, NEW k, NEW i, Leads(w, e, n, i), Leads(w, f, k, i), w[i].frozen = 0
      PROVE  e = f /\ n = k
  <2>1. Leads(m, e, n, i) /\ Leads(m, f, k, i) /\ m[i].frozen = 0
    BY <1>1, <1>2, <1>3, <1>6, <1>7
  <2> QED  BY <2>1 DEF Tidy
<1>8. Tidy(w) /\ FrozenKept(m, w)
  BY <1>1, <1>4, <1>5, <1>6, <1>7 DEF Tidy, FrozenKept
<1> QED  BY <1>8 DEF w

------------------------------------------------------------------------------
(***************************************************************************)
(* The states of a call.                                                   *)
(***************************************************************************)
IsState(s) ==
    s \in [inode : {s.inode}, map : {s.map}, changed : BOOLEAN, snapshots : 0 .. MaxSnapshots,
           sound : BOOLEAN, untold : BOOLEAN, at : {s.at}, err : {s.err}, luck : {s.luck},
           short : {s.short}]

CallOK(s) == IsState(s) /\ Tidy(s.inode)

\* t is a later state of the same call.
Later(s, t) == CallOK(t) /\ FrozenKept(s.inode, t.inode)

\* Between the two the call has only looked for inodes, and made copies.
Looked(m, w) ==
    /\ DOMAIN m \subseteq DOMAIN w
    /\ \A i \in DOMAIN m : /\ w[i].kind = m[i].kind /\ w[i].frozen = m[i].frozen
                           /\ DOMAIN w[i].entries = DOMAIN m[i].entries
                           /\ m[i].frozen # 0 => w[i] = m[i]

LooksOn(s, t) == CallOK(t) /\ Looked(s.inode, t.inode)

LEMMA LookedOnce == \A s, t : LooksOn(s, t) => Later(s, t)
BY DEF LooksOn, Later, Looked, FrozenKept

LEMMA LookedTwice == \A s, t, u : LooksOn(s, t) /\ LooksOn(t, u) => LooksOn(s, u)
<1>1. SUFFICES ASSUME NEW s, NEW t, NEW u, LooksOn(s, t), LooksOn(t, u) PROVE LooksOn(s, u)
  OBVIOUS
<1> DEFINE a == s.inode
           b == t.inode
           c == u.inode
<1>2. Looked(a, b) /\ Looked(b, c)
  BY <1>1 DEF LooksOn
<1> HIDE DEF a, b, c
<1>3. Looked(a, c)
  BY <1>2 DEF Looked
<1> QED  BY <1>1, <1>3 DEF LooksOn, a, c

LEMMA LaterStill == \A s, t, u : Later(s, t) /\ Later(t, u) => Later(s, u)
<1>1. SUFFICES ASSUME NEW s, NEW t, NEW u, Later(s, t), Later(t, u) PROVE Later(s, u)
  OBVIOUS
<1> DEFINE a == s.inode
           b == t.inode
           c == u.inode
<1>2. FrozenKept(a, b) /\ FrozenKept(b, c)
  BY <1>1 DEF Later
<1> HIDE DEF a, b, c
<1>3. FrozenKept(a, c)
  BY <1>2 DEF FrozenKept
<1> QED  BY <1>1, <1>3 DEF Later, a, c

LEMMA LooksHere == \A s : CallOK(s) => LooksOn(s, s) /\ Later(s, s)
BY DEF LooksOn, Later, Looked, FrozenKept

\* A change of the other parts of the state.
SameInodes(s, t) == IsState(t) /\ t.inode = s.inode

LEMMA SameLooks == \A s, t : CallOK(s) /\ SameInodes(s, t) => LooksOn(s, t) /\ Later(s, t) /\ CallOK(t)
BY DEF LooksOn, Later, Looked, FrozenKept, CallOK, SameInodes

LEMMA Throwing ==
  ASSUME NEW s, IsState(s), NEW e
  PROVE  /\ SameInodes(s, Throw(s, e)) /\ Throw(s, e).at = s.at
         /\ e # "" => Failed(Throw(s, e))
BY DEF SameInodes, IsState, Throw, Failed

\* A test of a call that may end it.
LEMMA CheckFacts ==
  ASSUME NEW s, NEW t, NEW e, CallOK(s), t = s \/ t = Throw(s, e), e # ""
  PROVE  /\ SameInodes(s, t) /\ LooksOn(s, t) /\ Later(s, t) /\ CallOK(t) /\ t.at = s.at
         /\ ~Failed(t) => t = s /\ t # Throw(s, e)
<1>1. IsState(s)
  BY DEF CallOK
<1>2. SameInodes(s, t) /\ t.at = s.at /\ (~Failed(t) => t = s /\ t # Throw(s, e))
  <2>1. CASE t = s
    <3>1. Failed(Throw(s, e))
      BY <1>1, Throwing
    <3>2. ~Failed(t) => t # Throw(s, e)
      BY <3>1
    <3> QED  BY <1>1, <2>1, <3>2 DEF SameInodes
  <2>2. CASE t = Throw(s, e)
    BY <1>1, <2>2, Throwing
  <2> QED  BY <2>1, <2>2
<1> QED  BY <1>2, SameLooks

\* Saving a directory has the entries saved, or fails and does nothing.
LEMMA SaveFacts ==
  ASSUME NEW s, CallOK(s), ~Failed(s), NEW d \in DOMAIN s.inode, NEW list
  PROVE  LET t == save_dentries(s, d, list)
         IN  /\ IsState(t) /\ t.at = s.at /\ t.snapshots = s.snapshots
             /\ \/ ~Failed(t) /\ Saved(s.inode, t.inode, d, list)
                \/ Failed(t) /\ t.inode = s.inode
<1> DEFINE t == save_dentries(s, d, list)
<1>0. IsState(s) /\ IsNode(s.inode[d])
  BY DEF CallOK, Tidy
<1>1. CASE list = Entries(s, d)
  <2>1. t = s
    BY <1>1 DEF save_dentries
  <2>2. [s.inode[d] EXCEPT !.entries = list] = s.inode[d]
    BY <1>0, <1>1, NodeFacts DEF Entries
  <2> QED  BY <1>0, <2>1, <2>2 DEF Saved
<1>2. CASE list # Entries(s, d) /\ s.luck > 0
  <2>1. t = [s EXCEPT !.inode[d].entries = list, !.luck = @ - 1]
    BY <1>2 DEF save_dentries
  <2>2. t.inode = [s.inode EXCEPT ![d].entries = list] /\ (Failed(t) <=> Failed(s)) /\ t.at = s.at /\ t.snapshots = s.snapshots
    BY <1>0, <2>1 DEF IsState, Failed
  <2>3. IsState(t)
    BY <1>0, <2>1 DEF IsState
  <2>4. Saved(s.inode, t.inode, d, list)
    BY <2>2 DEF Saved
  <2> QED  BY <2>2, <2>3, <2>4
<1>3. CASE list # Entries(s, d) /\ ~(s.luck > 0)
  <2>1. t = Throw(s, "EIO") \/ t = [Throw(s, "ENOSPC") EXCEPT !.short = TRUE]
    BY <1>3 DEF save_dentries
  <2> QED  BY <1>0, <2>1 DEF IsState, Throw, Failed
<1> QED  BY <1>1, <1>2, <1>3

\* A save that keeps the inodes tidy.
LEMMA SaveKeeps ==
  ASSUME NEW s, CallOK(s), ~Failed(s), NEW d \in DOMAIN s.inode, NEW list,
         Fit(s.inode, d, list), s.inode[d].frozen = 0, s.inode[d].kind \in DirKinds
  PROVE  LET t == save_dentries(s, d, list)
         IN  /\ Later(s, t) /\ t.at = s.at /\ t.snapshots = s.snapshots
             /\ \/ ~Failed(t) /\ Saved(s.inode, t.inode, d, list)
                \/ Failed(t) /\ t.inode = s.inode
<1> DEFINE t == save_dentries(s, d, list)
<1>1. /\ IsState(t) /\ t.at = s.at /\ t.snapshots = s.snapshots
      /\ \/ ~Failed(t) /\ Saved(s.inode, t.inode, d, list)
         \/ Failed(t) /\ t.inode = s.inode
  BY SaveFacts
<1> HIDE DEF t
<1>2. Tidy(s.inode)
  BY DEF CallOK
<1>3. CASE Saved(s.inode, t.inode, d, list)
  <2>1. Tidy(t.inode) /\ FrozenKept(s.inode, t.inode)
    BY <1>2, <1>3, SavedTidy
  <2> QED  BY <1>1, <2>1 DEF Later, CallOK, t
<1>4. CASE t.inode = s.inode
  <2>1. Later(s, t)
    BY <1>1, <1>4, SameLooks DEF SameInodes
  <2> QED  BY <1>1, <2>1 DEF t
<1> QED  BY <1>1, <1>3, <1>4

LEMMA DirectoryFacts ==
  ASSUME NEW s, CallOK(s)
  PROVE  LET t == AsDirectory(s)
         IN  /\ LooksOn(s, t) /\ SameInodes(s, t)
             /\ ~Failed(t) => t = s /\ s.at \in DOMAIN s.inode /\ s.inode[s.at].kind \in DirKinds
<1> DEFINE a == Check(s, s.at \in DOMAIN s.inode, "EIO")
           b == Check(a, a.inode[a.at].kind \in DirKinds, "ENOTDIR")
<1>1. AsDirectory(s) = IF Failed(a) THEN a ELSE b
  BY DEF AsDirectory, Then
<1>2. (a = s /\ s.at \in DOMAIN s.inode) \/ a = Throw(s, "EIO")
  BY DEF Check
<1>3. (b = a /\ a.inode[a.at].kind \in DirKinds) \/ b = Throw(a, "ENOTDIR")
  BY DEF Check
<1> HIDE DEF a, b
<1>4. /\ SameInodes(s, a) /\ LooksOn(s, a) /\ CallOK(a)
      /\ ~Failed(a) => a = s /\ s.at \in DOMAIN s.inode
  <2>1. a = s \/ a = Throw(s, "EIO")
    BY <1>2
  <2>2. /\ SameInodes(s, a) /\ LooksOn(s, a) /\ CallOK(a)
        /\ ~Failed(a) => a = s /\ a # Throw(s, "EIO")
    BY <2>1, CheckFacts
  <2> QED  BY <1>2, <2>2
<1>5. /\ SameInodes(a, b) /\ LooksOn(a, b)
      /\ ~Failed(b) => b = a /\ a.inode[a.at].kind \in DirKinds
  <2>1. b = a \/ b = Throw(a, "ENOTDIR")
    BY <1>3
  <2>2. /\ SameInodes(a, b) /\ LooksOn(a, b)
        /\ ~Failed(b) => b = a /\ b # Throw(a, "ENOTDIR")
    BY <1>4, <2>1, CheckFacts
  <2> QED  BY <1>3, <2>2
<1>8. AsDirectory(s) = a \/ AsDirectory(s) = b
  BY <1>1
<1>9. LooksOn(s, b) /\ SameInodes(s, b)
  BY <1>4, <1>5, LookedTwice DEF SameInodes
<1> QED  BY <1>1, <1>4, <1>5, <1>9

------------------------------------------------------------------------------
(***************************************************************************)
(* The steps of a call.                                                    *)
(***************************************************************************)
\* Inodes that are not in use, one for each name, or an error.
LEMMA RoomFacts ==
  ASSUME NEW s, CallOK(s), NEW names
  PROVE  LET t == Room(s, names)
             own == Given(s, names)
         IN  /\ LooksOn(s, t) /\ SameInodes(s, t) /\ t.at = s.at
             /\ ~Failed(t) =>
                  /\ t = s
                  /\ own \in [names -> Inode \ DOMAIN s.inode]
                  /\ \A n, k \in names : own[n] = own[k] => n = k
<1> DEFINE t == Room(s, names)
           own == Given(s, names)
<1>1. (t = s /\ Gifts(s, names) # {}) \/ t = Throw(s, "ENOSPC")
  BY DEF Room, Check
<1>2. Gifts(s, names) # {} => own \in Gifts(s, names)
  BY DEF Given
<1> HIDE DEF t, own
<1>3. t = s \/ t = Throw(s, "ENOSPC")
  BY <1>1
<1>4. /\ LooksOn(s, t) /\ SameInodes(s, t) /\ t.at = s.at
      /\ ~Failed(t) => t = s /\ t # Throw(s, "ENOSPC")
  BY <1>3, CheckFacts
<1>5. own \in Gifts(s, names) =>
        /\ own \in [names -> Inode \ DOMAIN s.inode]
        /\ \A n, k \in names : own[n] = own[k] => n = k
  BY DEF Gifts, IsInjective
<1>6. ~Failed(t) =>
        /\ t = s
        /\ own \in [names -> Inode \ DOMAIN s.inode]
        /\ \A n, k \in names : own[n] = own[k] => n = k
  BY <1>1, <1>2, <1>4, <1>5
<1> QED  BY <1>4, <1>6 DEF t, own

LEMMA FrozenNames ==
  ASSUME NEW m, Tidy(m), NEW d, NEW n, NEW i, Leads(m, d, n, i), m[d].frozen = 1
  PROVE  i \in DOMAIN m /\ i # Root /\ m[i].frozen # 0
BY DEF Tidy

\* The frozen children of d that are no roots of snapshots.
Shared(s, d) == {n \in DOMAIN Entries(s, d) : Frozen(s, Entries(s, d)[n]) = 1}

\* The inodes with copies of those children among them.
Copied(m, w, d, shared, own) ==
    /\ DOMAIN w = DOMAIN m \cup {own[n] : n \in shared}
    /\ \A i \in DOMAIN m : w[i] = m[i]
    /\ \A n \in shared : w[own[n]] = [m[m[d].entries[n]] EXCEPT !.frozen = 0]

LEMMA CopiedFacts ==
  ASSUME NEW m, NEW w, NEW d, NEW shared, NEW own, Tidy(m), d \in DOMAIN m, m[d].frozen = 0,
         shared = {n \in DOMAIN m[d].entries : m[m[d].entries[n]].frozen = 1},
         own \in [shared -> Inode \ DOMAIN m], \A n, k \in shared : own[n] = own[k] => n = k,
         Copied(m, w, d, shared, own)
  PROVE  Grown(m, w) /\ Fit(w, d, Over(own, m[d].entries))
<1> DEFINE list == m[d].entries
<1>1. \A n \in shared : /\ list[n] \in DOMAIN m /\ m[list[n]].frozen = 1 /\ own[n] \in DOMAIN w
                        /\ own[n] \in Inode /\ own[n] \notin DOMAIN m
  <2>1. \A n \in DOMAIN list : list[n] \in DOMAIN m /\ list[n] # Root
    <3>1. \A n \in DOMAIN list : Leads(m, d, n, list[n])
      BY DEF Leads
    <3> QED  BY ONLY <3>1, Tidy(m) DEF Tidy
  <2>2. \A n \in shared : n \in DOMAIN list /\ m[list[n]].frozen = 1
    OBVIOUS
  <2>3. \A n \in shared : own[n] \in Inode /\ own[n] \notin DOMAIN m
    OBVIOUS
  <2>4. \A n \in shared : own[n] \in DOMAIN w
    BY DEF Copied
  <2> QED  BY ONLY <2>1, <2>2, <2>3, <2>4
<1>2. ASSUME NEW n \in shared
      PROVE  /\ IsNode(w[own[n]]) /\ w[own[n]].entries = m[list[n]].entries
             /\ \A k \in DOMAIN w[own[n]].entries :
                   LET i == w[own[n]].entries[k] IN i \in DOMAIN m /\ i # Root /\ m[i].frozen # 0
  <2> DEFINE x == m[list[n]]
             y == [x EXCEPT !.frozen = 0]
  <2>1. IsNode(x) /\ x.frozen = 1 /\ w[own[n]] = y
    BY <1>1 DEF Tidy, Copied
  <2>2. IsNode(y) /\ y.entries = x.entries
    <3> HIDE DEF x
    <3>1. y.kind = x.kind /\ y.frozen = 0 /\ y.entries = x.entries
          /\ y \in [kind : Kind, data : {y.data}, entries : {y.entries}, frozen : 0 .. 2]
      BY <2>1 DEF IsNode
    <3> QED  BY <2>1, <3>1 DEF IsNode
  <2>3. \A k \in DOMAIN x.entries : Leads(m, list[n], k, x.entries[k])
    BY <1>1 DEF Leads
  <2>4. \A k \in DOMAIN x.entries :
           x.entries[k] \in DOMAIN m /\ x.entries[k] # Root /\ m[x.entries[k]].frozen # 0
    <3> TAKE k \in DOMAIN x.entries
    <3>1. Leads(m, list[n], k, x.entries[k]) /\ m[list[n]].frozen = 1
      BY <1>1, <2>3
    <3> QED  BY ONLY <3>1, Tidy(m), FrozenNames
  <2> HIDE DEF y
  <2> QED  BY <2>1, <2>2, <2>4
<1>3. Grown(m, w)
  <2>1. ASSUME NEW i \in DOMAIN w \ DOMAIN m
        PROVE  /\ IsNode(w[i])
               /\ \A n \in DOMAIN w[i].entries :
                     w[i].entries[n] \in DOMAIN m /\ w[i].entries[n] # Root /\ m[w[i].entries[n]].frozen # 0
    <3>1. PICK n \in shared : i = own[n]
      BY <2>1 DEF Copied
    <3> QED  BY <1>2, <3>1
  <2>2. DOMAIN m \subseteq DOMAIN w /\ DOMAIN w \subseteq Inode
    <3>1. DOMAIN m \subseteq Inode
      BY DEF Tidy
    <3>2. DOMAIN w = DOMAIN m \cup {own[n] : n \in shared}
      BY DEF Copied
    <3> QED  BY ONLY <1>1, <3>1, <3>2
  <2> QED  BY <2>1, <2>2 DEF Grown, Copied
<1>4. \A e, k, i : Leads(w, e, k, i) => i \in DOMAIN m /\ (m[i].frozen = 0 => Leads(m, e, k, i))
  BY <1>3 DEF Grown, Leads, Tidy
<1> DEFINE new == Over(own, list)
<1>5. /\ DOMAIN new = shared \cup DOMAIN list
      /\ \A n \in DOMAIN new : new[n] = IF n \in shared THEN own[n] ELSE list[n]
  BY DEF Over
<1> HIDE DEF new
<1>6. ASSUME NEW n \in DOMAIN new
      PROVE  /\ new[n] \in DOMAIN w /\ new[n] # Root
             /\ w[new[n]].frozen = 0 => /\ \A e, k : Leads(w, e, k, new[n]) => e = d
                                        /\ \A k \in DOMAIN new : new[k] = new[n] => k = n
  <2>1. \A k \in DOMAIN list : Leads(m, d, k, list[k]) /\ list[k] \in DOMAIN m /\ list[k] # Root
    BY DEF Leads, Tidy
  <2>2. CASE n \in shared
    <3>1. new[n] = own[n] /\ own[n] \in DOMAIN w /\ own[n] \notin DOMAIN m
      BY <1>1, <1>5, <2>2
    <3>2. \A k \in DOMAIN new : new[k] = new[n] => k = n
      <4> TAKE k \in DOMAIN new
      <4>1. CASE k \in shared
        <5>1. \A e \in shared : own[e] = own[n] => e = n
          BY <2>2
        <5> QED  BY ONLY <1>5, <2>2, <4>1, <5>1
      <4>2. CASE k \notin shared
        BY ONLY <1>5, <2>1, <3>1, <4>2
      <4> QED  BY <4>1, <4>2
    <3> QED  BY <1>4, <3>1, <3>2 DEF Tidy
  <2>3. CASE n \notin shared
    <3>1. new[n] = list[n] /\ n \in DOMAIN list /\ list[n] \in DOMAIN m /\ list[n] # Root
      BY <1>5, <2>1, <2>3
    <3>2. list[n] \in DOMAIN w /\ w[list[n]] = m[list[n]]
      BY <3>1 DEF Copied
    <3>3. \A k \in DOMAIN new : new[k] = new[n] => k \in DOMAIN list /\ list[k] = list[n]
      BY <1>1, <1>5, <3>1
    <3>4. ASSUME m[list[n]].frozen = 0
          PROVE  /\ \A e, k : Leads(w, e, k, list[n]) => e = d
                 /\ \A k \in DOMAIN new : new[k] = new[n] => k = n
      <4>1. \A e, k : Leads(m, e, k, list[n]) => e = d /\ k = n
        BY <2>1, <3>1, <3>4 DEF Tidy
      <4> QED  BY <1>4, <2>1, <3>3, <3>4, <4>1
    <3> QED  BY <3>1, <3>2, <3>4
  <2> QED  BY <2>2, <2>3
<1>7. Fit(w, d, new)
  BY <1>6 DEF Fit
<1> QED  BY <1>3, <1>7 DEF new

\* A directory that is not frozen has no frozen child but the roots of snapshots.
Private(s, d) ==
    Frozen(s, d) = 0 => \A n \in DOMAIN Entries(s, d) : Frozen(s, Entries(s, d)[n]) # 1

LEMMA UnsharedNothing ==
  ASSUME NEW s, CallOK(s), NEW d \in DOMAIN s.inode, Private(s, d)
  PROVE  Unshared(s, d) = s
<1>1. Frozen(s, d) # 0 \/ {n \in DOMAIN Entries(s, d) : Frozen(s, Entries(s, d)[n]) = 1} = {}
  BY DEF Private
<1> QED  BY <1>1 DEF Unshared

LEMMA UnsharedFacts ==
  ASSUME NEW s, CallOK(s), ~Failed(s), NEW d \in DOMAIN s.inode
  PROVE  LET t == Unshared(s, d)
         IN  /\ LooksOn(s, t) /\ t.at = s.at
             /\ ~Failed(t) => Private(t, d)
<1> DEFINE t == Unshared(s, d)
           m == s.inode
           list == m[d].entries
           shared == {n \in DOMAIN list : m[list[n]].frozen = 1}
           own == Given(s, shared)
           Copies(o) == [i \in {o[n] : n \in shared} |->
                           [m[list[CHOOSE n \in shared : o[n] = i]] EXCEPT !.frozen = 0]]
           copies == Copies(own)
           w == Over(m, copies)
           c == [s EXCEPT !.inode = w]
           new == Over(own, list)
           r == Room(s, shared)
           End(o) == save_dentries([s EXCEPT !.inode = Over(m, Copies(o))], d, Over(o, list))
           v == save_dentries(c, d, new)
<1>0. IsState(s) /\ Tidy(m)
  BY DEF CallOK
<1>1. CASE m[d].frozen # 0 \/ shared = {}
  <2>1. Private(s, d)
    BY <1>1 DEF Private, Frozen, Entries
  <2>2. t = s
    BY <2>1, UnsharedNothing
  <2> QED  BY <2>1, <2>2, LooksHere
<1>2. CASE m[d].frozen = 0 /\ shared # {}
  <2>1. t = IF Failed(r) THEN r ELSE End(Given(r, shared))
    BY <1>2 DEF Unshared, Then, Entries, Frozen
  <2>2. /\ LooksOn(s, r) /\ r.at = s.at
        /\ ~Failed(r) =>
             /\ r = s
             /\ own \in [shared -> Inode \ DOMAIN m]
             /\ \A n, k \in shared : own[n] = own[k] => n = k
    BY RoomFacts
  <2>3. t = IF Failed(r) THEN r ELSE v
    <3>1. v = End(own)
      OBVIOUS
    <3> HIDE DEF v, End, r, t
    <3> QED  BY <2>1, <2>2, <3>1
  <2>4. CASE Failed(r)
    BY <2>2, <2>3, <2>4
  <2>5. CASE ~Failed(r)
    <3>1. /\ own \in [shared -> Inode \ DOMAIN m]
          /\ \A n, k \in shared : own[n] = own[k] => n = k
      BY <2>2, <2>5
    <3>2. Copied(m, w, d, shared, own)
      <4>1. /\ DOMAIN copies = {own[n] : n \in shared}
            /\ \A n \in shared : copies[own[n]] = [m[list[n]] EXCEPT !.frozen = 0]
        <5>1. \A n \in shared : (CHOOSE k \in shared : own[k] = own[n]) = n
          <6> HIDE DEF own, shared
          <6> QED  BY <3>1
        <5> QED  BY <5>1
      <4> HIDE DEF copies, own, shared
      <4>2. /\ DOMAIN w = DOMAIN m \cup DOMAIN copies
            /\ \A i \in DOMAIN m : w[i] = m[i]
            /\ \A i \in DOMAIN copies : i \notin DOMAIN m => w[i] = copies[i]
        BY DEF Over
      <4>3. \A n \in shared : own[n] \notin DOMAIN m /\ own[n] \in DOMAIN copies
        BY <3>1, <4>1
      <4> QED  BY <4>1, <4>2, <4>3 DEF Copied
    <3> HIDE DEF w, own
    <3>3. Grown(m, w) /\ Fit(w, d, new)
      BY <1>0, <1>2, <3>1, <3>2, CopiedFacts
    <3>4. Tidy(w) /\ FrozenKept(m, w)
      BY <1>0, <3>3, GrownTidy
    <3>5. c.inode = w /\ IsState(c) /\ ~Failed(c) /\ c.at = s.at
      BY <1>0 DEF IsState, Failed
    <3>6. /\ CallOK(c) /\ w[d] = m[d] /\ d \in DOMAIN w
      BY <3>3, <3>4, <3>5 DEF CallOK, Grown
    <3>7. m[d].kind \in DirKinds
      <4>2. IsNode(m[d]) /\ list # NoEntries
        BY <1>0, <1>2, NoNames DEF Tidy
      <4> QED  BY <4>2 DEF IsNode
    <3> HIDE DEF c, v, new, shared
    <3>8. /\ Later(c, v) /\ v.at = c.at
          /\ \/ ~Failed(v) /\ Saved(w, v.inode, d, new)
             \/ Failed(v) /\ v.inode = w
      BY <1>2, <3>3, <3>5, <3>6, <3>7, SaveKeeps DEF v
    <3>9. Looked(m, w)
      BY <3>3 DEF Looked, Grown
    <3>10. CASE Failed(v) /\ v.inode = w
      <4>1. LooksOn(s, v)
        BY <3>8, <3>9, <3>10 DEF LooksOn, Later
      <4> QED  BY <2>3, <2>5, <3>5, <3>8, <3>10, <4>1
    <3>11. CASE ~Failed(v) /\ Saved(w, v.inode, d, new)
      <4> DEFINE x == v.inode
      <4>1. /\ DOMAIN new = DOMAIN list
            /\ \A n \in DOMAIN new : new[n] = IF n \in shared THEN own[n] ELSE list[n]
        BY <3>1 DEF Over, new, shared
      <4>2. x[d].entries = new /\ x[d].frozen = 0 /\ x[d].kind = m[d].kind
        <5>1. x[d] = [m[d] EXCEPT !.entries = new] /\ IsNode(m[d])
          BY <1>0, <3>6, <3>11 DEF Saved, Tidy
        <5> HIDE DEF x
        <5> QED  BY <1>2, <5>1, NodeFacts
      <4>3. DOMAIN x = DOMAIN w /\ \A i \in DOMAIN w : i # d => x[i] = w[i]
        BY <3>11 DEF Saved
      <4> HIDE DEF x
      <4>4. Looked(m, x)
        BY <1>2, <3>9, <4>1, <4>2, <4>3 DEF Looked
      <4>5. ASSUME NEW n \in DOMAIN new PROVE x[new[n]].frozen # 1
        <5>1. CASE n \in shared
          <6>1. new[n] = own[n] /\ own[n] \in DOMAIN w /\ own[n] # d
            <7>1. own[n] \notin DOMAIN m /\ d \in DOMAIN m
              BY <3>1, <5>1
            <7> HIDE DEF m
            <7> QED  BY <3>2, <4>1, <5>1, <7>1 DEF Copied
          <6>2. w[own[n]] = [m[list[n]] EXCEPT !.frozen = 0] /\ IsNode(m[list[n]])
            BY <1>0, <3>2, <5>1 DEF Copied, Tidy, Leads, shared
          <6>3. w[own[n]].frozen = 0
            BY <6>2 DEF IsNode
          <6>4. x[new[n]] = w[own[n]]
            BY <4>3, <6>1
          <6>5. x[new[n]].frozen = 0
            BY <6>3, <6>4
          <6> QED  BY <6>5, Marks
        <5>2. CASE n \notin shared
          <6>1. new[n] = list[n] /\ list[n] \in DOMAIN m /\ m[list[n]].frozen # 1
            BY <1>0, <4>1, <5>2 DEF Tidy, Leads, shared
          <6>2. CASE list[n] = d
            <7>1. x[new[n]].frozen = 0
              BY <4>2, <6>1, <6>2
            <7> QED  BY <7>1, Marks
          <6>3. CASE list[n] # d
            BY <3>3, <4>3, <6>1, <6>3 DEF Grown
          <6> QED  BY <6>2, <6>3
        <5> QED  BY <5>1, <5>2
      <4>6. Private(v, d)
        BY <4>2, <4>5 DEF Private, Frozen, Entries, x
      <4>7. LooksOn(s, v)
        BY <3>8, <4>4 DEF LooksOn, Later, x
      <4> QED  BY <2>3, <2>5, <3>5, <3>8, <4>6, <4>7
    <3> QED  BY <3>8, <3>10, <3>11
  <2> QED  BY <2>4, <2>5
<1> QED  BY <1>1, <1>2

\* What get_inode does: it comes to what the name leads to, and has made copies.
LEMMA GetInodeFacts ==
  ASSUME NEW s, CallOK(s), ~Failed(s), NEW d \in DOMAIN s.inode, NEW name
  PROVE  LET t == get_inode(s, d, name)
         IN  /\ LooksOn(s, t)
             /\ ~Failed(t) => /\ Private(t, d) /\ d \in DOMAIN t.inode
                              /\ Leads(t.inode, d, name, t.at)
             /\ Failed(t) => t.at = s.at
             /\ Private(s, d) /\ ~Failed(t) => t = [s EXCEPT !.at = Entries(s, d)[name]]
<1> DEFINE a == Unshared(s, d)
           b == Check(a, name \in DOMAIN Entries(a, d), "ENOENT")
           c == [b EXCEPT !.at = Entries(b, d)[name]]
           t == get_inode(s, d, name)
<1>1. t = IF Failed(a) THEN a ELSE IF Failed(b) THEN b ELSE c
  BY DEF get_inode, Then
<1>2. /\ LooksOn(s, a) /\ a.at = s.at /\ CallOK(a)
      /\ ~Failed(a) => Private(a, d)
      /\ Private(s, d) => a = s
  BY UnsharedFacts, UnsharedNothing DEF LooksOn
<1>3. (b = a /\ name \in DOMAIN Entries(a, d)) \/ b = Throw(a, "ENOENT")
  BY DEF Check
<1> HIDE DEF a, b
<1>4. /\ LooksOn(a, b) /\ b.at = a.at /\ CallOK(b)
      /\ ~Failed(b) => b = a /\ name \in DOMAIN Entries(a, d)
  <2>1. b = a \/ b = Throw(a, "ENOENT")
    BY <1>3
  <2>2. /\ LooksOn(a, b) /\ b.at = a.at /\ CallOK(b)
        /\ ~Failed(b) => b = a /\ b # Throw(a, "ENOENT")
    BY <1>2, <2>1, CheckFacts
  <2> QED  BY <1>3, <2>2
<1>5. LooksOn(s, b)
  BY <1>2, <1>4, LookedTwice
<1>6. /\ SameInodes(b, c) /\ (Failed(c) <=> Failed(b)) /\ c.at = Entries(b, d)[name]
  <2>1. IsState(b)
    BY <1>4 DEF CallOK
  <2> QED  BY <2>1 DEF IsState, SameInodes, Failed
<1>7. LooksOn(b, c) /\ LooksOn(s, c)
  BY <1>4, <1>5, <1>6, SameLooks, LookedTwice
<1>8. CASE Failed(a)
  BY <1>1, <1>2, <1>8
<1>9. CASE ~Failed(a) /\ Failed(b)
  BY <1>1, <1>2, <1>4, <1>5, <1>9
<1>10. CASE ~Failed(a) /\ ~Failed(b)
  <2>1. t = c /\ b = a /\ c.inode = a.inode
    BY <1>1, <1>4, <1>6, <1>10 DEF SameInodes
  <2>2. d \in DOMAIN a.inode
    BY <1>2 DEF LooksOn, Looked
  <2>3. Leads(t.inode, d, name, t.at)
    BY <1>4, <1>6, <1>10, <2>1, <2>2 DEF Leads, Entries
  <2>4. Private(t, d)
    BY <1>2, <1>10, <2>1 DEF Private, Frozen, Entries
  <2> QED  BY <1>2, <1>6, <1>7, <1>10, <2>1, <2>2, <2>3, <2>4
<1> QED  BY <1>8, <1>9, <1>10

LEMMA NextFacts ==
  ASSUME NEW s, CallOK(s), ~Failed(s), NEW key, NEW name
  PROVE  LooksOn(s, get_next(s, key, name))
<1> DEFINE a == AsDirectory(s)
           b == get_inode(a, a.at, name)
           c == [b EXCEPT !.map = With(@, key, b.at)]
           t == get_next(s, key, name)
<1>1. CASE key \in DOMAIN s.map
  <2>1. t = [s EXCEPT !.at = s.map[key]]
    BY <1>1 DEF get_next
  <2>2. SameInodes(s, t)
    <3>1. IsState(s)
      BY DEF CallOK
    <3> QED  BY <2>1, <3>1 DEF IsState, SameInodes
  <2> HIDE DEF t
  <2>3. LooksOn(s, t)
    BY <2>2, SameLooks
  <2> QED  BY <2>3 DEF t
<1>2. CASE key \notin DOMAIN s.map
  <2>1. t = IF Failed(a) THEN a ELSE IF Failed(b) THEN b ELSE c
    BY <1>2 DEF get_next, Then
  <2>2. /\ LooksOn(s, a) /\ CallOK(a)
        /\ ~Failed(a) => a = s /\ s.at \in DOMAIN s.inode
    BY DirectoryFacts DEF LooksOn
  <2> HIDE DEF a
  <2>3. CASE Failed(a)
    BY <2>1, <2>2, <2>3 DEF t
  <2>4. CASE ~Failed(a)
    <3>1. LooksOn(a, b) /\ CallOK(b)
      BY <2>2, <2>4, GetInodeFacts DEF LooksOn
    <3>2. SameInodes(b, c)
      <4>1. IsState(b)
        BY <3>1 DEF CallOK
      <4> HIDE DEF b
      <4> QED  BY <4>1 DEF IsState, SameInodes
    <3> HIDE DEF b, c, t
    <3>3. LooksOn(b, c)
      BY <3>1, <3>2, SameLooks
    <3>4. LooksOn(s, b) /\ LooksOn(s, c)
      BY <2>2, <3>1, <3>3, LookedTwice
    <3> QED  BY <2>1, <2>4, <3>4 DEF t
  <2> QED  BY <2>3, <2>4
<1> QED  BY <1>1, <1>2

------------------------------------------------------------------------------
(***************************************************************************)
(* Paths.  The steps of a path are a recursive function, which exists: a   *)
(* shortest prefix for which it did not would be one longer than another.  *)
(***************************************************************************)
LEMMA LeastFacts ==
  ASSUME NEW S, S \subseteq Nat, S # {}
  PROVE  \E m \in S : \A c \in S : m <= c
<1> DEFINE R == OpToRel(<, Nat)
<1>1. IsWellFoundedOn(R, Nat)
  BY NatLessThanWellFounded
<1>2. \A x, y \in Nat : <<y, x>> \in R <=> y < x
  BY DEF OpToRel
<1> HIDE DEF R
<1>3. PICK m \in S : \A y \in S : ~ (<<y, m>> \in R)
  BY <1>1, WFMin, Zenon
<1>4. ASSUME NEW c \in S PROVE m <= c
  <2>1. ~(c < m)
    BY <1>2, <1>3
  <2> QED  BY <2>1
<1> QED  BY <1>3, <1>4

LEMMA PathFacts ==
  ASSUME NEW s, CallOK(s), ~Failed(s), NEW path, Len(path) \in Nat
  PROVE  LET t == get_inode_by_path(s, path)
         IN  /\ LooksOn(s, t)
             /\ ~Failed(t) => t.at \in DOMAIN t.inode
             /\ Len(path) = 0 => t.at = Root
<1> DEFINE begun == [s EXCEPT !.at = Root, !.map = IF s.changed THEN <<>> ELSE @, !.changed = FALSE]
           Rest(t, k) == IF Failed(t) THEN t ELSE get_next(t, Key(SubSeq(path, 1, k)), path[k])
           len == Len(path)
           Runs(f, q) == f = [k \in 0 .. q |-> IF k = 0 THEN begun ELSE Rest(f[k - 1], k)]
           Missing == {q \in Nat : ~(\E f : Runs(f, q))}
           Bad(f) == {k \in Nat : k \in 0 .. len /\ ~LooksOn(s, f[k])}
           end == (CHOOSE f : Runs(f, len))[len]
           t == get_inode_by_path(s, path)
           check == Check(end, end.at \in DOMAIN end.inode, "EIO")
<1>1. t = IF Failed(end) THEN end ELSE check
  BY DEF get_inode_by_path, Then
<1>2. LooksOn(s, begun) /\ begun.at = Root
  <2>1. SameInodes(s, begun) /\ begun.at = Root
    <3>1. IsState(s)
      BY DEF CallOK
    <3> QED  BY <3>1 DEF IsState, SameInodes
  <2> HIDE DEF begun
  <2> QED  BY <2>1, SameLooks
<1>3. \A u, k : LooksOn(s, u) => LooksOn(s, Rest(u, k))
  <2>1. SUFFICES ASSUME NEW u, NEW k, LooksOn(s, u) PROVE LooksOn(s, Rest(u, k))
    OBVIOUS
  <2>2. CASE Failed(u)
    BY <2>1, <2>2
  <2>3. CASE ~Failed(u)
    <3> DEFINE v == get_next(u, Key(SubSeq(path, 1, k)), path[k])
    <3>1. LooksOn(u, v)
      BY <2>1, <2>3, NextFacts DEF LooksOn
    <3>2. Rest(u, k) = v
      BY <2>3
    <3> HIDE DEF v, Rest
    <3> QED  BY <2>1, <3>1, <3>2, LookedTwice
  <2> QED  BY <2>2, <2>3
<1> HIDE DEF begun, Rest, t
<1>4. Missing = {}
  <2>1. SUFFICES ASSUME Missing # {} PROVE FALSE
    OBVIOUS
  <2>2. PICK q \in Missing : \A x \in Missing : q <= x
    <3>1. Missing \subseteq Nat
      OBVIOUS
    <3> HIDE DEF Missing
    <3> QED  BY <2>1, <3>1, LeastFacts
  <2>3. q \in Nat /\ ~(\E f : Runs(f, q))
    BY <2>2
  <2>4. CASE q = 0
    <3> DEFINE f == [k \in 0 .. 0 |-> begun]
    <3>1. f = [k \in 0 .. 0 |-> IF k = 0 THEN begun ELSE Rest(f[k - 1], k)]
      OBVIOUS
    <3> HIDE DEF f
    <3> QED  BY <2>3, <2>4, <3>1
  <2>5. CASE q # 0
    <3>1. q - 1 \in Nat /\ q - 1 \notin Missing
      BY <2>2, <2>3, <2>5, SMTT(30)
    <3>2. PICK f : Runs(f, q - 1)
      BY <3>1
    <3> DEFINE g == [k \in 0 .. q |-> IF k = q THEN Rest(f[q - 1], q) ELSE f[k]]
    <3>3. ASSUME NEW k \in 0 .. q
          PROVE  g[k] = IF k = 0 THEN begun ELSE Rest(g[k - 1], k)
      <4>1. CASE k = q
        <5>1. g[k - 1] = f[q - 1] /\ k # 0
          BY <2>3, <2>5, <4>1
        <5> QED  BY <4>1, <5>1
      <4>2. CASE k # q
        <5>1. k \in 0 .. q - 1 /\ g[k] = f[k]
          BY <2>3, <3>3, <4>2
        <5>2. f[k] = IF k = 0 THEN begun ELSE Rest(f[k - 1], k)
          BY <3>2, <5>1
        <5>3. k # 0 => g[k - 1] = f[k - 1]
          BY <2>3, <5>1
        <5> HIDE DEF g
        <5> QED  BY <5>1, <5>2, <5>3
      <4> QED  BY <4>1, <4>2
    <3>4. g = [k \in 0 .. q |-> g[k]]
      OBVIOUS
    <3> HIDE DEF g
    <3>5. g = [k \in 0 .. q |-> IF k = 0 THEN begun ELSE Rest(g[k - 1], k)]
      BY <3>3, <3>4
    <3> QED  BY <2>3, <3>5
  <2> QED  BY <2>4, <2>5
<1>5. PICK f : Runs(f, len) /\ end = f[len]
  <2>1. \E f : Runs(f, len)
    BY <1>4
  <2> QED  BY <2>1
<1> HIDE DEF end, check
<1>6. \A k \in 0 .. len : f[k] = IF k = 0 THEN begun ELSE Rest(f[k - 1], k)
  BY <1>5
<1>7. Bad(f) = {}
  <2>1. SUFFICES ASSUME Bad(f) # {} PROVE FALSE
    OBVIOUS
  <2>2. PICK k \in Bad(f) : \A x \in Bad(f) : k <= x
    <3>1. Bad(f) \subseteq Nat
      OBVIOUS
    <3> HIDE DEF Bad
    <3> QED  BY <2>1, <3>1, LeastFacts
  <2>3. k \in 0 .. len /\ k \in Nat /\ ~LooksOn(s, f[k])
    BY <2>2
  <2>4. CASE k = 0
    BY <1>2, <1>6, <2>3, <2>4
  <2>5. CASE k # 0
    <3>1. k - 1 \in 0 .. len /\ k - 1 \in Nat /\ ~(k <= k - 1)
      BY <2>3, <2>5
    <3>2. LooksOn(s, f[k - 1])
      BY <2>2, <3>1
    <3>3. f[k] = Rest(f[k - 1], k)
      BY <1>6, <2>3, <2>5
    <3> QED  BY <1>3, <2>3, <3>2, <3>3
  <2> QED  BY <2>4, <2>5
<1>8. LooksOn(s, end)
  <2>1. len \in Nat /\ len \notin Bad(f)
    BY <1>7
  <2>2. len \in 0 .. len
    BY <2>1
  <2> QED  BY <1>5, <2>1, <2>2
<1>9. (check = end /\ end.at \in DOMAIN end.inode) \/ check = Throw(end, "EIO")
  BY DEF Check, check
<1>10. /\ LooksOn(end, check) /\ check.at = end.at
       /\ ~Failed(check) => check = end /\ check # Throw(end, "EIO")
  <2>1. check = end \/ check = Throw(end, "EIO")
    BY <1>9
  <2> QED  BY <1>8, <2>1, CheckFacts DEF LooksOn
<1>11. LooksOn(s, check) /\ (~Failed(check) => check.at \in DOMAIN check.inode)
  BY <1>8, <1>9, <1>10, LookedTwice
<1>12. len = 0 => end.at = Root
  BY <1>2, <1>5, <1>6
<1>13. /\ LooksOn(s, t)
       /\ ~Failed(t) => t.at \in DOMAIN t.inode
       /\ len = 0 => t.at = Root
  BY <1>1, <1>8, <1>10, <1>11, <1>12
<1> QED  BY <1>13 DEF t

LEMMA FrontFacts ==
  ASSUME NEW path, path \in Seq(Range(path))
  PROVE  Len(Front(path)) \in Nat /\ Len(path) \in Nat
<1> DEFINE n == Len(path) - 1
           S == {path[i] : i \in 1 .. n}
<1>1. Len(path) \in Nat /\ n \in Int
  BY LenProperties
<1>2. \A i \in 1 .. n : path[i] \in S
  OBVIOUS
<1>3. Front(path) = SubSeq(path, 1, n)
  BY DEF Front
<1> HIDE DEF n, S
<1>4. Len(SubSeq(path, 1, n)) = IF 1 <= n THEN n - 1 + 1 ELSE 0
  BY <1>1, <1>2, SubSeqProperties
<1> QED  BY <1>1, <1>3, <1>4

LEMMA NoPath == Len(<<>>) \in Nat
OBVIOUS

\* The call has come to a directory that may change.
Open(s) ==
    /\ s.at \in DOMAIN s.inode
    /\ s.inode[s.at].kind \in DirKinds /\ s.inode[s.at].frozen = 0

LEMMA NotFrozenFacts ==
  ASSUME NEW s, CallOK(s), NEW i
  PROVE  LET t == NotFrozen(s, i)
         IN  /\ LooksOn(s, t) /\ Later(s, t) /\ CallOK(t)
             /\ ~Failed(t) => t = s /\ s.inode[i].frozen = 0
<1> DEFINE t == NotFrozen(s, i)
<1>1. (t = s /\ s.inode[i].frozen = 0) \/ t = Throw(s, "EROFS")
  BY DEF NotFrozen, Check, Frozen
<1> HIDE DEF t
<1>2. t = s \/ t = Throw(s, "EROFS")
  BY <1>1
<1>3. /\ LooksOn(s, t) /\ Later(s, t) /\ CallOK(t)
      /\ ~Failed(t) => t = s /\ t # Throw(s, "EROFS")
  BY <1>2, CheckFacts
<1> QED  BY <1>1, <1>3 DEF t

LEMMA AtDirectoryFacts ==
  ASSUME NEW s, CallOK(s), ~Failed(s), NEW path, Len(path) \in Nat
  PROVE  LET t == Directory(s, path)
         IN  /\ LooksOn(s, t) /\ CallOK(t)
             /\ ~Failed(t) => t.at \in DOMAIN t.inode /\ t.inode[t.at].kind \in DirKinds
             /\ ~Failed(t) /\ Len(path) = 0 => t.at = Root
<1> DEFINE a == get_inode_by_path(s, path)
           b == AsDirectory(a)
           t == Directory(s, path)
<1>1. t = IF Failed(a) THEN a ELSE b
  BY DEF Directory, Then
<1>2. LooksOn(s, a) /\ CallOK(a) /\ (Len(path) = 0 => a.at = Root)
  BY PathFacts DEF LooksOn
<1> HIDE DEF a
<1>3. /\ LooksOn(a, b) /\ CallOK(b)
      /\ ~Failed(b) => b = a /\ a.at \in DOMAIN a.inode /\ a.inode[a.at].kind \in DirKinds
  BY <1>2, DirectoryFacts DEF LooksOn
<1> HIDE DEF b
<1>4. LooksOn(s, b)
  BY <1>2, <1>3, LookedTwice
<1> QED  BY <1>1, <1>2, <1>3, <1>4

LEMMA ParentFacts ==
  ASSUME NEW s, CallOK(s), ~Failed(s), NEW path, path \in Seq(Range(path))
  PROVE  LET t == Parent(s, path)
         IN  LooksOn(s, t) /\ CallOK(t) /\ (~Failed(t) => Open(t))
<1> DEFINE a == Directory(s, Front(path))
           b == NotFrozen(a, a.at)
           t == Parent(s, path)
<1>1. t = IF Failed(a) THEN a ELSE b
  BY DEF Parent, Then
<1>2. /\ LooksOn(s, a) /\ CallOK(a)
      /\ ~Failed(a) => a.at \in DOMAIN a.inode /\ a.inode[a.at].kind \in DirKinds
  BY FrontFacts, AtDirectoryFacts
<1> HIDE DEF a
<1>3. /\ LooksOn(a, b) /\ CallOK(b)
      /\ ~Failed(b) => b = a /\ a.inode[a.at].frozen = 0
  BY <1>2, NotFrozenFacts
<1> HIDE DEF b
<1>4. LooksOn(s, b)
  BY <1>2, <1>3, LookedTwice
<1> QED  BY <1>1, <1>2, <1>3, <1>4 DEF Open

\* A new inode with its name, or an error, after which it may be in use without one.
Created(s, t, name, kind) ==
    /\ t.snapshots = s.snapshots
    /\ t.at \in DOMAIN t.inode /\ t.at \notin DOMAIN s.inode /\ t.inode[t.at] = NewInode(kind)
    /\ s.at \in DOMAIN t.inode /\ t.inode[s.at].frozen = 0 /\ t.inode[s.at].kind \in DirKinds
    /\ name \in DOMAIN t.inode[s.at].entries

LEMMA CreateFacts ==
  ASSUME NEW s, CallOK(s), ~Failed(s), Open(s), NEW name, NEW kind \in Kind
  PROVE  LET t == create_dentry(s, name, kind)
         IN  Later(s, t) /\ (~Failed(t) => Created(s, t, name, kind))
<1> DEFINE a == Check(s, name \notin DOMAIN Entries(s, s.at), "EEXIST")
           b == Room(a, {name})
           m == s.inode
           d == s.at
           list == m[d].entries
           i == Given(s, {name})[name]
           x == NewInode(kind)
           w == With(m, i, x)
           c == [s EXCEPT !.inode = w, !.at = i]
           new == With(list, name, i)
           v == save_dentries(c, d, new)
           End(k) == save_dentries([s EXCEPT !.inode = With(@, k, NewInode(kind)), !.at = k],
                                   s.at, With(Entries(s, s.at), name, k))
           t == create_dentry(s, name, kind)
<1>1. t = IF Failed(a) THEN a ELSE IF Failed(b) THEN b ELSE End(Given(b, {name})[name])
  BY DEF create_dentry, Then
<1>2. (a = s /\ name \notin DOMAIN list) \/ a = Throw(s, "EEXIST")
  BY DEF Check, Entries
<1> HIDE DEF a
<1>3. /\ LooksOn(s, a) /\ CallOK(a) /\ Later(s, a)
      /\ ~Failed(a) => a = s /\ name \notin DOMAIN list
  <2>1. a = s \/ a = Throw(s, "EEXIST")
    BY <1>2
  <2>2. /\ LooksOn(s, a) /\ CallOK(a) /\ Later(s, a)
        /\ ~Failed(a) => a = s /\ a # Throw(s, "EEXIST")
    BY <2>1, CheckFacts
  <2> QED  BY <1>2, <2>2
<1>4. CASE Failed(a)
  BY <1>1, <1>3, <1>4
<1>5. CASE ~Failed(a)
  <2>1. a = s /\ name \notin DOMAIN list
    BY <1>3, <1>5
  <2>2. /\ LooksOn(s, b) /\ (~Failed(b) => b = s)
        /\ ~Failed(b) => Given(s, {name}) \in [{name} -> Inode \ DOMAIN m]
    BY <2>1, RoomFacts
  <2> HIDE DEF b
  <2>3. CASE Failed(b)
    BY <1>1, <1>5, <2>2, <2>3, LookedOnce
  <2>4. CASE ~Failed(b)
    <3>1. t = v
      <4>1. v = End(i)
        BY DEF Entries
      <4> HIDE DEF v, End, t
      <4> QED  BY <1>1, <1>5, <2>2, <2>4, <4>1
    <3>2. i \in Inode \ DOMAIN m
      BY <2>2, <2>4
    <3> HIDE DEF i, x
    <3>3. /\ DOMAIN w = DOMAIN m \cup {i} /\ w[i] = x
          /\ \A j \in DOMAIN m : w[j] = m[j]
      BY <3>2 DEF With
    <3>4. IsNode(x) /\ DOMAIN x.entries = {}
      BY NewInodeFacts DEF x
    <3> HIDE DEF w
    <3>5. Tidy(m) /\ IsState(s) /\ d \in DOMAIN m /\ m[d].kind \in DirKinds /\ m[d].frozen = 0
      BY DEF CallOK, Open
    <3>6. Grown(m, w)
      BY <3>2, <3>3, <3>4, <3>5 DEF Grown, Tidy
    <3>7. Tidy(w) /\ FrozenKept(m, w)
      BY <3>5, <3>6, GrownTidy
    <3>8. c.inode = w /\ c.at = i /\ c.snapshots = s.snapshots /\ CallOK(c) /\ ~Failed(c)
      <4>1. c.inode = w /\ c.at = i /\ c.snapshots = s.snapshots /\ IsState(c) /\ ~Failed(c)
        BY <3>5 DEF IsState, Failed
      <4> QED  BY <3>7, <4>1 DEF CallOK
    <3>9. name \in DOMAIN new
      BY DEF With
    <3> HIDE DEF new, c
    <3>10. Fit(w, d, new)
      <4>1. \A e, k, j : Leads(w, e, k, j) => j \in DOMAIN m
        BY <3>3, <3>4, <3>5 DEF Leads, Tidy
      <4>2. i \in DOMAIN w /\ i \notin DOMAIN m /\ i # Root /\ d \in DOMAIN w /\ w[d] = m[d]
        BY <3>2, <3>3, <3>5 DEF Tidy
      <4>3. \A e, k : ~Leads(w, e, k, i)
        BY <4>1, <4>2
      <4> QED  BY <2>1, <3>7, <4>2, <4>3, AddedFits DEF new
    <3>11. d \in DOMAIN w /\ w[d] = m[d] /\ i # d
      BY <3>2, <3>3, <3>5
    <3>12. /\ Later(c, v) /\ v.at = c.at /\ v.snapshots = c.snapshots
           /\ \/ ~Failed(v) /\ Saved(w, v.inode, d, new)
              \/ Failed(v) /\ v.inode = w
      BY <3>5, <3>8, <3>10, <3>11, SaveKeeps
    <3> HIDE DEF v
    <3>13. Later(s, v)
      <4>1. Later(s, c)
        BY <3>7, <3>8 DEF Later
      <4> QED  BY <3>12, <4>1, LaterStill
    <3>14. ASSUME Saved(w, v.inode, d, new) PROVE Created(s, v, name, kind)
      <4>1. v.inode[d] = [m[d] EXCEPT !.entries = new] /\ IsNode(m[d])
        BY <3>5, <3>11, <3>14 DEF Saved, Tidy
      <4>2. v.inode[d].entries = new /\ v.inode[d].frozen = 0 /\ v.inode[d].kind \in DirKinds
        BY <3>5, <4>1 DEF IsNode
      <4>3. v.at = i /\ i \in DOMAIN v.inode /\ d \in DOMAIN v.inode /\ v.inode[i] = x
        BY <3>3, <3>8, <3>11, <3>12, <3>14 DEF Saved
      <4> QED  BY <3>2, <3>8, <3>9, <3>12, <4>2, <4>3 DEF Created, x
    <3> QED  BY <3>1, <3>12, <3>13, <3>14
  <2> QED  BY <2>3, <2>4
<1> QED  BY <1>4, <1>5

\* The file the call has come to, which may change.
OpenFile(s) == CallOK(s) /\ s.at \in DOMAIN s.inode /\ s.inode[s.at].frozen = 0

\* The data of the file changes, and nothing else of the inodes.
DataSet(s, t, data) ==
    /\ IsState(t) /\ t.at = s.at
    /\ t.inode = [s.inode EXCEPT ![s.at] = [s.inode[s.at] EXCEPT !.data = data]]

LEMMA DataFacts ==
  ASSUME NEW s, OpenFile(s), NEW t, NEW data, DataSet(s, t, data)
  PROVE  Later(s, t) /\ OpenFile(t)
<1> DEFINE m == s.inode
           i == s.at
           x == [m[i] EXCEPT !.data = data]
<1>1. Tidy(m) /\ IsNode(m[i]) /\ i \in DOMAIN m /\ m[i].frozen = 0
  BY DEF OpenFile, CallOK, Tidy
<1>2. t.inode = [m EXCEPT ![i] = x] /\ IsState(t) /\ t.at = i
  BY DEF DataSet
<1>3. IsNode(x) /\ x.frozen = 0 /\ x.entries = m[i].entries
  BY <1>1 DEF IsNode
<1> HIDE DEF x
<1>4. Tidy(t.inode) /\ FrozenKept(m, t.inode)
  BY <1>1, <1>2, <1>3, ReplacedTidy
<1>5. t.at \in DOMAIN t.inode /\ t.inode[t.at].frozen = 0
  BY <1>1, <1>2, <1>3
<1> QED  BY <1>2, <1>4, <1>5 DEF Later, CallOK, OpenFile

LEMMA ResizeFacts ==
  ASSUME NEW s, OpenFile(s), NEW len
  PROVE  Later(s, resize(s, len)) /\ OpenFile(resize(s, len))
<1> DEFINE old == s.inode[s.at].data
           data == [p \in 1 .. len |-> IF p <= Len(old) THEN old[p] ELSE Zero]
           t == resize(s, len)
<1>1. CallOK(s) /\ IsState(s)
  BY DEF OpenFile, CallOK
<1>2. CASE t = s
  BY <1>1, <1>2, LooksHere
<1>3. CASE t = [s EXCEPT !.inode[s.at].data = data, !.luck = @ - 1]
  <2> HIDE DEF data
  <2>1. DataSet(s, t, data)
    <3> HIDE DEF t
    <3> QED  BY <1>1, <1>3 DEF IsState, DataSet
  <2> HIDE DEF t
  <2>2. Later(s, t) /\ OpenFile(t)
    BY <2>1, DataFacts
  <2> QED  BY <2>2 DEF t
<1>4. CASE t = [Throw(s, "ENOSPC") EXCEPT !.short = TRUE]
  <2> HIDE DEF t
  <2>1. SameInodes(s, t) /\ t.at = s.at
    BY <1>1, <1>4 DEF IsState, SameInodes, Throw
  <2>2. Later(s, t) /\ OpenFile(t)
    BY <1>1, <2>1, SameLooks DEF OpenFile, SameInodes
  <2> QED  BY <2>2 DEF t
<1>5. t = s \/ t = [s EXCEPT !.inode[s.at].data = data, !.luck = @ - 1]
      \/ t = [Throw(s, "ENOSPC") EXCEPT !.short = TRUE]
  BY DEF resize
<1> QED  BY <1>2, <1>3, <1>4, <1>5

LEMMA WriteFacts ==
  ASSUME NEW s, OpenFile(s), NEW data, NEW own
  PROVE  Later(s, write(s, data, own))
<1> DEFINE old == s.inode[s.at].data
           w(n) == [s EXCEPT !.inode[s.at].data = Overwritten(old, data, n)]
           t == write(s, data, own)
<1>1. IsState(s)
  BY DEF OpenFile, CallOK
<1>2. \A n : DataSet(s, w(n), Overwritten(old, data, n))
  BY <1>1 DEF IsState, DataSet
<1>3. \A n : Later(s, w(n)) /\ IsState(w(n))
  BY <1>2, DataFacts DEF DataSet
<1> DEFINE part == w(s.luck)
           e == "EIO"
<1>4. t = w(Len(data)) \/ t = Throw(part, e)
  BY DEF write
<1> HIDE DEF w, t, e
<1>5. Later(s, Throw(part, e))
  <2>1. Later(s, part) /\ IsState(part)
    BY <1>3
  <2> HIDE DEF part
  <2>2. SameInodes(part, Throw(part, e))
    BY <2>1, Throwing
  <2>3. Later(part, Throw(part, e))
    BY <2>1, <2>2, SameLooks DEF Later
  <2> QED  BY <2>1, <2>3, LaterStill
<1>6. Later(s, t)
  BY <1>3, <1>4, <1>5
<1> QED  BY <1>6 DEF t

LEMMA PutFacts ==
  ASSUME NEW s, OpenFile(s), NEW data
  PROVE  Later(s, put(s, data))
<1> DEFINE t == resize(s, Len(data))
           after == write(t, data, TRUE)
           alone == write(s, data, s.snapshots = 0)
           done == put(s, data)
<1>1. Later(s, t) /\ OpenFile(t)
  BY ResizeFacts
<1>2. done = t \/ done = after \/ done = alone
  BY DEF put, Then
<1>3. Later(s, alone)
  BY WriteFacts
<1> HIDE DEF t, alone, done
<1>4. Later(t, after)
  BY <1>1, WriteFacts
<1> HIDE DEF after
<1>5. Later(s, done)
  BY <1>1, <1>2, <1>3, <1>4, LaterStill
<1> QED  BY <1>5 DEF done

\* A name goes, and the inode it leads to, which has no other.
LEMMA UnlinkFacts ==
  ASSUME NEW s, CallOK(s), ~Failed(s), NEW d, NEW name, NEW i, Private(s, d),
         Leads(s.inode, d, name, i), s.inode[i].frozen = 0
  PROVE  Later(s, unlink_inode(s, d, name))
<1> DEFINE m == s.inode
           list == Without(m[d].entries, name)
           a == get_inode(s, d, name)
           b == save_dentries(a, d, list)
           w == b.inode
           c == [b EXCEPT !.inode = Without(@, a.at)]
           t == unlink_inode(s, d, name)
<1>1. t = IF Failed(a) THEN a ELSE IF Failed(b) THEN b ELSE c
  BY DEF unlink_inode, Then, Entries
<1>2. /\ Tidy(m) /\ d \in DOMAIN m /\ m[d].frozen = 0 /\ i \in DOMAIN m /\ i # Root
      /\ m[d].kind \in DirKinds
  <2>1. Tidy(m) /\ d \in DOMAIN m /\ m[d].frozen = 0 /\ i \in DOMAIN m /\ i # Root /\ IsNode(m[d])
    BY DEF Tidy, CallOK, Leads
  <2>2. m[d].entries # NoEntries
    BY NoNames DEF Leads
  <2> QED  BY <2>1, <2>2 DEF IsNode
<1>3. /\ LooksOn(s, a)
      /\ ~Failed(a) => a = [s EXCEPT !.at = Entries(s, d)[name]]
  BY <1>2, GetInodeFacts
<1> HIDE DEF a
<1>4. CASE Failed(a)
  BY <1>1, <1>3, <1>4, LookedOnce
<1>5. CASE ~Failed(a)
  <2>1. a.inode = m /\ a.at = i /\ CallOK(a)
    <3>1. a = [s EXCEPT !.at = i]
      BY <1>3, <1>5 DEF Entries, Leads
    <3>2. IsState(s)
      BY DEF CallOK
    <3>3. a.inode = m /\ a.at = i
      BY <3>1, <3>2 DEF IsState
    <3> QED  BY <1>3, <3>3 DEF LooksOn
  <2>4. Fit(m, d, list)
    BY <1>2, RemovedFits
  <2> HIDE DEF list, m
  <2>5. /\ Later(a, b)
        /\ \/ ~Failed(b) /\ Saved(m, w, d, list)
           \/ Failed(b) /\ w = m
    BY <1>2, <1>5, <2>1, <2>4, SaveKeeps
  <2> HIDE DEF b
  <2>6. Later(s, b)
    BY <1>3, <2>5, LookedOnce, LaterStill
  <2>7. CASE Failed(b)
    BY <1>1, <1>5, <2>6, <2>7
  <2>8. CASE ~Failed(b)
    <3> DEFINE S == DOMAIN w \ {i}
               z == [j \in S |-> w[j]]
    <3>1. c.inode = z /\ IsState(c)
      <4>1. IsState(b)
        BY <2>5 DEF Later, CallOK
      <4> QED  BY <2>1, <4>1 DEF IsState, Without
    <3>2. Saved(m, w, d, list) /\ Tidy(w)
      BY <2>5, <2>8 DEF Later, CallOK
    <3> HIDE DEF w
    <3>4. \A e, n, j : Leads(w, e, n, j) => j # i /\ j \in DOMAIN w
      <4>1. \A e, n : ~Leads(w, e, n, i)
        BY <1>2, <3>2, RemovedFacts DEF list, m
      <4> QED  BY <3>2, <4>1 DEF Tidy
    <3>5. Tidy(z)
      <4>1. Root \in S
        BY <1>2, <3>2 DEF Tidy
      <4> QED  BY <3>2, <3>4, <4>1, CutTidy
    <3>6. FrozenKept(m, z)
      <4>1. FrozenKept(m, w)
        BY <2>1, <2>5 DEF Later, w
      <4>2. m[i].frozen = 0
        BY DEF m
      <4> QED  BY <4>1, <4>2 DEF FrozenKept
    <3>7. Later(s, c)
      BY <3>1, <3>5, <3>6 DEF Later, CallOK, m
    <3> QED  BY <1>1, <1>5, <2>8, <3>7
  <2> QED  BY <2>7, <2>8
<1> QED  BY <1>4, <1>5

LEMMA AnnouncedFacts ==
  ASSUME NEW s, NEW t, Later(s, t)
  PROVE  Later(s, Announced(t))
<1>1. IsState(t)
  BY DEF Later, CallOK
<1>2. SameInodes(t, Announced(t))
  BY <1>1 DEF IsState, SameInodes, Announced
<1> QED  BY <1>2, SameLooks, LaterStill DEF Later

\* What an inode is stays the same while the call looks.
LEMMA LookedAt ==
  ASSUME NEW s, NEW t, LooksOn(s, t), NEW d \in DOMAIN s.inode
  PROVE  /\ d \in DOMAIN t.inode /\ t.inode[d].kind = s.inode[d].kind
         /\ t.inode[d].frozen = s.inode[d].frozen
         /\ DOMAIN t.inode[d].entries = DOMAIN s.inode[d].entries
BY DEF LooksOn, Looked

------------------------------------------------------------------------------
(***************************************************************************)
(* The handlers: each keeps the inodes tidy and the frozen ones as they    *)
(* are, wherever it ends.                                                  *)
(***************************************************************************)
LEMMA GetattrKeeps ==
  ASSUME NEW s, CallOK(s), ~Failed(s), NEW path, path \in Seq(Range(path))
  PROVE  Later(s, do_getattr(s, path)) /\ Later(s, do_readdir(s, path))
BY FrontFacts, PathFacts, AtDirectoryFacts, LookedOnce DEF do_getattr, do_readdir

LEMMA MkdirKeeps ==
  ASSUME NEW s, CallOK(s), ~Failed(s), NEW path, path \in Seq(Range(path))
  PROVE  Later(s, do_mkdir(s, path))
<1> DEFINE a == Parent(s, path)
           b == create_dentry(a, Last(path), "directory")
           t == do_mkdir(s, path)
<1>1. t = IF Failed(a) THEN a ELSE IF Failed(b) THEN b ELSE Announced(b)
  BY DEF do_mkdir, Then
<1>2. Later(s, a) /\ CallOK(a) /\ (~Failed(a) => Open(a))
  BY ParentFacts, LookedOnce
<1> HIDE DEF a
<1>3. ~Failed(a) => Later(a, b)
  <2>1. "directory" \in Kind
    BY DEF Kind
  <2> QED  BY <1>2, <2>1, CreateFacts
<1> HIDE DEF b, t
<1>4. Later(s, t)
  BY <1>1, <1>2, <1>3, LaterStill, AnnouncedFacts
<1> QED  BY <1>4 DEF t

LEMMA CreateKeeps ==
  ASSUME NEW s, CallOK(s), ~Failed(s), NEW path, path \in Seq(Range(path))
  PROVE  Later(s, do_create(s, path))
<1> DEFINE name == Last(path)
           a == Parent(s, path)
           b == get_inode(a, a.at, name)
           c == [b EXCEPT !.err = "", !.at = a.at]
           e == create_dentry(c, name, "file")
           t == do_create(s, path)
<1>1. t = IF Failed(a) THEN a ELSE IF ~Failed(b) THEN Throw(b, "EEXIST")
          ELSE IF Failed(e) THEN e ELSE Announced(e)
  BY DEF do_create, Then
<1>2. Later(s, a) /\ CallOK(a) /\ (~Failed(a) => Open(a))
  BY ParentFacts, LookedOnce
<1> HIDE DEF a
<1>3. CASE Failed(a)
  BY <1>1, <1>2, <1>3
<1>4. CASE ~Failed(a)
  <2>1. Open(a) /\ a.at \in DOMAIN a.inode
    BY <1>2, <1>4 DEF Open
  <2>2. LooksOn(a, b)
    BY <1>2, <1>4, <2>1, GetInodeFacts
  <2> HIDE DEF b, t
  <2>3. Later(s, b) /\ CallOK(b) /\ IsState(b)
    BY <1>2, <2>2, LookedOnce, LaterStill DEF LooksOn, CallOK
  <2>4. CASE ~Failed(b)
    <3>1. Later(b, Throw(b, "EEXIST"))
      BY <2>3, Throwing, SameLooks
    <3>2. Later(s, t)
      BY <1>1, <1>4, <2>3, <2>4, <3>1, LaterStill
    <3> QED  BY <3>2 DEF t
  <2>5. CASE Failed(b)
    <3>1. SameInodes(b, c) /\ ~Failed(c) /\ c.at = a.at
      BY <2>3 DEF IsState, SameInodes, Failed
    <3> HIDE DEF c
    <3>2. LooksOn(b, c) /\ LooksOn(a, c) /\ CallOK(c)
      BY <2>2, <2>3, <3>1, SameLooks, LookedTwice
    <3>3. Open(c)
      BY <2>1, <3>1, <3>2, LookedAt DEF Open
    <3>4. Later(c, e)
      <4>1. "file" \in Kind
        BY DEF Kind
      <4> QED  BY <3>1, <3>2, <3>3, <4>1, CreateFacts
    <3> HIDE DEF e
    <3>5. Later(s, e)
      BY <1>2, <3>2, <3>4, LookedOnce, LaterStill
    <3>6. Later(s, t)
      BY <1>1, <1>4, <2>5, <3>5, AnnouncedFacts
    <3> QED  BY <3>6 DEF t
  <2> QED  BY <2>4, <2>5
<1> QED  BY <1>3, <1>4

LEMMA MknodKeeps ==
  ASSUME NEW s, CallOK(s), ~Failed(s), NEW path, path \in Seq(Range(path)), NEW kind \in Kind
  PROVE  Later(s, do_mknod(s, path, kind))
<1> DEFINE a == Parent(s, path)
           b == create_dentry(a, Last(path), kind)
           c == [b EXCEPT !.inode[a.at] = NewInode(kind)]
           t == do_mknod(s, path, kind)
<1>1. t = IF Failed(a) THEN a ELSE IF Failed(b) THEN b ELSE Announced(c)
  BY DEF do_mknod, Then
<1>2. Later(s, a) /\ CallOK(a) /\ (~Failed(a) => Open(a))
  BY ParentFacts, LookedOnce
<1> HIDE DEF a
<1>3. ~Failed(a) => Later(a, b) /\ (~Failed(b) => Created(a, b, Last(path), kind))
  BY <1>2, CreateFacts
<1> HIDE DEF b, t
<1>4. CASE Failed(a) \/ Failed(b)
  <2>1. Later(s, t)
    BY <1>1, <1>2, <1>3, <1>4, LaterStill
  <2> QED  BY <2>1 DEF t
<1>5. CASE ~Failed(a) /\ ~Failed(b)
  <2> DEFINE m == b.inode
             d == a.at
             x == NewInode(kind)
  <2>1. IsState(b) /\ Tidy(m) /\ d \in DOMAIN m /\ m[d].frozen = 0
    BY <1>3, <1>5 DEF Later, CallOK, Created
  <2>2. c.inode = [m EXCEPT ![d] = x] /\ IsState(c)
    BY <2>1 DEF IsState
  <2>3. IsNode(x) /\ x.frozen = 0 /\ DOMAIN x.entries = {}
    BY NewInodeFacts
  <2> HIDE DEF c, x
  <2>4. Tidy(c.inode) /\ FrozenKept(m, c.inode)
    BY <2>1, <2>2, <2>3, ReplacedTidy
  <2>5. Later(b, c)
    BY <2>2, <2>4 DEF Later, CallOK
  <2>6. Later(s, c)
    BY <1>2, <1>3, <1>5, <2>5, LaterStill
  <2>7. Later(s, t)
    BY <1>1, <1>5, <2>6, AnnouncedFacts
  <2> QED  BY <2>7 DEF t
<1> QED  BY <1>4, <1>5

LEMMA SymlinkKeeps ==
  ASSUME NEW s, CallOK(s), ~Failed(s), NEW path, path \in Seq(Range(path)), NEW data
  PROVE  Later(s, do_symlink(s, path, data))
<1> DEFINE a == Parent(s, path)
           b == create_dentry(a, Last(path), "symlink")
           c == put(b, data)
           t == do_symlink(s, path, data)
<1>1. t = IF Failed(a) THEN a ELSE IF Failed(b) THEN b ELSE IF Failed(c) THEN c ELSE Announced(c)
  BY DEF do_symlink, Then
<1>2. Later(s, a) /\ CallOK(a) /\ (~Failed(a) => Open(a))
  BY ParentFacts, LookedOnce
<1> HIDE DEF a
<1>3. "symlink" \in Kind
  BY DEF Kind
<1>4. ~Failed(a) => Later(a, b) /\ (~Failed(b) => Created(a, b, Last(path), "symlink"))
  BY <1>2, <1>3, CreateFacts
<1> HIDE DEF b
<1>5. ~Failed(a) /\ ~Failed(b) => Later(b, c)
  <2>1. SUFFICES ASSUME ~Failed(a), ~Failed(b) PROVE Later(b, c)
    OBVIOUS
  <2>2. CallOK(b) /\ b.at \in DOMAIN b.inode /\ b.inode[b.at] = NewInode("symlink")
    BY <1>4, <2>1 DEF Later, Created
  <2>3. b.inode[b.at].frozen = 0
    BY <1>3, <2>2, NewInodeFacts
  <2> QED  BY <2>2, <2>3, PutFacts DEF OpenFile
<1> HIDE DEF c, t
<1>6. Later(s, t)
  BY <1>1, <1>2, <1>4, <1>5, LaterStill, AnnouncedFacts
<1> QED  BY <1>6 DEF t

\* A handler of a file has found it.
LEMMA FileFacts ==
  ASSUME NEW s, CallOK(s), ~Failed(s), NEW path, path \in Seq(Range(path))
  PROVE  LET a == get_inode_by_path(s, path)
             b == NotFrozen(a, a.at)
         IN  Later(s, a) /\ Later(s, b) /\ (~Failed(a) /\ ~Failed(b) => OpenFile(b))
<1> DEFINE a == get_inode_by_path(s, path)
           b == NotFrozen(a, a.at)
<1>1. /\ Later(s, a) /\ CallOK(a)
      /\ ~Failed(a) => a.at \in DOMAIN a.inode
  BY PathFacts, FrontFacts, LookedOnce DEF LooksOn
<1> HIDE DEF a
<1>2. Later(a, b) /\ CallOK(b) /\ (~Failed(b) => b = a /\ a.inode[a.at].frozen = 0)
  BY <1>1, NotFrozenFacts
<1> HIDE DEF b
<1>3. Later(s, a) /\ Later(s, b) /\ (~Failed(a) /\ ~Failed(b) => OpenFile(b))
  BY <1>1, <1>2, LaterStill DEF OpenFile
<1> QED  BY <1>3 DEF a, b

LEMMA WriteKeeps ==
  ASSUME NEW s, CallOK(s), ~Failed(s), NEW path, path \in Seq(Range(path)), NEW data
  PROVE  Later(s, do_write(s, path, data))
<1> DEFINE a == get_inode_by_path(s, path)
           b == NotFrozen(a, a.at)
           c == put(b, data)
           t == do_write(s, path, data)
<1>1. t = IF Failed(a) THEN a ELSE IF Failed(b) THEN b ELSE IF b.inode[b.at].kind = "file" THEN c ELSE b
  BY DEF do_write, File, Then
<1>2. Later(s, a) /\ Later(s, b) /\ (~Failed(a) /\ ~Failed(b) => OpenFile(b))
  BY FileFacts
<1> HIDE DEF a, b
<1>3. ~Failed(a) /\ ~Failed(b) => Later(b, c)
  BY <1>2, PutFacts
<1> HIDE DEF c, t
<1>4. Later(s, t)
  BY <1>1, <1>2, <1>3, LaterStill
<1> QED  BY <1>4 DEF t

LEMMA TruncateKeeps ==
  ASSUME NEW s, CallOK(s), ~Failed(s), NEW path, path \in Seq(Range(path)), NEW len
  PROVE  Later(s, do_truncate(s, path, len))
<1> DEFINE a == get_inode_by_path(s, path)
           b == NotFrozen(a, a.at)
           c == resize(b, len)
           t == do_truncate(s, path, len)
<1>1. t = IF Failed(a) THEN a ELSE IF Failed(b) THEN b ELSE IF b.inode[b.at].kind = "file" THEN c ELSE b
  BY DEF do_truncate, File, Then
<1>2. Later(s, a) /\ Later(s, b) /\ (~Failed(a) /\ ~Failed(b) => OpenFile(b))
  BY FileFacts
<1> HIDE DEF a, b
<1>3. ~Failed(a) /\ ~Failed(b) => Later(b, c)
  BY <1>2, ResizeFacts
<1> HIDE DEF c, t
<1>4. Later(s, t)
  BY <1>1, <1>2, <1>3, LaterStill
<1> QED  BY <1>4 DEF t

\* Steps of a call that only looks.
LEMMA LookedLater == \A s, t, u : LooksOn(s, t) /\ Later(t, u) => Later(s, u)
BY LookedOnce, LaterStill

LEMMA UnlinkKeeps ==
  ASSUME NEW s, CallOK(s), ~Failed(s), NEW path, path \in Seq(Range(path))
  PROVE  Later(s, do_unlink(s, path))
<1> DEFINE name == Last(path)
           a == Directory(s, Front(path))
           b == get_inode(a, a.at, name)
           c == NotFrozen(b, a.at)
           d == NotFrozen(c, c.at)
           e == Check(d, d.inode[d.at].kind \notin DirKinds, "EISDIR")
           f == unlink_inode(e, a.at, name)
           t == do_unlink(s, path)
<1>1. t = IF Failed(a) THEN a ELSE IF Failed(b) THEN b ELSE IF Failed(c) THEN c
          ELSE IF Failed(d) THEN d ELSE IF Failed(e) THEN e ELSE IF Failed(f) THEN f ELSE Announced(f)
  BY DEF do_unlink, Then
<1>2. LooksOn(s, a) /\ CallOK(a) /\ (~Failed(a) => a.at \in DOMAIN a.inode)
  BY FrontFacts, AtDirectoryFacts
<1> HIDE DEF a
<1>3. CASE Failed(a)
  BY <1>1, <1>2, <1>3, LookedOnce
<1>4. CASE ~Failed(a)
  <2>1. /\ LooksOn(a, b) /\ CallOK(b)
        /\ ~Failed(b) => Private(b, a.at) /\ Leads(b.inode, a.at, name, b.at)
    BY <1>2, <1>4, GetInodeFacts DEF LooksOn
  <2> HIDE DEF b
  <2>2. Later(s, b)
    BY <1>2, <2>1, LookedTwice, LookedOnce
  <2>3. Later(b, c) /\ CallOK(c) /\ (~Failed(c) => c = b)
    BY <2>1, NotFrozenFacts
  <2> HIDE DEF c
  <2>4. Later(c, d) /\ CallOK(d) /\ (~Failed(d) => d = c /\ c.inode[c.at].frozen = 0)
    BY <2>3, NotFrozenFacts
  <2> HIDE DEF d
  <2>5. e = d \/ e = Throw(d, "EISDIR")
    BY DEF Check
  <2> HIDE DEF e
  <2>6. Later(d, e) /\ CallOK(e) /\ (~Failed(e) => e = d)
    BY <2>4, <2>5, CheckFacts
  <2>7. Later(s, c) /\ Later(s, d) /\ Later(s, e)
    BY <2>2, <2>3, <2>4, <2>6, LaterStill
  <2>8. CASE ~Failed(b) /\ ~Failed(c) /\ ~Failed(d) /\ ~Failed(e)
    <3>1. e = b /\ b.inode[b.at].frozen = 0
      BY <2>3, <2>4, <2>6, <2>8
    <3>2. Later(e, f)
      BY <2>1, <2>8, <3>1, UnlinkFacts
    <3> HIDE DEF f, t
    <3>3. Later(s, f)
      BY <2>7, <3>2, LaterStill
    <3>4. Later(s, t)
      BY <1>1, <1>4, <2>8, <3>3, AnnouncedFacts
    <3> QED  BY <3>4 DEF t
  <2> QED  BY <1>1, <1>4, <2>2, <2>7, <2>8
<1> QED  BY <1>3, <1>4

LEMMA RmdirKeeps ==
  ASSUME NEW s, CallOK(s), ~Failed(s), NEW path, path \in Seq(Range(path))
  PROVE  Later(s, do_rmdir(s, path))
<1> DEFINE name == Last(path)
           a == Directory(s, Front(path))
           b == get_inode(a, a.at, name)
           h == Announced(b)
           c == Check(h, Frozen(b, b.at) # 1, "EROFS")
           d == Check(c, Entries(c, c.at) = NoEntries, "ENOTEMPTY")
           f == unlink_inode(d, a.at, name)
           t == do_rmdir(s, path)
<1>1. t = IF Failed(a) THEN a ELSE IF Failed(b) THEN b
          ELSE IF b.inode[b.at].kind # "directory" THEN b
          ELSE IF Failed(c) THEN c ELSE IF Failed(d) THEN d ELSE f
  BY DEF do_rmdir, Then
<1>2. LooksOn(s, a) /\ CallOK(a) /\ (~Failed(a) => a.at \in DOMAIN a.inode)
  BY FrontFacts, AtDirectoryFacts
<1> HIDE DEF a
<1>3. CASE Failed(a)
  BY <1>1, <1>2, <1>3, LookedOnce
<1>4. CASE ~Failed(a)
  <2>1. /\ LooksOn(a, b) /\ CallOK(b)
        /\ ~Failed(b) => Private(b, a.at) /\ Leads(b.inode, a.at, name, b.at)
    BY <1>2, <1>4, GetInodeFacts DEF LooksOn
  <2> HIDE DEF b
  <2>2. Later(s, b)
    BY <1>2, <2>1, LookedTwice, LookedOnce
  <2>3. h.inode = b.inode /\ h.at = b.at /\ (Failed(h) <=> Failed(b)) /\ CallOK(h) /\ Later(s, h)
    <3>1. IsState(b)
      BY <2>1 DEF CallOK
    <3>2. h.inode = b.inode /\ h.at = b.at /\ (Failed(h) <=> Failed(b))
      BY <3>1 DEF IsState, Announced, Failed
    <3>3. Later(s, h)
      BY <2>2, AnnouncedFacts
    <3> QED  BY <3>2, <3>3 DEF Later
  <2>4. (c = h /\ b.inode[b.at].frozen # 1) \/ c = Throw(h, "EROFS")
    BY DEF Check, Frozen
  <2> HIDE DEF c, h
  <2>5. Later(h, c) /\ CallOK(c) /\ (~Failed(c) => c = h /\ b.inode[b.at].frozen # 1)
    <3>1. c = h \/ c = Throw(h, "EROFS")
      BY <2>4
    <3>2. Later(h, c) /\ CallOK(c) /\ (~Failed(c) => c = h /\ c # Throw(h, "EROFS"))
      BY <2>3, <3>1, CheckFacts
    <3> QED  BY <2>4, <3>2
  <2>6. (d = c /\ c.inode[c.at].entries = NoEntries) \/ d = Throw(c, "ENOTEMPTY")
    BY DEF Check, Entries
  <2> HIDE DEF d
  <2>7. Later(c, d) /\ CallOK(d) /\ (~Failed(d) => d = c /\ c.inode[c.at].entries = NoEntries)
    <3>1. d = c \/ d = Throw(c, "ENOTEMPTY")
      BY <2>6
    <3>2. Later(c, d) /\ CallOK(d) /\ (~Failed(d) => d = c /\ d # Throw(c, "ENOTEMPTY"))
      BY ONLY <2>5, <3>1, CheckFacts, ZenonT(40)
    <3> QED  BY <2>6, <3>2
  <2>8. Later(s, c) /\ Later(s, d)
    BY <2>3, <2>5, <2>7, LaterStill
  <2>9. CASE ~Failed(b) /\ ~Failed(c) /\ ~Failed(d)
    <3>1. d = h /\ d.inode = b.inode /\ b.inode[b.at].frozen # 1 /\ b.inode[b.at].entries = NoEntries
      BY <2>3, <2>5, <2>7, <2>9
    <3>2. Private(d, a.at) /\ Leads(d.inode, a.at, name, b.at)
      BY <2>1, <2>9, <3>1 DEF Private, Frozen, Entries
    <3>3. b.inode[b.at].frozen = 0
      <4>1. IsNode(b.inode[b.at])
        BY <2>1, <2>9 DEF CallOK, Tidy, Leads
      <4> QED  BY <3>1, <4>1, NoNames DEF IsNode
    <3>4. Later(d, f)
      BY <2>7, <2>9, <3>1, <3>2, <3>3, UnlinkFacts
    <3> HIDE DEF f, t
    <3>5. Later(s, f)
      BY <2>8, <3>4, LaterStill
    <3>6. Later(s, t)
      BY <1>1, <1>4, <2>2, <2>9, <3>5
    <3> QED  BY <3>6 DEF t
  <2> QED  BY <1>1, <1>4, <2>2, <2>8, <2>9
<1> QED  BY <1>3, <1>4

\* A rename takes the name from one directory, and gives the inode one in another.
LEMMA RenameKeeps ==
  ASSUME NEW s, CallOK(s), ~Failed(s), NEW path, path \in Seq(Range(path)), NEW name, name \in Seq(Range(name))
  PROVE  Later(s, do_rename(s, path, name))
<1> DEFINE old == Last(path)
           new == Last(name)
           a == Directory(s, Front(path))
           b == Directory(a, Front(name))
           c == NotFrozen(b, a.at)
           d == NotFrozen(c, b.at)
           e == Check(d, old \in DOMAIN Entries(d, a.at), "EIO")
           i == Entries(e, a.at)[old]
           f == NotFrozen(e, i)
           g == save_dentries(f, a.at, Without(Entries(f, a.at), old))
           h == Check(g, ~(new \in DOMAIN Entries(g, b.at)), "EEXIST")
           k == save_dentries(h, b.at, With(Entries(h, b.at), new, i))
           Tell(z) == IF Failed(z) THEN [z EXCEPT !.untold = TRUE] ELSE Announced(z)
           t == do_rename(s, path, name)
<1>1. t = IF Failed(a) THEN a ELSE IF Failed(b) THEN b ELSE IF Failed(c) THEN c ELSE IF Failed(d) THEN d
          ELSE IF Failed(e) THEN e ELSE IF Failed(f) THEN f ELSE IF Failed(g) THEN g
          ELSE Tell(IF Failed(h) THEN h ELSE k)
  BY DEF do_rename, Then
<1>2. \A z : Later(s, z) => Later(s, Tell(z))
  <2>1. SUFFICES ASSUME NEW z, Later(s, z) PROVE Later(s, [z EXCEPT !.untold = TRUE])
    BY AnnouncedFacts
  <2>2. IsState(z)
    BY <2>1 DEF Later, CallOK
  <2>3. SameInodes(z, [z EXCEPT !.untold = TRUE])
    BY <2>2 DEF IsState, SameInodes
  <2> QED  BY <2>1, <2>3, SameLooks, LaterStill DEF Later
<1> HIDE DEF Tell, old, new
<1>3. /\ LooksOn(s, a) /\ CallOK(a)
      /\ ~Failed(a) => a.at \in DOMAIN a.inode /\ a.inode[a.at].kind \in DirKinds
  BY FrontFacts, AtDirectoryFacts
<1> HIDE DEF a
<1>4. CASE Failed(a)
  BY <1>1, <1>3, <1>4, LookedOnce
<1>5. CASE ~Failed(a)
  <2>1. /\ LooksOn(a, b) /\ CallOK(b)
        /\ ~Failed(b) => b.at \in DOMAIN b.inode /\ b.inode[b.at].kind \in DirKinds
    BY <1>3, <1>5, FrontFacts, AtDirectoryFacts
  <2> HIDE DEF b
  <2>2. Later(s, b) /\ a.at \in DOMAIN b.inode /\ b.inode[a.at].kind \in DirKinds
    BY <1>3, <1>5, <2>1, LookedTwice, LookedOnce, LookedAt
  <2>3. Later(b, c) /\ CallOK(c) /\ (~Failed(c) => c = b /\ b.inode[a.at].frozen = 0)
    BY <2>1, NotFrozenFacts
  <2> HIDE DEF c
  <2>4. Later(c, d) /\ CallOK(d) /\ (~Failed(d) => d = c /\ c.inode[b.at].frozen = 0)
    BY <2>3, NotFrozenFacts
  <2> HIDE DEF d
  <2>5. (e = d /\ old \in DOMAIN d.inode[a.at].entries) \/ e = Throw(d, "EIO")
    BY DEF Check, Entries
  <2> HIDE DEF e, i
  <2>6. Later(d, e) /\ CallOK(e) /\ (~Failed(e) => e = d /\ old \in DOMAIN d.inode[a.at].entries)
    <3>1. e = d \/ e = Throw(d, "EIO")
      BY <2>5
    <3>2. Later(d, e) /\ CallOK(e) /\ (~Failed(e) => e = d /\ e # Throw(d, "EIO"))
      BY <2>4, <3>1, CheckFacts
    <3> QED  BY <2>5, <3>2
  <2>7. Later(e, f) /\ CallOK(f) /\ (~Failed(f) => f = e /\ e.inode[i].frozen = 0)
    BY <2>6, NotFrozenFacts
  <2> HIDE DEF f
  <2>8. Later(s, c) /\ Later(s, d) /\ Later(s, e) /\ Later(s, f)
    BY <2>2, <2>3, <2>4, <2>6, <2>7, LaterStill
  <2>9. CASE Failed(b) \/ Failed(c) \/ Failed(d) \/ Failed(e) \/ Failed(f)
    BY <1>1, <1>5, <2>2, <2>8, <2>9
  <2>10. CASE ~Failed(b) /\ ~Failed(c) /\ ~Failed(d) /\ ~Failed(e) /\ ~Failed(f)
    <3> DEFINE m == b.inode
               x == a.at
               y == b.at
               list == Without(m[x].entries, old)
               w == g.inode
    <3>1. /\ f = b /\ m[x].frozen = 0 /\ m[y].frozen = 0 /\ old \in DOMAIN m[x].entries
          /\ m[x].kind \in DirKinds /\ m[y].kind \in DirKinds /\ x \in DOMAIN m /\ y \in DOMAIN m
          /\ i = m[x].entries[old] /\ m[i].frozen = 0 /\ Tidy(m)
      BY <2>1, <2>2, <2>3, <2>4, <2>6, <2>7, <2>10 DEF i, Entries, CallOK
    <3>2. Leads(m, x, old, i) /\ i \in DOMAIN m /\ i # Root
      BY <3>1 DEF Leads, Tidy
    <3>3. g = save_dentries(b, x, list)
      BY <3>1 DEF Entries
    <3> HIDE DEF g, list
    <3>4. Fit(m, x, list)
      BY <3>1, RemovedFits DEF list
    <3>5. /\ Later(b, g)
          /\ \/ ~Failed(g) /\ Saved(m, w, x, list)
             \/ Failed(g) /\ w = m
      BY <2>1, <2>10, <3>1, <3>3, <3>4, SaveKeeps
    <3>6. Later(s, g)
      BY <2>2, <3>5, LaterStill
    <3>7. CASE Failed(g)
      BY <1>1, <1>5, <2>10, <3>6, <3>7
    <3>8. CASE ~Failed(g)
      <4>1. Saved(m, w, x, list) /\ CallOK(g)
        BY <3>5, <3>8 DEF Later
      <4>2. /\ DOMAIN w = DOMAIN m /\ w[x].entries = list
            /\ \A j \in DOMAIN m : w[j].kind = m[j].kind
            /\ \A j \in DOMAIN m : w[j].frozen = m[j].frozen
        <5>1. Tidy(m) /\ Saved(m, w, x, list)
          BY <3>1, <4>1
        <5> HIDE DEF m, w
        <5> QED  BY <5>1, SavedFacts
      <4>3. \A u, n : ~Leads(w, u, n, i)
        BY <3>1, <3>2, <4>1, RemovedFacts DEF list
      <4>4. (h = g /\ new \notin DOMAIN w[y].entries) \/ h = Throw(g, "EEXIST")
        BY DEF Check, Entries
      <4> HIDE DEF h
      <4>5. Later(g, h) /\ CallOK(h) /\ (~Failed(h) => h = g /\ new \notin DOMAIN w[y].entries)
        <5>1. h = g \/ h = Throw(g, "EEXIST")
          BY <4>4
        <5>2. Later(g, h) /\ CallOK(h) /\ (~Failed(h) => h = g /\ h # Throw(g, "EEXIST"))
          BY <4>1, <5>1, CheckFacts
        <5> QED  BY <4>4, <5>2
      <4>6. ~Failed(h) => Later(h, k)
        <5>1. SUFFICES ASSUME ~Failed(h) PROVE Later(h, k)
          OBVIOUS
        <5>2. h = g /\ new \notin DOMAIN w[y].entries /\ h.inode = w
          BY <4>5, <5>1
        <5>3. k = save_dentries(g, y, With(w[y].entries, new, i))
          BY <5>2 DEF Entries
        <5> HIDE DEF k, w
        <5>4. Tidy(w) /\ y \in DOMAIN w /\ i \in DOMAIN w /\ w[y].frozen = 0 /\ w[y].kind \in DirKinds
          <6>1. Tidy(w)
            BY <4>1 DEF CallOK, w
          <6>2. y \in DOMAIN m /\ i \in DOMAIN m /\ m[y].frozen = 0 /\ m[y].kind \in DirKinds
            BY <3>1, <3>2
          <6> HIDE DEF m
          <6> QED  BY <4>2, <6>1, <6>2 DEF w
        <5>5. Fit(w, y, With(w[y].entries, new, i))
          BY <3>2, <4>3, <5>2, <5>4, AddedFits
        <5> QED  BY <3>8, <4>1, <5>2, <5>3, <5>4, <5>5, SaveKeeps DEF w
      <4> HIDE DEF k, t
      <4>7. Later(s, IF Failed(h) THEN h ELSE k)
        BY <3>6, <4>5, <4>6, LaterStill
      <4>8. Later(s, t)
        <5>1. t = Tell(IF Failed(h) THEN h ELSE k)
          BY <1>1, <1>5, <2>10, <3>8
        <5> QED  BY <1>2, <4>7, <5>1
      <4> QED  BY <4>8 DEF t
    <3> QED  BY <3>7, <3>8
  <2> QED  BY <2>9, <2>10
<1> QED  BY <1>4, <1>5

\* A snapshot: the new inode holds what the root does, and everything else is frozen.
FrozenRoot(m, w, i) ==
    /\ DOMAIN w = DOMAIN m
    /\ w[i] = [m[Root] EXCEPT !.frozen = 2]
    /\ \A j \in DOMAIN m : j # i =>
          w[j] = IF j # Root /\ m[j].frozen = 0 THEN [m[j] EXCEPT !.frozen = 1] ELSE m[j]

LEMMA FreezeTidy ==
  ASSUME NEW m, NEW w, NEW i \in DOMAIN m, Tidy(m), FrozenRoot(m, w, i), i # Root, m[i].frozen = 0,
         DOMAIN m[Root].entries # {}
  PROVE  Tidy(w) /\ FrozenKept(m, w)
<1>1. \A j \in DOMAIN m : IsNode(m[j])
  BY DEF Tidy
<1>2. Root \in DOMAIN m /\ m[Root].frozen = 0 /\ DOMAIN m \subseteq Inode
  BY DEF Tidy
<1>3. IsNode(w[i]) /\ w[i].entries = m[Root].entries /\ w[i].frozen = 2
  <2>1. IsNode(m[Root]) /\ w[i] = [m[Root] EXCEPT !.frozen = 2]
    BY <1>1, <1>2 DEF FrozenRoot
  <2> QED  BY <2>1 DEF IsNode
<1>4. ASSUME NEW j \in DOMAIN m, j # i, j # Root
      PROVE  IsNode(w[j]) /\ w[j].entries = m[j].entries /\ w[j].frozen # 0
  <2>1. IsNode(m[j])
    BY <1>1
  <2>2. CASE m[j].frozen = 0
    <3>1. w[j] = [m[j] EXCEPT !.frozen = 1]
      BY <1>4, <2>2 DEF FrozenRoot
    <3> QED  BY <2>1, <3>1 DEF IsNode
  <2>3. CASE m[j].frozen # 0
    BY <1>4, <2>1, <2>3 DEF FrozenRoot
  <2> QED  BY <2>2, <2>3
<1>5. w[Root] = m[Root]
  BY <1>2 DEF FrozenRoot
<1>6. DOMAIN w = DOMAIN m
  BY DEF FrozenRoot
<1>7. \A j \in DOMAIN w : IsNode(w[j])
  BY <1>1, <1>3, <1>4, <1>5, <1>6
<1>8. ASSUME NEW d, NEW n, NEW j, Leads(w, d, n, j)
      PROVE  j \in DOMAIN w /\ j # Root /\ w[j].frozen # 0
  <2>1. Leads(m, IF d = i THEN Root ELSE d, n, j)
    <3>1. CASE d = i
      BY <1>2, <1>3, <1>8, <3>1 DEF Leads
    <3>2. CASE d = Root
      BY <1>5, <1>6, <1>8, <3>2 DEF Leads
    <3>3. CASE d # i /\ d # Root
      BY <1>4, <1>6, <1>8, <3>3 DEF Leads
    <3> QED  BY <3>1, <3>2, <3>3
  <2>2. j \in DOMAIN m /\ j # Root
    BY <2>1 DEF Tidy
  <2>3. CASE j = i
    BY <1>3, <1>6, <2>2, <2>3, Marks
  <2>4. CASE j # i
    BY <1>4, <1>6, <2>2, <2>4
  <2> QED  BY <2>3, <2>4
<1>9. Tidy(w)
  BY <1>2, <1>5, <1>6, <1>7, <1>8 DEF Tidy
<1>10. FrozenKept(m, w)
  BY DEF FrozenRoot, FrozenKept
<1> QED  BY <1>9, <1>10

LEMMA SnapshotKeeps ==
  ASSUME NEW s, CallOK(s), ~Failed(s), NEW path, path \in Seq(Range(path))
  PROVE  Later(s, do_snapshot(s, path))
<1> DEFINE name == Last(path)
           a == Check(s, Len(path) = 1, "EPERM")
           b == Directory(a, <<>>)
           c == Check(b, name \notin DOMAIN Entries(b, Root), "EEXIST")
           d == Check(c, c.snapshots < MaxSnapshots, "EPERM")
           e == create_dentry(d, name, "directory")
           f == [e EXCEPT
                   !.snapshots = @ + 1,
                   !.inode = [i \in DOMAIN @ |->
                                IF i = e.at THEN [@[Root] EXCEPT !.frozen = 2]
                                ELSE IF i # Root /\ @[i].frozen = 0 THEN [@[i] EXCEPT !.frozen = 1]
                                ELSE @[i]]]
           t == do_snapshot(s, path)
<1>1. t = IF Failed(a) THEN a ELSE IF Failed(b) THEN b ELSE IF Failed(c) THEN c ELSE IF Failed(d) THEN d
          ELSE IF Failed(e) THEN e ELSE Announced(f)
  BY DEF do_snapshot, Then
<1>2. a = s \/ a = Throw(s, "EPERM")
  BY DEF Check
<1> HIDE DEF a
<1>3. Later(s, a) /\ CallOK(a)
  BY <1>2, CheckFacts
<1>4. /\ ~Failed(a) => LooksOn(a, b) /\ CallOK(b)
      /\ ~Failed(a) /\ ~Failed(b) => /\ b.at = Root /\ Root \in DOMAIN b.inode
                                     /\ b.inode[Root].kind \in DirKinds
  <2>1. Len(<<>>) = 0 /\ Len(<<>>) \in Nat
    OBVIOUS
  <2> QED  BY <1>3, <2>1, AtDirectoryFacts
<1> HIDE DEF b
<1>5. c = b \/ c = Throw(b, "EEXIST")
  BY DEF Check
<1>6. (d = c /\ c.snapshots < MaxSnapshots) \/ d = Throw(c, "EPERM")
  BY DEF Check
<1> HIDE DEF c, d
<1>7. CASE Failed(a)
  BY <1>1, <1>3, <1>7
<1>8. CASE ~Failed(a)
  <2>1. Later(s, b) /\ CallOK(b)
    BY <1>3, <1>4, <1>8, LookedOnce, LaterStill
  <2>2. Later(b, c) /\ CallOK(c) /\ (~Failed(c) => c = b)
    BY <1>5, <2>1, CheckFacts
  <2>3. Later(c, d) /\ CallOK(d) /\ (~Failed(d) => d = c /\ c.snapshots < MaxSnapshots)
    <3>1. d = c \/ d = Throw(c, "EPERM")
      BY <1>6
    <3>2. Later(c, d) /\ CallOK(d) /\ (~Failed(d) => d = c /\ d # Throw(c, "EPERM"))
      BY <2>2, <3>1, CheckFacts
    <3> QED  BY <1>6, <3>2
  <2>4. Later(s, c) /\ Later(s, d)
    BY <2>1, <2>2, <2>3, LaterStill
  <2>5. CASE Failed(b) \/ Failed(c) \/ Failed(d)
    BY <1>1, <1>8, <2>1, <2>4, <2>5
  <2>6. CASE ~Failed(b) /\ ~Failed(c) /\ ~Failed(d)
    <3>1. d = b /\ d.at = Root /\ d.snapshots < MaxSnapshots /\ Open(d)
      <4>1. d = b /\ d.at = Root /\ d.snapshots < MaxSnapshots
        BY <1>4, <1>8, <2>2, <2>3, <2>6
      <4>2. b.inode[Root].frozen = 0
        BY <2>1 DEF CallOK, Tidy
      <4> QED  BY <1>4, <1>8, <2>6, <4>1, <4>2 DEF Open
    <3>2. Later(d, e) /\ (~Failed(e) => Created(d, e, name, "directory"))
      <4>1. "directory" \in Kind
        BY DEF Kind
      <4> QED  BY <2>3, <2>6, <3>1, <4>1, CreateFacts
    <3> HIDE DEF e, t
    <3>3. CASE Failed(e)
      <4>1. Later(s, t)
        BY <1>1, <1>8, <2>4, <2>6, <3>2, <3>3, LaterStill
      <4> QED  BY <4>1 DEF t
    <3>4. CASE ~Failed(e)
      <4> DEFINE m == e.inode
                 i == e.at
                 w == f.inode
      <4>1. /\ IsState(e) /\ Tidy(m) /\ i \in DOMAIN m /\ i \notin DOMAIN d.inode
            /\ m[i] = NewInode("directory")
            /\ name \in DOMAIN m[Root].entries /\ e.snapshots = d.snapshots
        BY <3>1, <3>2, <3>4 DEF Later, CallOK, Created
      <4>2. i # Root /\ m[i].frozen = 0
        <5>1. "directory" \in Kind
          BY DEF Kind
        <5>2. m[i].frozen = 0
          BY <4>1, <5>1, NewInodeFacts
        <5> QED  BY <2>3, <4>1, <5>2 DEF CallOK, Tidy
      <4>3. FrozenRoot(m, w, i)
        <5>1. w = [j \in DOMAIN m |->
                     IF j = i THEN [m[Root] EXCEPT !.frozen = 2]
                     ELSE IF j # Root /\ m[j].frozen = 0 THEN [m[j] EXCEPT !.frozen = 1]
                     ELSE m[j]]
          BY <4>1 DEF IsState
        <5> HIDE DEF w, m
        <5> QED  BY <4>1, <5>1 DEF FrozenRoot
      <4>4. IsState(f)
        <5>1. e.snapshots \in 0 .. MaxSnapshots /\ e.snapshots < MaxSnapshots
          BY <3>1, <4>1 DEF IsState
        <5>2. e.snapshots + 1 \in 0 .. MaxSnapshots
          BY <5>1, OperationsAssumption DEF OperationsAssumption
        <5> QED  BY <4>1, <5>2 DEF IsState
      <4> HIDE DEF f
      <4>5. Tidy(w) /\ FrozenKept(m, w)
        BY <4>1, <4>2, <4>3, FreezeTidy
      <4>6. Later(e, f)
        BY <4>4, <4>5 DEF Later, CallOK
      <4>7. Later(s, f)
        BY <2>4, <3>2, <4>6, LaterStill
      <4>8. Later(s, t)
        BY <1>1, <1>8, <2>6, <3>4, <4>7, AnnouncedFacts
      <4> QED  BY <4>8 DEF t
    <3> QED  BY <3>3, <3>4
  <2> QED  BY <2>5, <2>6
<1> QED  BY <1>7, <1>8

\* A rollback: what is not frozen goes, and the root gets what the snapshot holds.
Reset(m, w, i) ==
    /\ DOMAIN w = {j \in DOMAIN m : j = Root \/ m[j].frozen # 0}
    /\ w[Root] = [m[i] EXCEPT !.frozen = 0]
    /\ \A j \in DOMAIN m : j # Root /\ m[j].frozen # 0 => w[j] = m[j]

LEMMA ResetTidy ==
  ASSUME NEW m, NEW w, NEW i \in DOMAIN m, Tidy(m), Reset(m, w, i), m[i].frozen = 2
  PROVE  /\ Tidy(w) /\ FrozenKept(m, w)
         /\ w[Root].frozen = 0 /\ w[Root].kind \in DirKinds
         /\ \A n \in DOMAIN m[i].entries :
               LET j == m[i].entries[n] IN j \in DOMAIN w /\ j # Root /\ w[j].frozen # 0
<1>1. Root \in DOMAIN m /\ m[Root].frozen = 0 /\ DOMAIN m \subseteq Inode /\ i # Root
  BY Marks DEF Tidy
<1>2. IsNode(m[i]) /\ DOMAIN m[i].entries # {} /\ m[i].kind \in DirKinds
  <2>1. IsNode(m[i]) /\ DOMAIN m[i].entries # {}
    BY DEF Tidy, IsNode
  <2> QED  BY <2>1, NoNames DEF IsNode
<1>3. /\ w[Root].frozen = 0 /\ w[Root].kind = m[i].kind /\ w[Root].entries = m[i].entries
      /\ IsNode(w[Root])
  <2>1. w[Root] = [m[i] EXCEPT !.frozen = 0]
    BY DEF Reset
  <2> QED  BY <1>2, <2>1 DEF IsNode
<1>4. \A j \in DOMAIN w : IsNode(w[j])
  BY <1>3 DEF Tidy, Reset
<1>5. \A n \in DOMAIN m[i].entries :
         LET j == m[i].entries[n] IN j \in DOMAIN m /\ j # Root /\ m[j].frozen # 0
  <2>1. \A n \in DOMAIN m[i].entries : Leads(m, i, n, m[i].entries[n])
    BY DEF Leads
  <2> QED  BY <2>1, Marks DEF Tidy
<1>6. ASSUME NEW d, NEW n, NEW j, Leads(w, d, n, j)
      PROVE  j \in DOMAIN m /\ j # Root /\ m[j].frozen # 0
  <2>1. CASE d = Root
    BY <1>3, <1>5, <1>6, <2>1 DEF Leads
  <2>2. CASE d # Root
    <3>1. d \in DOMAIN m /\ m[d].frozen # 0 /\ w[d] = m[d]
      BY <1>6, <2>2 DEF Leads, Reset
    <3>2. Leads(m, d, n, j)
      BY <1>6, <3>1 DEF Leads
    <3> QED  BY <3>1, <3>2 DEF Tidy
  <2> QED  BY <2>1, <2>2
<1>7. \A j \in DOMAIN m : j # Root /\ m[j].frozen # 0 => j \in DOMAIN w /\ w[j] = m[j]
  BY DEF Reset
<1>8. Root \in DOMAIN w /\ DOMAIN w \subseteq Inode
  BY <1>1 DEF Reset
<1>9. Tidy(w)
  BY <1>3, <1>4, <1>6, <1>7, <1>8 DEF Tidy
<1>10. FrozenKept(m, w)
  BY <1>1, <1>7 DEF FrozenKept
<1> QED  BY <1>2, <1>3, <1>5, <1>7, <1>9, <1>10

\* The names after a rollback lead to what the snapshot's do, or to snapshots.
LEMMA RestoredFacts ==
  ASSUME NEW s, NEW base, NEW n \in DOMAIN Restored(s, base)
  PROVE  \/ n \in DOMAIN base /\ Restored(s, base)[n] = base[n]
         \/ \E k \in DOMAIN Entries(s, Root) :
               /\ Restored(s, base)[n] = Entries(s, Root)[k]
               /\ Frozen(s, Entries(s, Root)[k]) = 2
<1> DEFINE has == Entries(s, Root)
           roots == {k \in DOMAIN has : Frozen(s, has[k]) = 2}
           clash == {k \in roots : k \in DOMAIN base /\ base[k] # has[k]}
           New(k) == Renamed(k, has[k])
           kept == [k \in roots \ clash |-> has[k]]
           other == [r \in {New(k) : k \in clash} |-> has[CHOOSE k \in clash : New(k) = r]]
           list == Over(base, Over(kept, other))
<1>1. Restored(s, base) = list
  BY DEF Restored
<1>2. \A k \in DOMAIN kept : k \in roots /\ kept[k] = has[k]
  OBVIOUS
<1>3. \A r \in DOMAIN other : \E k \in roots : other[r] = has[k]
  <2>1. SUFFICES ASSUME NEW r \in DOMAIN other PROVE \E k \in roots : other[r] = has[k]
    OBVIOUS
  <2> HIDE DEF New, roots
  <2>2. \E k \in clash : New(k) = r
    BY <2>1
  <2>3. (CHOOSE k \in clash : New(k) = r) \in roots
    BY <2>2
  <2> QED  BY <2>1, <2>3
<1> HIDE DEF kept, other, roots
<1>4. n \in DOMAIN base \cup DOMAIN kept \cup DOMAIN other
  BY <1>1 DEF Over
<1>5. list[n] = IF n \in DOMAIN base THEN base[n] ELSE IF n \in DOMAIN kept THEN kept[n] ELSE other[n]
  BY <1>4 DEF Over
<1>6. n \in DOMAIN base \/ \E k \in roots : list[n] = has[k]
  BY <1>2, <1>3, <1>4, <1>5
<1> HIDE DEF list
<1> QED  BY <1>1, <1>5, <1>6 DEF roots

LEMMA RollbackKeeps ==
  ASSUME NEW s, CallOK(s), ~Failed(s), NEW path, path \in Seq(Range(path))
  PROVE  Later(s, do_rollback(s, path))
<1> DEFINE name == Last(path)
           a == Check(s, Len(path) = 1, "EPERM")
           b == Directory(a, <<>>)
           c == Check(b, b.snapshots > 0, "EPERM")
           d == get_inode(c, Root, name)
           e == [d EXCEPT !.inode =
                    [i \in {j \in DOMAIN @ : j = Root \/ @[j].frozen # 0} |->
                        IF i = Root THEN [@[d.at] EXCEPT !.frozen = 0] ELSE @[i]]]
           f == save_dentries(e, Root, Restored(d, Entries(d, d.at)))
           Tell(z) == IF Failed(z) THEN [z EXCEPT !.untold = TRUE]
                      ELSE [Announced(z) EXCEPT !.map = <<>>]
           t == do_rollback(s, path)
<1>1. t = IF Failed(a) THEN a ELSE IF Failed(b) THEN b ELSE IF Failed(c) THEN c ELSE IF Failed(d) THEN d
          ELSE IF Frozen(d, d.at) # 2 THEN [d EXCEPT !.sound = FALSE] ELSE Tell(f)
  BY DEF do_rollback, Then
<1>2. \A z : Later(s, z) => Later(s, Tell(z))
  <2>1. SUFFICES ASSUME NEW z, Later(s, z) PROVE Later(s, Tell(z))
    OBVIOUS
  <2>2. IsState(z)
    BY <2>1 DEF Later, CallOK
  <2>3. SameInodes(z, [z EXCEPT !.untold = TRUE])
    BY <2>2 DEF IsState, SameInodes
  <2>4. SameInodes(z, [Announced(z) EXCEPT !.map = <<>>])
    BY <2>2 DEF IsState, SameInodes, Announced
  <2>5. SameInodes(z, Tell(z))
    BY <2>3, <2>4
  <2> HIDE DEF Tell
  <2> QED  BY <2>1, <2>5, SameLooks, LaterStill DEF Later
<1> HIDE DEF Tell
<1>3. a = s \/ a = Throw(s, "EPERM")
  BY DEF Check
<1> HIDE DEF a
<1>4. Later(s, a) /\ CallOK(a)
  BY <1>3, CheckFacts
<1>5. ~Failed(a) => LooksOn(a, b) /\ CallOK(b)
  <2>1. Len(<<>>) \in Nat
    OBVIOUS
  <2> QED  BY <1>4, <2>1, AtDirectoryFacts
<1> HIDE DEF b
<1>6. c = b \/ c = Throw(b, "EPERM")
  BY DEF Check
<1> HIDE DEF c
<1>7. CASE Failed(a)
  BY <1>1, <1>4, <1>7
<1>8. CASE ~Failed(a)
  <2>1. Later(s, b) /\ CallOK(b)
    BY <1>4, <1>5, <1>8, LookedOnce, LaterStill
  <2>2. Later(b, c) /\ CallOK(c)
    BY <1>6, <2>1, CheckFacts
  <2>3. Later(s, c) /\ Root \in DOMAIN c.inode
    BY <2>1, <2>2, LaterStill DEF CallOK, Tidy
  <2>4. CASE Failed(b) \/ Failed(c)
    BY <1>1, <1>8, <2>1, <2>3, <2>4
  <2>5. CASE ~Failed(b) /\ ~Failed(c)
    <3>1. /\ LooksOn(c, d)
          /\ ~Failed(d) => Leads(d.inode, Root, name, d.at)
      BY <2>2, <2>3, <2>5, GetInodeFacts
    <3> HIDE DEF d
    <3>2. Later(s, d) /\ CallOK(d) /\ IsState(d)
      BY <2>3, <3>1, LookedOnce, LaterStill DEF LooksOn, CallOK
    <3>3. CASE Failed(d)
      BY <1>1, <1>8, <2>5, <3>2, <3>3
    <3>4. CASE ~Failed(d) /\ Frozen(d, d.at) # 2
      <4> DEFINE z == [d EXCEPT !.sound = FALSE]
      <4>1. SameInodes(d, z)
        BY <3>2 DEF IsState, SameInodes
      <4>2. t = z
        BY <1>1, <1>8, <2>5, <3>4
      <4> HIDE DEF z, t
      <4>3. Later(s, z)
        BY <3>2, <4>1, SameLooks, LaterStill
      <4> QED  BY <4>2, <4>3 DEF t
    <3>5. CASE ~Failed(d) /\ Frozen(d, d.at) = 2
      <4> DEFINE m == d.inode
                 i == d.at
                 w == e.inode
                 list == Restored(d, Entries(d, i))
      <4>1. Tidy(m) /\ i \in DOMAIN m /\ m[i].frozen = 2
        BY <3>1, <3>2, <3>5 DEF CallOK, Tidy, Leads, Frozen
      <4>2. w = [j \in {k \in DOMAIN m : k = Root \/ m[k].frozen # 0} |->
                   IF j = Root THEN [m[i] EXCEPT !.frozen = 0] ELSE m[j]]
        BY <3>2 DEF IsState
      <4>3. IsState(e) /\ ~Failed(e)
        BY <3>2, <3>5 DEF IsState, Failed
      <4> HIDE DEF w, m, e
      <4>4. Reset(m, w, i)
        <5>1. Root \in DOMAIN m
          BY <4>1 DEF Tidy
        <5> QED  BY <4>2, <5>1 DEF Reset
      <4>5. /\ Tidy(w) /\ FrozenKept(m, w)
            /\ w[Root].frozen = 0 /\ w[Root].kind \in DirKinds
            /\ \A n \in DOMAIN m[i].entries :
                  LET j == m[i].entries[n] IN j \in DOMAIN w /\ j # Root /\ w[j].frozen # 0
        BY <4>1, <4>4, ResetTidy
      <4>6. \A k \in DOMAIN m[Root].entries :
               LET j == m[Root].entries[k]
               IN  m[j].frozen = 2 => j \in DOMAIN w /\ j # Root /\ w[j].frozen # 0
        <5>1. SUFFICES ASSUME NEW k \in DOMAIN m[Root].entries, m[m[Root].entries[k]].frozen = 2
                       PROVE  LET j == m[Root].entries[k] IN j \in DOMAIN w /\ j # Root /\ w[j].frozen # 0
          OBVIOUS
        <5>2. Leads(m, Root, k, m[Root].entries[k])
          BY <4>1, <5>1 DEF Tidy, Leads
        <5>3. m[Root].entries[k] \in DOMAIN m /\ m[Root].entries[k] # Root
          BY <4>1, <5>2 DEF Tidy
        <5> QED  BY <4>4, <5>1, <5>3, Marks DEF Reset
      <4>7. \A n \in DOMAIN list : list[n] \in DOMAIN w /\ list[n] # Root /\ w[list[n]].frozen # 0
        <5>1. SUFFICES ASSUME NEW n \in DOMAIN list
                       PROVE  list[n] \in DOMAIN w /\ list[n] # Root /\ w[list[n]].frozen # 0
          OBVIOUS
        <5>2. \/ n \in DOMAIN m[i].entries /\ list[n] = m[i].entries[n]
              \/ \E k \in DOMAIN m[Root].entries :
                    list[n] = m[Root].entries[k] /\ m[m[Root].entries[k]].frozen = 2
          BY <5>1, RestoredFacts DEF Entries, Frozen, m
        <5> HIDE DEF list
        <5> QED  BY <4>5, <4>6, <5>2
      <4> HIDE DEF list
      <4>8. Fit(w, Root, list)
        BY <4>7 DEF Fit
      <4>9. Later(d, e) /\ CallOK(e)
        BY <4>3, <4>5 DEF Later, CallOK, w, m
      <4>10. Later(e, f)
        <5>1. Root \in DOMAIN w
          BY <4>5 DEF Tidy
        <5> QED  BY <4>3, <4>5, <4>8, <4>9, <5>1, SaveKeeps DEF w, list
      <4> HIDE DEF f, t
      <4>11. Later(s, f)
        BY <3>2, <4>9, <4>10, LaterStill
      <4>12. Later(s, t)
        BY <1>1, <1>2, <1>8, <2>5, <3>5, <4>11
      <4> QED  BY <4>12 DEF t
    <3> QED  BY <3>3, <3>4, <3>5
  <2> QED  BY <2>4, <2>5
<1> QED  BY <1>7, <1>8

------------------------------------------------------------------------------
(***************************************************************************)
(* The end of a call, and the theorems.                                    *)
(***************************************************************************)
\* What nothing leads to is dropped, and nothing else.
LEMMA ReachedTidy ==
  ASSUME NEW s, CallOK(s)
  PROVE  Tidy([i \in Reached(s) |-> s.inode[i]]) /\ Reached(s) \subseteq DOMAIN s.inode
<1> DEFINE used == DOMAIN s.inode
           start == used \cap ({Root} \cup {Remembered(s)[k] : k \in DOMAIN Remembered(s)})
           Closed(S) == \A d \in S : \A n \in DOMAIN Entries(s, d) :
                           Entries(s, d)[n] \in used => Entries(s, d)[n] \in S
           closed == {S \in {start \cup T : T \in SUBSET (used \ start)} : Closed(S)}
<1>1. Reached(s) = {i \in used : \A S \in closed : i \in S}
  BY DEF Reached
<1>2. Tidy(s.inode) /\ Root \in used /\ Root \in start
  BY DEF CallOK, Tidy
<1>3. \A S \in closed : Root \in S /\ Closed(S)
  BY <1>2
<1> HIDE DEF closed
<1>4. Root \in Reached(s) /\ Reached(s) \subseteq used
  BY <1>1, <1>2, <1>3
<1>5. ASSUME NEW d, NEW n, NEW i, Leads(s.inode, d, n, i), d \in Reached(s)
      PROVE  i \in Reached(s)
  <2>1. i \in used /\ n \in DOMAIN Entries(s, d) /\ Entries(s, d)[n] = i
    BY <1>2, <1>5 DEF Leads, Tidy, Entries
  <2>2. \A S \in closed : d \in S
    BY <1>1, <1>5
  <2>3. \A S \in closed : i \in S
    BY <1>3, <2>1, <2>2
  <2> QED  BY <1>1, <2>1, <2>3
<1>6. Tidy([i \in Reached(s) |-> s.inode[i]])
  BY <1>2, <1>4, <1>5, CutTidy
<1> QED  BY <1>4, <1>6

\* The inductive invariant.  That the tree is tidy is more than NothingIsShared: no
\* name leads to the root, and the root of a snapshot, which rmdir takes for a
\* directory that may go if it is empty, never is.
IInv ==
    /\ Tidy(inode)
    /\ changed \in BOOLEAN /\ snapshots \in 0 .. MaxSnapshots
    /\ sound \in BOOLEAN /\ untold \in BOOLEAN
    /\ volume \in DOMAIN Volumes

\* What a snapshot holds is frozen: while an inode that is frozen is in use, no step
\* changes what it is.
FrozenStays ==
    \A i \in DOMAIN inode : inode[i].frozen # 0 /\ i \in DOMAIN inode' => inode'[i] = inode[i]

LEMMA BeginFacts ==
  ASSUME IInv, NEW luck
  PROVE  CallOK(Begin(luck)) /\ ~Failed(Begin(luck)) /\ Begin(luck).inode = inode
BY DEF IInv, CallOK, IsState, Begin, Failed

LEMMA TidyNext ==
  ASSUME Tidy(inode'), UNCHANGED volume
  PROVE  Tidy(inode)'
BY DEF Tidy, Inode

LEMMA DoKeeps ==
  ASSUME IInv, NEW luck, NEW t, Later(Begin(luck), t), Do(t)
  PROVE  IInv' /\ FrozenStays
<1> DEFINE w == t.inode
           used == Reached(t)
<1>1. CallOK(t) /\ IsState(t) /\ FrozenKept(inode, w)
  BY BeginFacts DEF Later, CallOK
<1>2. inode' = [i \in used |-> w[i]] /\ UNCHANGED volume
  BY DEF Do
<1>3. Tidy(inode') /\ used \subseteq DOMAIN w
  BY <1>1, <1>2, ReachedTidy
<1>4. Tidy(inode)'
  BY <1>2, <1>3, TidyNext
<1>5. changed' \in BOOLEAN /\ snapshots' \in 0 .. MaxSnapshots
  BY <1>1 DEF Do, IsState
<1>6. sound' \in BOOLEAN
  <2>1. t.sound \in BOOLEAN
    BY <1>1 DEF IsState
  <2>2. sound' \in IF t.short THEN BOOLEAN ELSE {t.sound}
    BY DEF Do
  <2> QED  BY <2>1, <2>2
<1>7. untold' \in BOOLEAN
  <2>1. untold' = (t.untold /\ ~t.changed)
    BY DEF Do
  <2> QED  BY <2>1
<1>8. IInv'
  BY <1>2, <1>4, <1>5, <1>6, <1>7 DEF IInv
<1>9. FrozenStays
  <2> HIDE DEF w, used
  <2> QED  BY <1>1, <1>2 DEF FrozenStays, FrozenKept
<1> QED  BY <1>8, <1>9

LEMMA InitHolds == Init => IInv
<1>1. SUFFICES ASSUME Init PROVE IInv
  OBVIOUS
<1>2. "directory" \in Kind
  BY DEF Kind
<1> DEFINE x == NewInode("directory")
<1>3. IsNode(x) /\ x.frozen = 0 /\ DOMAIN x.entries = {}
  BY <1>2, NewInodeFacts
<1>4. DOMAIN inode = {Root} /\ inode[Root] = x
  BY <1>1 DEF Init
<1>0. volume \in DOMAIN Volumes /\ snapshots = 0
  BY <1>1 DEF Init
<1>5. volume \in DOMAIN Volumes /\ Root \in Inode
  BY <1>0, OperationsAssumption DEF OperationsAssumption, Inode, Root
<1> HIDE DEF x
<1>6. Tidy(inode)
  BY <1>3, <1>4, <1>5 DEF Tidy, Leads
<1>7. snapshots \in 0 .. MaxSnapshots
  BY <1>0, OperationsAssumption DEF OperationsAssumption
<1> QED  BY <1>1, <1>5, <1>6, <1>7 DEF Init, IInv

LEMMA NextKeeps ==
  ASSUME IInv, [Next]_vars
  PROVE  IInv' /\ FrozenStays
<1>1. CASE remount \/ UNCHANGED vars
  <2>1. UNCHANGED <<volume, inode, snapshots, sound>> /\ changed' \in BOOLEAN /\ untold' \in BOOLEAN
    BY <1>1 DEF remount, vars, IInv
  <2>2. Tidy(inode)'
    BY <2>1, TidyNext DEF IInv
  <2> QED  BY <2>1, <2>2 DEF IInv, FrozenStays
<1>2. CASE ~remount /\ Next
  <2>1. PICK luck \in Luck, c \in Volumes[volume].calls :
             LET s == Begin(luck)
             IN  \/ Do(do_getattr(s, c.path))
                 \/ Do(do_readdir(s, c.path))
                 \/ Do(do_mkdir(s, c.path))
                 \/ Do(do_create(s, c.path))
                 \/ Do(do_mknod(s, c.path, c.kind))
                 \/ Do(do_write(s, c.path, c.data))
                 \/ Do(do_truncate(s, c.path, Len(c.data)))
                 \/ Do(do_unlink(s, c.path))
                 \/ Do(do_rmdir(s, c.path))
                 \/ Do(do_symlink(s, c.path, c.data))
                 \/ Do(do_rename(s, c.path, c.to))
                 \/ Do(do_snapshot(s, c.path))
                 \/ Do(do_rollback(s, c.path))
    BY <1>2 DEF Next
  <2> DEFINE s == Begin(luck)
             path == c.path
  <2>2. path \in Seq(Range(path)) /\ c.to \in Seq(Range(c.to)) /\ c.kind \in Kind
    BY OperationsAssumption DEF OperationsAssumption, IInv
  <2>3. CallOK(s) /\ ~Failed(s)
    BY BeginFacts
  <2>4. PICK t : Do(t) /\ Later(s, t)
    <3> HIDE DEF s, path
    <3>1. CASE Do(do_getattr(s, path)) \/ Do(do_readdir(s, path))
      BY <2>2, <2>3, <3>1, GetattrKeeps
    <3>2. CASE Do(do_mkdir(s, path))
      BY <2>2, <2>3, <3>2, MkdirKeeps
    <3>3. CASE Do(do_create(s, path))
      BY <2>2, <2>3, <3>3, CreateKeeps
    <3>4. CASE Do(do_mknod(s, path, c.kind))
      BY <2>2, <2>3, <3>4, MknodKeeps
    <3>5. CASE Do(do_write(s, path, c.data))
      BY <2>2, <2>3, <3>5, WriteKeeps
    <3>6. CASE Do(do_unlink(s, path))
      BY <2>2, <2>3, <3>6, UnlinkKeeps
    <3>7. CASE Do(do_rmdir(s, path))
      BY <2>2, <2>3, <3>7, RmdirKeeps
    <3>8. CASE Do(do_symlink(s, path, c.data))
      BY <2>2, <2>3, <3>8, SymlinkKeeps
    <3>9. CASE Do(do_rename(s, path, c.to))
      BY <2>2, <2>3, <3>9, RenameKeeps
    <3>10. CASE Do(do_snapshot(s, path))
      BY <2>2, <2>3, <3>10, SnapshotKeeps
    <3>11. CASE Do(do_rollback(s, path))
      BY <2>2, <2>3, <3>11, RollbackKeeps
    <3>12. CASE Do(do_truncate(s, path, Len(c.data)))
      BY <2>2, <2>3, <3>12, TruncateKeeps
    <3> QED  BY <2>1, <3>1, <3>2, <3>3, <3>4, <3>5, <3>6, <3>7, <3>8, <3>9, <3>10, <3>11, <3>12 DEF s, path
  <2> QED  BY <2>4, DoKeeps
<1> QED  BY <1>1, <1>2

LEMMA TidyTyped == IInv => TypeOK
<1>1. SUFFICES ASSUME IInv PROVE TypeOK
  OBVIOUS
<1>2. ASSUME NEW i \in DOMAIN inode
      PROVE  /\ inode[i].kind \in Kind /\ inode[i].frozen \in 0 .. 2
             /\ inode[i].kind \notin DirKinds => inode[i].entries = NoEntries
  <2>1. IsNode(inode[i])
    BY <1>1 DEF IInv, Tidy
  <2> QED  BY <2>1 DEF IsNode
<1> QED  BY <1>1, <1>2 DEF IInv, Tidy, TypeOK

LEMMA TidyNotShared == IInv => NothingIsShared
<1>1. SUFFICES ASSUME IInv PROVE NothingIsShared
  OBVIOUS
<1>2. \A e \in Names : /\ e = <<e[1], e[2]>> /\ e[1] \in DOMAIN inode
                       /\ Leads(inode, e[1], e[2], LeadsTo(e))
  BY DEF Names, Leads, LeadsTo
<1>3. \A e \in Names : LeadsTo(e) \in DOMAIN inode
  BY <1>1, <1>2 DEF IInv, Tidy
<1>4. ASSUME NEW e \in Names, NEW f \in Names, inode[LeadsTo(e)].frozen = 0
      PROVE  inode[e[1]].frozen = 0 /\ (LeadsTo(e) = LeadsTo(f) => e = f)
  <2>1. Leads(inode, e[1], e[2], LeadsTo(e)) /\ Leads(inode, f[1], f[2], LeadsTo(f))
    BY <1>2
  <2>2. inode[e[1]].frozen = 0
    BY <1>1, <1>4, <2>1 DEF IInv, Tidy
  <2>3. LeadsTo(e) = LeadsTo(f) => e[1] = f[1] /\ e[2] = f[2]
    BY <1>1, <1>4, <2>1 DEF IInv, Tidy
  <2> QED  BY <1>2, <2>2, <2>3
<1> QED  BY <1>3, <1>4 DEF NothingIsShared

LEMMA Invariant == Spec => []IInv
BY InitHolds, NextKeeps, PTL DEF Spec

\* Whatever the volume and the calls: what is not a directory has no names, and
\* there are never more snapshots than the format has room for.
THEOREM OperationsTypeOK == Spec => []TypeOK
BY Invariant, TidyTyped, PTL

\* Whatever the volume, the calls, and the step at which each finds no space: no
\* inode that a call may change has two names, or a name in a frozen directory
\* (get_inode, snapshot, reset_as, do_rename, unlink_inode).
THEOREM OperationsNothingIsShared == Spec => []NothingIsShared
BY Invariant, TidyNotShared, PTL

\* No call changes a frozen inode, so nothing below the root of a snapshot: not the
\* copies that get_inode makes, not a rollback to another snapshot, and not a call
\* that fails half way.
THEOREM OperationsFrozenStays == Spec => [][FrozenStays]_vars
<1>1. IInv /\ [Next]_vars => [FrozenStays]_vars
  BY NextKeeps
<1> QED  BY <1>1, Invariant, PTL DEF Spec
==============================================================================

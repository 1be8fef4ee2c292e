------------------------- MODULE ChainSearchProofs -------------------------
(***************************************************************************)
(* Proofs about ChainSearch, for every length limit and every way the       *)
(* certificates of a chain may name, sign and constrain each other.         *)
(*                                                                          *)
(* The search is sound because its frames are at all times a path that the  *)
(* checks admit (FramesArePath), the used set and the signature cache       *)
(* agreeing with it.  It is complete because whether a path can be finished *)
(* depends on its last certificate and on the set of its certificates only: *)
(* a state that was entered is on the stack or dead, that is, no trusted    *)
(* path goes through it (SeenIsSettled), and so is every issuer that a      *)
(* frame has passed (PassedIsSettled).  A state is entered when its index   *)
(* is new: IndexAlwaysExact says that no two states share one, by induction *)
(* over the bits of the used set.                                           *)
(***************************************************************************)
EXTENDS ChainSearch, FiniteSetTheorems, TLAPS

FrameType == [subject : Certs, nextIssuer : Nat]

Types ==
    /\ world \in World
    /\ frames \in Seq(FrameType)
    /\ used \subseteq Certs
    /\ result \in {"None", "Running", "Ok", "Err"}

Subject(k) == frames[k].subject

\* The certificates of the first k frames.
Prefix(k) == {Subject(j) : j \in 1 .. k}

Height == Len(frames)

\* d may follow the k-th frame on a path.
MayFollow(k, d) ==
    /\ d \in 1 .. world.n - 1 /\ d \notin Prefix(k)
    /\ <<Subject(k), d>> \in world.named /\ <<Subject(k), d>> \in world.signed
    /\ d \in world.prepared /\ d \in world.ca
    /\ k - 1 <= world.pathLimit[d]
    /\ world.forbids[d] \cap Prefix(k) = {}

\* The frames are a path, and used is the set of its certificates.
FramesArePath ==
    result # "None" /\ result # "Err" =>
        /\ Searchable
        /\ used = Prefix(Height)
        /\ \A k \in 1 .. Height : Subject(k) < world.n /\ Subject(k) \in world.prepared
        /\ Height > 0 => Subject(1) = 0
        /\ \A j, k \in 1 .. Height : Subject(j) = Subject(k) => j = k
        /\ \A k \in 1 .. Height - 1 : MayFollow(k, Subject(k + 1))

\* The cache tells the truth.
CacheIsTrue == valid \subseteq world.signed /\ checked \cap world.signed \subseteq valid

\* What remains of an accepted path.
AcceptedByAnchor ==
    result = "Ok" => Height > 0 /\ AnchorAccepts

\* The trusted paths of the world.
TrustedPaths ==
    {p \in UNION {[1 .. len -> Certs] : len \in 1 .. MAX_LEN} : IsTrusted(world, p)}

\* No trusted path begins with the certificates of the set and c last.
Dead(c, certs) ==
    \A p \in TrustedPaths : \A k \in 1 .. Len(p) :
        ~(p[k] = c /\ {p[j] : j \in 1 .. k} = certs)

\* The k-th frame is entered and stands for this state.
Stands(k, c, certs) == frames[k].nextIssuer > 0 /\ Subject(k) = c /\ Prefix(k) = certs

\* A state that was seen is on the stack or dead.
SeenIsSettled ==
    result = "Running" =>
        \A c \in Certs, certs \in SUBSET Certs :
            IsState(c, certs) /\ StateIndex(c, certs) \in seen =>
                Dead(c, certs) \/ \E k \in 1 .. Height : Stands(k, c, certs)

\* An issuer that a frame has passed is the next frame or leads nowhere, and so
\* does the anchor.
PassedIsSettled ==
    result = "Running" =>
        \A k \in 1 .. Height : frames[k].nextIssuer > 0 =>
            /\ ~(Subject(k) \in world.anchored
                   /\ world.anchorForbids[Subject(k)] \cap Prefix(k) = {})
            /\ \A d \in 1 .. frames[k].nextIssuer - 1 :
                  MayFollow(k, d) => \/ Dead(d, Prefix(k) \cup {d})
                                     \/ k < Height /\ Subject(k + 1) = d

\* When no frame is left, nothing is.
EmptyIsDead == result = "Running" /\ Height = 0 => Dead(0, {0})

-----------------------------------------------------------------------------
(* What the steps of the loop do to the frames. *)

\* The frames stay and the top one moves on to candidate m.
Kept(m) ==
    /\ Len(frames') = Height
    /\ \A k \in 1 .. Height - 1 : frames'[k] = frames[k]
    /\ frames'[Height] = [subject |-> Top.subject, nextIssuer |-> m]
    /\ used' = used

\* The top frame is dropped.
Popped ==
    /\ Len(frames') = Height - 1
    /\ \A k \in 1 .. Height - 1 : frames'[k] = frames[k]
    /\ used' = used \ {Top.subject}

\* The top frame moves on and c is pushed on it.
Pushed(c) ==
    /\ Len(frames') = Height + 1
    /\ \A k \in 1 .. Height - 1 : frames'[k] = frames[k]
    /\ frames'[Height] = [subject |-> Top.subject, nextIssuer |-> c + 1]
    /\ frames'[Height + 1] = Frame(c)
    /\ used' = used \cup {c}

\* The certificate numbers and the limits of a world are what the code makes them.
LEMMA WorldFacts ==
    ASSUME world \in World
    PROVE  /\ MAX_LEN \in Nat /\ 0 \in Certs
           /\ world.n \in Nat /\ world.n <= MAX_LEN
           /\ \A c \in Certs : world.pathLimit[c] \in Nat
           /\ \A c : c \in 1 .. world.n - 1 => c \in Certs
BY ChainAssumption, SMTT(30) DEF World, Certs

\* The top frame of a stack that is not empty is a frame.
LEMMA TopFacts ==
    ASSUME frames \in Seq(FrameType), frames # <<>>
    PROVE  /\ Height \in Nat \ {0}
           /\ Top \in FrameType /\ Top.subject \in Certs /\ Top.nextIssuer \in Nat
           /\ Top = frames[Height] /\ Subject(Height) = Top.subject
<1>1. Height \in Nat \ {0}
  BY DEF Height
<1>2. Top \in FrameType
  BY <1>1 DEF Height, Top
<1> QED
  BY <1>1, <1>2, Zenon DEF FrameType, Height, Top, Subject

\* Search::pop.
LEMMA PopEffect ==
    ASSUME frames \in Seq(FrameType), frames # <<>>, Pop
    PROVE  Popped /\ frames' \in Seq(FrameType)
<1> HIDE DEF FrameType
<1>1. Height \in Nat \ {0}
  BY TopFacts, Zenon
<1>2. frames' = SubSeq(frames, 1, Height - 1)
  BY Zenon DEF Pop, Height
<1>3. Height - 1 \in 0 .. Len(frames) /\ Height - 1 = (Height - 1) - 1 + 1
  BY <1>1 DEF Height
<1>4. /\ frames' \in Seq(FrameType) /\ Len(frames') = Height - 1
      /\ \A k \in 1 .. Height - 1 : frames'[k] = frames[k]
  BY <1>1, <1>2, <1>3
<1> QED
  BY <1>4, Zenon DEF Pop, Popped

\* A new value for the next issuer of the top frame.
LEMMA SetTopEffect ==
    ASSUME frames \in Seq(FrameType), frames # <<>>, NEW m \in Nat,
           NEW f, f = [subject |-> Top.subject, nextIssuer |-> m]
    PROVE  /\ SetTop(f) \in Seq(FrameType) /\ Len(SetTop(f)) = Height
           /\ \A k \in 1 .. Height - 1 : SetTop(f)[k] = frames[k]
           /\ SetTop(f)[Height] = f
<1>1. Height \in Nat \ {0} /\ f \in FrameType
  BY TopFacts, Zenon DEF FrameType
<1> HIDE DEF FrameType
<1> QED
  BY <1>1 DEF SetTop, Height

\* A candidate is pushed by next_issuer.
LEMMA PushEffect ==
    ASSUME frames \in Seq(FrameType), frames # <<>>, NEW c \in Certs, c = Top.nextIssuer,
           frames' = Append(SetTop(Advanced(Top)), Frame(c)), used' = used \cup {c}
    PROVE  Pushed(c) /\ frames' \in Seq(FrameType)
<1> DEFINE f == Advanced(Top)
<1>1. c + 1 \in Nat /\ c \in Nat
  BY ChainAssumption DEF Certs
<1>2. f = [subject |-> Top.subject, nextIssuer |-> c + 1] /\ Frame(c) \in FrameType
  BY <1>1, TopFacts, SMTT(30) DEF FrameType, Frame, Advanced
<1>3. /\ SetTop(f) \in Seq(FrameType) /\ Len(SetTop(f)) = Height
      /\ \A k \in 1 .. Height - 1 : SetTop(f)[k] = frames[k]
      /\ SetTop(f)[Height] = f
  BY <1>1, <1>2, SetTopEffect, ZenonT(40)
<1>4. frames' = Append(SetTop(f), Frame(c))
  BY Zenon
<1>5. Height \in Nat \ {0}
  BY TopFacts, Zenon
<1> HIDE DEF f, FrameType
<1>6. /\ frames' \in Seq(FrameType) /\ Len(frames') = Height + 1
      /\ \A k \in 1 .. Height : frames'[k] = SetTop(f)[k]
      /\ frames'[Height + 1] = Frame(c)
  BY <1>2, <1>3, <1>4, <1>5
<1>7. Height \in 1 .. Height /\ \A k \in 1 .. Height - 1 : k \in 1 .. Height
  BY <1>5
<1>8. /\ \A k \in 1 .. Height - 1 : frames'[k] = frames[k]
      /\ frames'[Height] = [subject |-> Top.subject, nextIssuer |-> c + 1]
  BY <1>2, <1>3, <1>6, <1>7, ZenonT(40)
<1> QED
  BY <1>6, <1>8, Zenon DEF Pushed

-----------------------------------------------------------------------------
(* The outcomes of one turn of the loop. *)

\* A state that was entered before is dropped.
DropSeen ==
    /\ Top.nextIssuer = 0 /\ ~Fresh
    /\ Popped
    /\ UNCHANGED <<seen, result>>

\* An anchor ends the path.
Accept ==
    /\ AnchorAccepts
    /\ Kept(1)
    /\ result' = "Ok"

\* The candidates for the issuer of a new state are looked at.
Open ==
    /\ ~AnchorAccepts
    /\ Kept(1)
    /\ seen' = seen \cup {StateIndex(Top.subject, used)}
    /\ UNCHANGED result

\* No candidate is left.
DropExhausted ==
    /\ Top.nextIssuer > 0 /\ Top.nextIssuer >= world.n
    /\ Popped
    /\ UNCHANGED <<seen, result>>

\* A candidate that may not follow is passed.
Skip(c) ==
    /\ c > 0 /\ c = Top.nextIssuer
    /\ ~MayFollow(Height, c)
    /\ Kept(c + 1)
    /\ UNCHANGED <<seen, result>>

\* A candidate that may follow is pushed.
Push(c) ==
    /\ c = Top.nextIssuer
    /\ MayFollow(Height, c)
    /\ Pushed(c)
    /\ UNCHANGED <<seen, result>>

Outcome ==
    DropSeen \/ Accept \/ Open \/ DropExhausted \/ \E c \in Nat : Skip(c) \/ Push(c)

\* The checks of next_issuer and a valid signature are what a path asks for.
LEMMA ChecksAreMayFollow ==
    ASSUME Types, FramesArePath, result = "Running", frames # <<>>,
           NEW c \in Nat, c = Top.nextIssuer, c > 0, c < world.n
    PROVE  MayFollow(Height, c) <=>
               /\ Candidate(c) /\ c \in world.prepared /\ IssuerChecks(c)
               /\ <<Top.subject, c>> \in world.signed
<1>1. /\ used = Prefix(Height) /\ OnPath = Prefix(Height)
      /\ Subject(Height) = Top.subject
  BY TopFacts, Zenon DEF Types, FramesArePath, OnPath, Prefix, Subject, Height
<1>2. c \in 1 .. world.n - 1
  BY WorldFacts DEF Types
<1> QED
  BY <1>1, <1>2, Zenon DEF MayFollow, Candidate, IssuerChecks, Height

\* signature_is_valid answers for the signature, cached or not.
LEMMA CacheAnswers ==
    ASSUME CacheIsTrue, NEW c
    PROVE  SignatureIsValid(c) <=> <<Top.subject, c>> \in world.signed
BY Zenon DEF CacheIsTrue, SignatureIsValid, Cached

\* Every turn of the loop on a frame has one of the outcomes.
LEMMA RunCases ==
    ASSUME Types, FramesArePath, CacheIsTrue, Run, frames # <<>>
    PROVE  /\ Outcome
           /\ world' = world /\ result = "Running" /\ frames' \in Seq(FrameType)
<1>1. /\ frames \in Seq(FrameType) /\ world \in World /\ result = "Running"
      /\ Enter \/ Exhausted \/ PassOver \/ TryCandidate
  BY Zenon DEF Types, Run, GiveUp
<1>2. Top \in FrameType /\ Top.nextIssuer \in Nat
  BY <1>1, TopFacts, Zenon
<1>3. CASE Enter
  <2>1. CASE ~Fresh
    <3>1. Pop /\ seen' = seen /\ result' = result /\ Top.nextIssuer = 0 /\ world' = world
      BY <1>3, <2>1, Zenon DEF Enter, Fresh
    <3>2. Popped /\ frames' \in Seq(FrameType)
      BY <1>1, <3>1, PopEffect, Zenon
    <3> QED
      BY <1>1, <2>1, <3>1, <3>2, Zenon DEF Outcome, DropSeen
  <2>2. CASE Fresh
    <3> DEFINE f == [Top EXCEPT !.nextIssuer = 1]
    <3>1. /\ frames' = SetTop(f) /\ used' = used /\ world' = world
          /\ seen' = seen \cup {StateIndex(Top.subject, used)}
          /\ (AnchorAccepts /\ result' = "Ok") \/ (~AnchorAccepts /\ result' = result)
      BY <1>3, <2>2, Zenon DEF Enter
    <3>0. PICK m \in Nat : m = 1
      BY Zenon
    <3>2. f = [subject |-> Top.subject, nextIssuer |-> m]
      BY <1>2, <3>0 DEF FrameType
    <3> HIDE DEF f
    <3>3. /\ SetTop(f) \in Seq(FrameType) /\ Len(SetTop(f)) = Height
          /\ \A k \in 1 .. Height - 1 : SetTop(f)[k] = frames[k]
          /\ SetTop(f)[Height] = f
      BY <1>1, <3>2, SetTopEffect, ZenonT(40)
    <3>4. Kept(1) /\ frames' \in Seq(FrameType)
      BY <3>0, <3>1, <3>2, <3>3, Zenon DEF Kept
    <3> QED
      BY <1>1, <3>1, <3>4, Zenon DEF Outcome, Accept, Open
  <2> QED
    BY <2>1, <2>2, Zenon
<1>4. CASE Exhausted
  <2>1. Pop /\ seen' = seen /\ result' = result /\ world' = world
    BY <1>4, Zenon DEF Exhausted
  <2>2. Popped /\ frames' \in Seq(FrameType)
    BY <1>1, <2>1, PopEffect, Zenon
  <2> QED
    BY <1>1, <1>4, <2>1, <2>2, Zenon DEF Outcome, DropExhausted, Exhausted
<1> DEFINE c == Top.nextIssuer
           g == Advanced(Top)
<1>5. g = [subject |-> Top.subject, nextIssuer |-> c + 1] /\ c + 1 \in Nat
  BY <1>2 DEF FrameType, Advanced
<1>6. ASSUME frames' = SetTop(g), used' = used
      PROVE  Kept(c + 1) /\ frames' \in Seq(FrameType)
  <2> HIDE DEF g
  <2> QED
    BY <1>1, <1>5, <1>6, SetTopEffect, ZenonT(40) DEF Kept
<1>7. CASE PassOver
  <2>1. /\ c > 0 /\ c < world.n
        /\ ~(Candidate(c) /\ c \in world.prepared /\ IssuerChecks(c))
        /\ frames' = SetTop(g) /\ used' = used /\ seen' = seen /\ result' = result
        /\ world' = world
    BY <1>7, Zenon DEF PassOver
  <2>2. ~MayFollow(Height, c)
    BY <1>1, <1>2, <2>1, ChecksAreMayFollow, Zenon
  <2> QED
    BY <1>1, <1>2, <1>6, <2>1, <2>2, Zenon DEF Outcome, Skip
<1>8. CASE TryCandidate
  <2>1. /\ c > 0 /\ c < world.n
        /\ Candidate(c) /\ c \in world.prepared /\ IssuerChecks(c)
        /\ \/ /\ SignatureIsValid(c)
              /\ frames' = Append(SetTop(g), Frame(c))
              /\ used' = used \cup {c}
           \/ ~SignatureIsValid(c) /\ frames' = SetTop(g) /\ used' = used
        /\ seen' = seen /\ result' = result /\ world' = world
    BY <1>8, Zenon DEF TryCandidate
  <2>2. MayFollow(Height, c) <=> SignatureIsValid(c)
    BY <1>1, <1>2, <2>1, ChecksAreMayFollow, CacheAnswers, Zenon
  <2>3. c \in Certs
    BY <1>1, <1>2, <2>1, WorldFacts, SMTT(30)
  <2>4. CASE SignatureIsValid(c)
    <3>1. frames' = Append(SetTop(Advanced(Top)), Frame(c)) /\ used' = used \cup {c}
      BY <2>1, <2>4, Zenon
    <3>2. Pushed(c) /\ frames' \in Seq(FrameType)
      BY <1>1, <2>3, <3>1, PushEffect, Zenon
    <3> QED
      BY <1>1, <1>2, <2>1, <2>2, <2>4, <3>2, Zenon DEF Outcome, Push
  <2>5. CASE ~SignatureIsValid(c)
    BY <1>1, <1>2, <1>6, <2>1, <2>2, <2>5, Zenon DEF Outcome, Skip
  <2> QED
    BY <2>4, <2>5, Zenon
<1> QED
  BY <1>1, <1>3, <1>4, <1>7, <1>8, Zenon

-----------------------------------------------------------------------------
(* The search is sound. *)

SoundInv == Types /\ FramesArePath /\ CacheIsTrue /\ AcceptedByAnchor

\* What is said of a frame depends on the frames up to it.
LEMMA FramesBelow ==
    ASSUME NEW n \in Nat, world' = world,
           \A j \in 1 .. n : frames'[j].subject = frames[j].subject
    PROVE  \A k \in 1 .. n :
               /\ Subject(k)' = Subject(k) /\ Prefix(k)' = Prefix(k)
               /\ \A d : MayFollow(k, d)' <=> MayFollow(k, d)
<1> SUFFICES ASSUME NEW k \in 1 .. n
             PROVE  /\ Subject(k)' = Subject(k) /\ Prefix(k)' = Prefix(k)
                    /\ \A d : MayFollow(k, d)' <=> MayFollow(k, d)
  BY Zenon
<1>1. Subject(k)' = Subject(k)
  BY Zenon DEF Subject
<1>2. \A j \in 1 .. k : frames'[j].subject = frames[j].subject
  OBVIOUS
<1>3. Prefix(k)' = Prefix(k)
  BY <1>2, Zenon DEF Prefix, Subject
<1> QED
  BY <1>1, <1>3, Zenon DEF MayFollow

\* The certificates of one frame more.
LEMMA PrefixGrows ==
    ASSUME NEW k \in Nat
    PROVE  Prefix(k + 1) = Prefix(k) \cup {Subject(k + 1)}
<1>1. 1 .. k + 1 = (1 .. k) \cup {k + 1}
  OBVIOUS
<1> QED
  BY <1>1, Zenon DEF Prefix

\* The search starts with the leaf, or refuses.
LEMMA SoundBegin ==
    ASSUME SoundInv, Begin
    PROVE  SoundInv'
<1>1. CASE ~Searchable
  <2>1. result' = "Err" /\ UNCHANGED <<world, frames, used, checked, valid>>
    BY <1>1, Zenon DEF Begin
  <2> QED
    BY <2>1, Zenon DEF SoundInv, Types, FramesArePath, CacheIsTrue, AcceptedByAnchor
<1>2. CASE Searchable
  <2>1. /\ result' = "Running" /\ frames' = <<Frame(0)>> /\ used' = {0}
        /\ UNCHANGED <<world, checked, valid>>
    BY <1>2, Zenon DEF Begin
  <2>2. 0 \in Certs /\ world.n \in Nat /\ world \in World
    BY WorldFacts, Zenon DEF SoundInv, Types
  <2>3. Frame(0) \in FrameType
    BY <2>2, Zenon DEF FrameType, Frame
  <2>4. /\ frames' \in Seq(FrameType) /\ Len(frames') = 1 /\ frames'[1].subject = 0
    BY <2>1, <2>3 DEF Frame
  <2>5. Types'
    BY <2>1, <2>2, <2>4, Zenon DEF SoundInv, Types
  <2>6. Height' = 1 /\ Subject(1)' = 0 /\ Prefix(1)' = {0}
    BY <2>4 DEF Height, Subject, Prefix
  <2>7. Searchable'
    BY <1>2, <2>1, Zenon DEF Searchable
  <2>8. FramesArePath'
    <3>1. 1 .. Height' = {1} /\ 1 .. Height' - 1 = {}
      BY <2>6
    <3>2. 0 < world'.n /\ 0 \in world'.prepared
      BY <1>2, <2>1, <2>2, Zenon DEF Searchable
    <3> QED
      BY <2>1, <2>6, <2>7, <3>1, <3>2, Zenon DEF FramesArePath
  <2> QED
    BY <2>1, <2>5, <2>8, Zenon DEF SoundInv, CacheIsTrue, AcceptedByAnchor
<1> QED
  BY <1>1, <1>2, Zenon

\* The cache stays true.
LEMMA CacheStep ==
    ASSUME Types, CacheIsTrue, Run
    PROVE  CacheIsTrue'
<1>1. CASE UNCHANGED <<world, checked, valid>>
  BY <1>1, Zenon DEF CacheIsTrue
<1>2. CASE TryCandidate
  BY <1>2, CacheAnswers, Zenon DEF TryCandidate, UpdateCache, Remembered, CacheIsTrue
<1> QED
  BY <1>1, <1>2, Zenon DEF Run, GiveUp, Enter, Exhausted, PassOver

\* A turn of the loop leaves the frames a path.
LEMMA PathStep ==
    ASSUME Types, FramesArePath, CacheIsTrue, Run, frames # <<>>
    PROVE  Types' /\ FramesArePath' /\ AcceptedByAnchor'
<1>1. /\ Outcome /\ world' = world /\ result = "Running" /\ frames' \in Seq(FrameType)
      /\ world \in World /\ used \subseteq Certs /\ frames \in Seq(FrameType)
  BY RunCases, Zenon DEF Types
<1>2. /\ Searchable /\ Searchable'
      /\ used = Prefix(Height)
      /\ \A k \in 1 .. Height : Subject(k) < world.n /\ Subject(k) \in world.prepared
      /\ Subject(1) = 0 /\ Height \in Nat \ {0} /\ Top.subject = Subject(Height)
      /\ \A j, k \in 1 .. Height : Subject(j) = Subject(k) => j = k
      /\ \A k \in 1 .. Height - 1 : MayFollow(k, Subject(k + 1))
  BY <1>1, TopFacts DEF FramesArePath, Searchable
<1>h. PICK h \in Nat \ {0} : h = Height
  BY <1>2, Zenon
<1>3. ASSUME NEW m \in Nat, Kept(m)
      PROVE  /\ Height' = Height /\ used' = used
             /\ \A k \in 1 .. Height :
                    /\ Subject(k)' = Subject(k) /\ Prefix(k)' = Prefix(k)
                    /\ \A d : MayFollow(k, d)' <=> MayFollow(k, d)
  <2>1. \A j \in 1 .. Height : frames'[j].subject = frames[j].subject
    BY <1>2, <1>3 DEF Kept, Subject
  <2>2. Height' = Height /\ used' = used
    BY <1>3, Zenon DEF Kept, Height
  <2> QED
    BY <1>1, <1>2, <2>1, <2>2, FramesBelow, Zenon
<1>4. ASSUME NEW m \in Nat, Kept(m), result' \in {"Running", "Ok"}
      PROVE  Types' /\ FramesArePath'
  <2>1. Types'
    BY <1>1, <1>3, <1>4, Zenon DEF Types
  <2>2. FramesArePath'
    BY <1>1, <1>2, <1>3, <1>4 DEF FramesArePath
  <2> QED
    BY <2>1, <2>2, Zenon
<1>5. CASE DropSeen \/ DropExhausted
  <2>1. Popped /\ result' = "Running"
    BY <1>1, <1>5, Zenon DEF DropSeen, DropExhausted
  <2>2. Height' = h - 1 /\ h - 1 \in Nat /\ used' = used \ {Subject(h)}
    BY <1>2, <1>h, <2>1 DEF Popped, Height
  <2>3. \A k \in 1 .. h - 1 :
            /\ Subject(k)' = Subject(k) /\ Prefix(k)' = Prefix(k)
            /\ \A d : MayFollow(k, d)' <=> MayFollow(k, d)
    BY <1>1, <1>h, <2>1, <2>2, FramesBelow, Zenon DEF Popped
  <2>4. Types'
    BY <1>1, <2>1, <2>2, Zenon DEF Types
  <2>5. used' = Prefix(h - 1)'
    <3>1. Prefix(h) = Prefix(h - 1) \cup {Subject(h)}
      <4>1. PICK g \in Nat : g = h - 1
        BY <2>2, Zenon
      <4>2. g + 1 = h
        BY <4>1
      <4> QED
        BY <4>1, <4>2, PrefixGrows, Zenon
    <3>2. Subject(h) \notin Prefix(h - 1)
      BY <1>2, <1>h, <2>2 DEF Prefix
    <3>3. Prefix(h - 1)' = Prefix(h - 1)
      <4>1. CASE h = 1
        BY <4>1 DEF Prefix
      <4>2. CASE h # 1
        BY <2>3, <4>2
      <4> QED
        BY <4>1, <4>2, Zenon
    <3> QED
      BY <1>2, <1>h, <2>2, <3>1, <3>2, <3>3, ZenonT(40)
  <2>6. FramesArePath'
    <3>1. used' = Prefix(Height)'
      BY <2>2, <2>5, Zenon DEF Prefix
    <3>2. \A k \in 1 .. Height' : Subject(k)' < world'.n /\ Subject(k)' \in world'.prepared
      <4> SUFFICES ASSUME NEW k \in 1 .. Height'
                   PROVE  Subject(k)' < world'.n /\ Subject(k)' \in world'.prepared
        BY Zenon
      <4>1. k \in 1 .. h - 1 /\ k \in 1 .. Height
        BY <1>h, <2>2
      <4> QED
        BY <1>1, <1>2, <2>3, <4>1
    <3>3. Height' > 0 => Subject(1)' = 0
      BY <1>2, <1>h, <2>2, <2>3
    <3>4. \A j, k \in 1 .. Height' : Subject(j)' = Subject(k)' => j = k
      BY <1>2, <1>h, <2>2, <2>3
    <3>5. \A k \in 1 .. Height' - 1 : MayFollow(k, Subject(k + 1))'
      <4> SUFFICES ASSUME NEW k \in 1 .. Height' - 1 PROVE MayFollow(k, Subject(k + 1))'
        BY Zenon
      <4>1. k \in 1 .. h - 1 /\ k + 1 \in 1 .. h - 1
        BY <1>2, <2>2
      <4>2. PICK d : d = Subject(k + 1)
        BY Zenon
      <4>3. MayFollow(k, d) /\ Subject(k + 1)' = d /\ MayFollow(k, d)'
        BY <1>2, <1>h, <2>3, <4>1, <4>2, Zenon
      <4> QED
        BY <4>3, Zenon DEF MayFollow
    <3> QED
      BY <1>2, <3>1, <3>2, <3>3, <3>4, <3>5, Zenon DEF FramesArePath
  <2> QED
    BY <2>1, <2>4, <2>6, Zenon DEF AcceptedByAnchor
<1>6. CASE Accept
  <2>1. Kept(1) /\ AnchorAccepts /\ result' = "Ok" /\ 1 \in Nat
    BY <1>6, Zenon DEF Accept
  <2>2. Types' /\ FramesArePath'
    BY <1>4, <2>1, Zenon
  <2>3. Height' = Height /\ Subject(Height)' = Subject(Height)
    BY <1>2, <1>3, <2>1
  <2>4. Prefix(Height) = OnPath /\ Prefix(Height)' = OnPath' /\ Prefix(Height)' = Prefix(Height)
    <3>1. Prefix(Height)' = Prefix(Height)
      BY <1>2, <1>3, <2>1, <2>3 DEF Prefix
    <3> QED
      BY <3>1, Zenon DEF Prefix, OnPath, Subject, Height
  <2>5. Top.subject' = Top.subject
    BY <2>3, Zenon DEF Subject, Top, Height
  <2> QED
    BY <1>1, <1>2, <2>1, <2>2, <2>3, <2>4, <2>5 DEF AcceptedByAnchor, AnchorAccepts
<1>7. CASE Open
  BY <1>1, <1>4, <1>7, Zenon DEF Open, AcceptedByAnchor
<1>8. ASSUME NEW c \in Nat, Skip(c)
      PROVE  Types' /\ FramesArePath' /\ AcceptedByAnchor'
  BY <1>1, <1>4, <1>8 DEF Skip, AcceptedByAnchor
<1>9. ASSUME NEW c \in Nat, Push(c)
      PROVE  Types' /\ FramesArePath' /\ AcceptedByAnchor'
  <2>1. /\ Pushed(c) /\ result' = "Running" /\ MayFollow(Height, c)
    BY <1>1, <1>9, Zenon DEF Push
  <2>2. /\ Height' = h + 1 /\ used' = used \cup {c}
        /\ Subject(h + 1)' = c
    <3>1. frames'[h + 1] = Frame(c)
      BY <1>h, <2>1, Zenon DEF Pushed
    <3>2. frames'[h + 1].subject = c
      BY <3>1 DEF Frame
    <3> QED
      BY <1>h, <2>1, <3>2, Zenon DEF Pushed, Height, Subject
  <2>3. \A k \in 1 .. h :
            /\ Subject(k)' = Subject(k) /\ Prefix(k)' = Prefix(k)
            /\ \A d : MayFollow(k, d)' <=> MayFollow(k, d)
    <3>1. \A j \in 1 .. Height : frames'[j].subject = frames[j].subject
      BY <1>2, <2>1 DEF Pushed, Subject
    <3> QED
      BY <1>1, <1>h, <3>1, FramesBelow, Zenon
  <2>4. c \in Certs /\ c < world.n /\ c \in world.prepared /\ c \notin Prefix(Height)
    BY <1>1, <2>1, WorldFacts DEF MayFollow
  <2>5. Types'
    BY <1>1, <2>1, <2>2, <2>4, Zenon DEF Types
  <2>6. FramesArePath'
    <3>1. used' = Prefix(Height)'
      <4>1. Prefix(h)' = Prefix(h) /\ 1 .. h + 1 = (1 .. h) \cup {h + 1}
        BY <2>3
      <4>2. Prefix(h + 1)' = Prefix(h)' \cup {Subject(h + 1)'}
        BY <4>1, Zenon DEF Prefix
      <4>3. Prefix(Height)' = Prefix(h + 1)'
        BY <2>2, Zenon DEF Prefix
      <4> QED
        BY <1>2, <1>h, <2>2, <4>1, <4>2, <4>3, Zenon
    <3>2. \A k \in 1 .. Height' : Subject(k)' < world'.n /\ Subject(k)' \in world'.prepared
      BY <1>1, <1>2, <1>h, <2>2, <2>3, <2>4
    <3>3. Height' > 0 => Subject(1)' = 0
      BY <1>2, <1>h, <2>2, <2>3
    <3>4. \A j, k \in 1 .. Height' : Subject(j)' = Subject(k)' => j = k
      <4>1. \A j \in 1 .. h : Subject(j)' # c
        BY <1>h, <2>3, <2>4, Zenon DEF Prefix
      <4> QED
        BY <1>2, <1>h, <2>2, <2>3, <4>1
    <3>5. \A k \in 1 .. Height' - 1 : MayFollow(k, Subject(k + 1))'
      <4> SUFFICES ASSUME NEW k \in 1 .. Height' - 1 PROVE MayFollow(k, Subject(k + 1))'
        BY Zenon
      <4>1. PICK d : d = IF k = h THEN c ELSE Subject(k + 1)
        BY Zenon
      <4>2. MayFollow(k, d) /\ Subject(k + 1)' = d /\ MayFollow(k, d)'
        BY <1>2, <1>h, <2>1, <2>2, <2>3, <4>1, SMTT(30)
      <4> QED
        BY <4>2, Zenon DEF MayFollow
    <3> QED
      BY <1>2, <3>1, <3>2, <3>3, <3>4, <3>5, Zenon DEF FramesArePath
  <2> QED
    BY <2>1, <2>5, <2>6, Zenon DEF AcceptedByAnchor
<1> QED
  BY <1>1, <1>5, <1>6, <1>7, <1>8, <1>9, Zenon DEF Outcome

\* The sound invariant holds of every state of the search.
LEMMA SoundHolds == Spec => []SoundInv
<1>1. Init => SoundInv
  <2> SUFFICES ASSUME Init PROVE SoundInv
    BY Zenon
  <2>1. world \in World /\ frames = <<>> /\ used = {} /\ checked = {} /\ valid = {}
        /\ result = "None"
    BY ChainAssumption, Zenon DEF Init, SearchInit
  <2> QED
    BY <2>1 DEF SoundInv, Types, FramesArePath, CacheIsTrue, AcceptedByAnchor
<1>2. SoundInv /\ [Next]_vars => SoundInv'
  <2> SUFFICES ASSUME SoundInv, [Next]_vars PROVE SoundInv'
    BY Zenon
  <2>1. CASE Begin
    BY <2>1, SoundBegin, Zenon
  <2>2. CASE Run /\ frames # <<>>
    BY <2>2, PathStep, CacheStep, Zenon DEF SoundInv
  <2>3. CASE Run /\ frames = <<>>
    <3>1. GiveUp
      BY <2>3, Zenon DEF Run
    <3> QED
      BY <3>1, Zenon DEF GiveUp, SoundInv, Types, FramesArePath, CacheIsTrue, AcceptedByAnchor
  <2>4. CASE UNCHANGED vars
    <3>1. UNCHANGED <<world, frames, used, checked, valid, result>>
      BY <2>4, Zenon DEF vars
    <3>2. Types' /\ CacheIsTrue'
      BY <3>1, Zenon DEF SoundInv, Types, CacheIsTrue
    <3>3. FramesArePath'
      <4>1. /\ Height' = Height /\ (Searchable' <=> Searchable)
            /\ Prefix(Height)' = Prefix(Height) /\ \A k : Subject(k)' = Subject(k)
        BY <3>1, Zenon DEF Height, Searchable, Prefix, Subject
      <4>2. \A k : MayFollow(k, Subject(k + 1))' <=> MayFollow(k, Subject(k + 1))
        BY <3>1, ZenonT(40) DEF MayFollow, Prefix, Subject
      <4> QED
        BY <3>1, <4>1, <4>2, Zenon DEF SoundInv, FramesArePath
    <3>4. AcceptedByAnchor'
      BY <3>1, ZenonT(40) DEF SoundInv, AcceptedByAnchor, Height, AnchorAccepts, Top, OnPath
    <3> QED
      BY <3>2, <3>3, <3>4, Zenon DEF SoundInv
  <2> QED
    BY <2>1, <2>2, <2>3, <2>4, Zenon DEF Next
<1> QED
  BY <1>1, <1>2, PTL DEF Spec

\* The search accepts only with a trusted path in its frames (Search::run),
\* whatever the certificates of the chain are to each other and whatever the
\* signature cache and the memoized states have cut short before.
THEOREM AlwaysAcceptsTrustedPath == Spec => []AcceptsTrustedPath
<1>1. SoundInv => AcceptsTrustedPath
  <2> SUFFICES ASSUME SoundInv, result = "Ok" PROVE IsTrusted(world, PathOf(frames))
    BY Zenon DEF AcceptsTrustedPath
  <2> DEFINE p == PathOf(frames)
  <2>1. /\ Searchable
        /\ \A k \in 1 .. Height : Subject(k) < world.n /\ Subject(k) \in world.prepared
        /\ Subject(1) = 0 /\ Height > 0 /\ AnchorAccepts
        /\ \A j, k \in 1 .. Height : Subject(j) = Subject(k) => j = k
        /\ \A k \in 1 .. Height - 1 : MayFollow(k, Subject(k + 1))
    BY Zenon DEF SoundInv, FramesArePath, AcceptedByAnchor
  <2>2. frames \in Seq(FrameType) /\ frames # <<>> /\ Height \in Nat \ {0}
    BY <2>1 DEF SoundInv, Types, Height
  <2>3. Len(p) = Height /\ \A k \in 1 .. Height : p[k] = Subject(k)
    BY <2>2 DEF PathOf, Height, Subject
  <2>4. Top.subject = Subject(Height) /\ OnPath = Prefix(Height)
    BY Zenon DEF Top, Subject, Height, OnPath, Prefix
  <2> HIDE DEF p
  <2>5. \A k \in 1 .. Len(p) - 1 :
           /\ <<p[k], p[k + 1]>> \in world.named \cap world.signed
           /\ p[k + 1] \in world.ca
           /\ k - 1 <= world.pathLimit[p[k + 1]]
           /\ \A j \in 1 .. k : p[j] \notin world.forbids[p[k + 1]]
    <3> SUFFICES ASSUME NEW k \in 1 .. Height - 1
                 PROVE  /\ <<p[k], p[k + 1]>> \in world.named \cap world.signed
                        /\ p[k + 1] \in world.ca
                        /\ k - 1 <= world.pathLimit[p[k + 1]]
                        /\ \A j \in 1 .. k : p[j] \notin world.forbids[p[k + 1]]
      BY <2>3, Zenon
    <3>1. PICK c : c = Subject(k + 1)
      BY Zenon
    <3>2. MayFollow(k, c) /\ p[k] = Subject(k) /\ p[k + 1] = c
      BY <2>1, <2>2, <2>3, <3>1, SMTT(30)
    <3>3. \A j \in 1 .. k : p[j] \in Prefix(k)
      BY <2>2, <2>3 DEF Prefix
    <3> QED
      BY <3>2, <3>3, Zenon DEF MayFollow
  <2>6. IsPath(world, p)
    <3>1. 1 \in 1 .. Height
      BY <2>2
    <3>2. Len(p) > 0 /\ p[1] = 0
      BY <2>1, <2>3, <3>1, Zenon
    <3>3. \A k \in 1 .. Len(p) : p[k] < world.n /\ p[k] \in world.prepared
      BY <2>1, <2>3, SMTT(30)
    <3>4. \A j, k \in 1 .. Len(p) : p[j] = p[k] => j = k
      BY <2>1, <2>3, SMTT(30)
    <3> QED
      BY <2>1, <2>5, <3>2, <3>3, <3>4, Zenon DEF IsPath, Searchable
  <2>7. \A j \in 1 .. Len(p) : p[j] \notin world.anchorForbids[p[Len(p)]]
    <3>1. \A j \in 1 .. Len(p) : p[j] \in Prefix(Height)
      BY <2>2, <2>3, Zenon DEF Prefix
    <3>2. p[Len(p)] = Top.subject
      BY <2>2, <2>3, <2>4
    <3> QED
      BY <2>1, <2>4, <3>1, <3>2, Zenon DEF AnchorAccepts
  <2>8. p[Len(p)] \in world.anchored
    BY <2>1, <2>2, <2>3, <2>4 DEF AnchorAccepts
  <2>9. IsTrusted(world, p)
    BY <2>6, <2>7, <2>8, Zenon DEF IsTrusted
  <2> QED
    BY <2>9, Zenon DEF p
<1> QED
  BY <1>1, SoundHolds, PTL

-----------------------------------------------------------------------------
(* The index of Seen::admit. *)

\* Induction over the natural numbers, for a set of them.
LEMMA SetInduction ==
    ASSUME NEW S, 0 \in S, \A n \in Nat : n \in S => n + 1 \in S
    PROVE  Nat \subseteq S
<1> SUFFICES ASSUME Nat \ S # {} PROVE FALSE
  BY Zenon
<1> DEFINE T == Nat \ S
<1>1. PICK R : R = OpToRel(<, Nat)
  BY Zenon
<1>2. IsWellFoundedOn(R, Nat)
  BY <1>1, NatLessThanWellFounded, Zenon
<1>3. T \subseteq Nat /\ T # {}
  BY Zenon
<1> HIDE DEF T
<1>4. PICK x \in T : \A y \in T : ~(<<y, x>> \in R)
  BY <1>2, <1>3, WFMin, Zenon
<1>5. \A x1, y1 \in Nat : x1 < y1 => <<x1, y1>> \in R
  BY <1>1, Zenon DEF OpToRel
<1>6. \A y \in T : x \in Nat /\ y \in Nat /\ ~(y < x)
  BY <1>3, <1>4, <1>5, Zenon
<1> USE DEF T
<1>7. x # 0 /\ x - 1 \in Nat /\ x = (x - 1) + 1
  OBVIOUS
<1>8. x - 1 \in S
  BY <1>6, <1>7
<1> QED
  BY <1>7, <1>8, Zenon

\* Induction over an initial segment.
LEMMA SegmentInduction ==
    ASSUME NEW n \in Nat, NEW S, 0 \in S, \A k \in 0 .. n - 1 : k \in S => k + 1 \in S
    PROVE  0 .. n \subseteq S
<1> DEFINE T == {k \in Nat : k <= n => k \in S}
<1>1. 0 \in T
  BY Zenon
<1>2. \A k \in Nat : k \in T => k + 1 \in T
  OBVIOUS
<1> HIDE DEF T
<1>3. Nat \subseteq T
  BY <1>1, <1>2, SetInduction, Zenon
<1> QED
  BY <1>3 DEF T

\* f follows the rule G up to k, from v on.
Follows(f, G, v, k) ==
    /\ f \in [0 .. k -> Nat]
    /\ f[0] = v
    /\ \A i \in 1 .. k : f[i] = G[<<i, f[i - 1]>>]

\* A function that is defined by recursion over an initial segment of Nat.
LEMMA Recursion ==
    ASSUME NEW n \in Nat, NEW v \in Nat, NEW G \in [(1 .. n) \X Nat -> Nat]
    PROVE  \E f : Follows(f, G, v, n)
<1> DEFINE S == {k \in Nat : k <= n => \E f : Follows(f, G, v, k)}
<1>1. 0 \in S
  <2> DEFINE f == [i \in 0 .. 0 |-> v]
  <2>1. Follows(f, G, v, 0)
    BY DEF Follows
  <2> QED
    BY <2>1, Zenon
<1>2. ASSUME NEW k \in Nat, k \in S PROVE k + 1 \in S
  <2> SUFFICES ASSUME k + 1 <= n PROVE \E f : Follows(f, G, v, k + 1)
    OBVIOUS
  <2>1. PICK f : Follows(f, G, v, k)
    BY <1>2
  <2>2. PICK w \in Nat : w = G[<<k + 1, f[k]>>]
    <3>1. k + 1 \in 1 .. n /\ f[k] \in Nat
      BY <2>1 DEF Follows
    <3> QED
      BY <3>1, Zenon
  <2> DEFINE g == [i \in 0 .. (k + 1) |-> IF i = k + 1 THEN w ELSE f[i]]
  <2>3. g \in [0 .. (k + 1) -> Nat] /\ g[0] = v
    BY <2>1 DEF Follows
  <2>4. ASSUME NEW i \in 1 .. (k + 1)
        PROVE  g[i] = G[<<i, g[i - 1]>>]
    <3>1. CASE i = k + 1
      <4>1. g[i] = w /\ g[i - 1] = f[k]
        BY <3>1
      <4> QED
        BY <2>2, <3>1, <4>1, Zenon
    <3>2. CASE i # k + 1
      <4>1. i \in 1 .. k /\ g[i] = f[i] /\ g[i - 1] = f[i - 1]
        BY <3>2
      <4> QED
        BY <2>1, <4>1, Zenon DEF Follows
    <3> QED
      BY <3>1, <3>2, Zenon
  <2>5. Follows(g, G, v, k + 1)
    BY <2>3, <2>4, Zenon DEF Follows
  <2> QED
    BY <2>5, Zenon
<1> HIDE DEF S
<1>3. n \in S
  BY <1>1, <1>2, SetInduction, Zenon
<1> USE DEF S
<1> QED
  BY <1>3

\* Bit counts in powers of two.
LEMMA BitFacts ==
    /\ \A c \in 0 .. MAX_LEN : Bit[c] \in Nat /\ Bit[c] > 0
    /\ Bit[0] = 1
    /\ \A c \in 1 .. MAX_LEN : Bit[c] = 2 * Bit[c - 1]
<1>1. MAX_LEN \in Nat
  BY ChainAssumption, Zenon
<1> DEFINE G == [x \in (1 .. MAX_LEN) \X Nat |-> 2 * x[2]]
           Rule(f, c) == IF c = 0 THEN 1 ELSE 2 * f[c - 1]
           Is(f) == f = [c \in 0 .. MAX_LEN |-> Rule(f, c)]
<1>2. G \in [(1 .. MAX_LEN) \X Nat -> Nat]
  OBVIOUS
<1>3. PICK f : Follows(f, G, 1, MAX_LEN)
  <2> HIDE DEF G
  <2> QED
    BY <1>1, <1>2, Recursion, Zenon
<1>4. f \in [0 .. MAX_LEN -> Nat]
  BY <1>3, Zenon DEF Follows
<1>5. \A c \in 0 .. MAX_LEN : f[c] = Rule(f, c)
  <2>1. f[0] = 1
    BY <1>3, Zenon DEF Follows
  <2>2. ASSUME NEW c \in 1 .. MAX_LEN PROVE f[c] = 2 * f[c - 1]
    <3>1. f[c] = G[<<c, f[c - 1]>>]
      BY <1>3, Zenon DEF Follows
    <3>2. f[c - 1] \in Nat
      BY <1>1, <1>4
    <3> QED
      BY <1>1, <3>1, <3>2, Zenon
  <2> HIDE DEF G
  <2> QED
    BY <1>1, <2>1, <2>2
<1>6. Is(f)
  <2> HIDE DEF Rule
  <2> QED
    BY <1>4, <1>5, Zenon
<1>7. Bit = CHOOSE g : Is(g)
  BY Zenon DEF Bit
<1>8. Is(Bit)
  <2> HIDE DEF Is
  <2> QED
    BY <1>6, <1>7, Zenon
<1>9. \A c \in 0 .. MAX_LEN : Bit[c] = Rule(Bit, c)
  <2> HIDE DEF Rule
  <2> QED
    BY <1>8, Zenon
<1> HIDE DEF Is, G
<1>10. Bit[0] = 1 /\ \A c \in 1 .. MAX_LEN : Bit[c] = 2 * Bit[c - 1]
  BY <1>1, <1>9
<1> DEFINE S == {c \in 0 .. MAX_LEN : Bit[c] \in Nat /\ Bit[c] > 0}
<1>12. 0 \in S /\ \A c \in 0 .. MAX_LEN - 1 : c \in S => c + 1 \in S
  BY <1>1, <1>10
<1> HIDE DEF S
<1>13. 0 .. MAX_LEN \subseteq S
  BY <1>1, <1>12, SegmentInduction, Zenon
<1>14. \A c \in 0 .. MAX_LEN : Bit[c] \in Nat /\ Bit[c] > 0
  BY <1>13, Zenon DEF S
<1> QED
  BY <1>10, <1>14, Zenon

\* The sum of the bits of a set up to k.
BitSum(certs) == CHOOSE f : f = [k \in 0 .. MAX_LEN |->
    IF k = 0 THEN 0 ELSE f[k - 1] + (IF k - 1 \in certs THEN Bit[k - 1] ELSE 0)]

LEMMA BitSumFacts ==
    ASSUME NEW certs
    PROVE  /\ Bits(certs) = BitSum(certs)[MAX_LEN]
           /\ \A k \in 0 .. MAX_LEN : BitSum(certs)[k] \in Nat
           /\ BitSum(certs)[0] = 0
           /\ \A k \in 1 .. MAX_LEN :
                BitSum(certs)[k] =
                    BitSum(certs)[k - 1] + (IF k - 1 \in certs THEN Bit[k - 1] ELSE 0)
<1>1. MAX_LEN \in Nat
  BY ChainAssumption, Zenon
<1> DEFINE w(k) == IF k - 1 \in certs THEN Bit[k - 1] ELSE 0
           G == [x \in (1 .. MAX_LEN) \X Nat |-> x[2] + w(x[1])]
           Rule(f, k) == IF k = 0 THEN 0 ELSE f[k - 1] + w(k)
           Is(f) == f = [k \in 0 .. MAX_LEN |-> Rule(f, k)]
<1>2. \A k \in 1 .. MAX_LEN : w(k) \in Nat
  BY <1>1, BitFacts
<1> HIDE DEF w
<1>3. G \in [(1 .. MAX_LEN) \X Nat -> Nat]
  BY <1>2
<1>4. PICK f : Follows(f, G, 0, MAX_LEN)
  <2> HIDE DEF G
  <2> QED
    BY <1>1, <1>3, Recursion, Zenon
<1>5. f \in [0 .. MAX_LEN -> Nat]
  BY <1>4, Zenon DEF Follows
<1>6. \A k \in 0 .. MAX_LEN : f[k] = Rule(f, k)
  <2>1. f[0] = 0
    BY <1>4, Zenon DEF Follows
  <2>2. ASSUME NEW k \in 1 .. MAX_LEN PROVE f[k] = f[k - 1] + w(k)
    <3>1. f[k] = G[<<k, f[k - 1]>>]
      BY <1>4, Zenon DEF Follows
    <3>2. f[k - 1] \in Nat
      BY <1>1, <1>5
    <3> QED
      BY <1>1, <3>1, <3>2, Zenon
  <2> HIDE DEF G
  <2> QED
    BY <1>1, <2>1, <2>2
<1> HIDE DEF G
<1>7. Is(f)
  <2> HIDE DEF Rule
  <2> QED
    BY <1>5, <1>6, Zenon
<1>8. BitSum(certs) = CHOOSE g : Is(g)
  BY Zenon DEF BitSum, w
<1>9. Is(BitSum(certs))
  <2> HIDE DEF Is
  <2> QED
    BY <1>7, <1>8, Zenon
<1>10. \A k \in 0 .. MAX_LEN : BitSum(certs)[k] = Rule(BitSum(certs), k)
  <2> HIDE DEF Rule
  <2> QED
    BY <1>9, Zenon
<1> HIDE DEF Is
<1>11. /\ BitSum(certs)[0] = 0
       /\ \A k \in 1 .. MAX_LEN : BitSum(certs)[k] = BitSum(certs)[k - 1] + w(k)
  BY <1>1, <1>10
<1> DEFINE S == {k \in 0 .. MAX_LEN : BitSum(certs)[k] \in Nat}
<1>12. 0 \in S /\ \A k \in 0 .. MAX_LEN - 1 : k \in S => k + 1 \in S
  BY <1>1, <1>2, <1>11
<1> HIDE DEF S
<1>13. 0 .. MAX_LEN \subseteq S
  BY <1>1, <1>12, SegmentInduction, Zenon
<1>14. \A k \in 0 .. MAX_LEN : BitSum(certs)[k] \in Nat
  BY <1>13, Zenon DEF S
<1>15. Bits(certs) = BitSum(certs)[MAX_LEN]
  BY Zenon DEF Bits, BitSum
<1> QED
  BY <1>11, <1>14, <1>15, Zenon DEF w

\* The bits below k add up to less than the bit k.
LEMMA BitSumBelow ==
    ASSUME NEW A, NEW k \in 0 .. MAX_LEN
    PROVE  BitSum(A)[k] < Bit[k]
<1>1. MAX_LEN \in Nat
  BY ChainAssumption, Zenon
<1> DEFINE S == {j \in 0 .. MAX_LEN : BitSum(A)[j] < Bit[j]}
<1>2. 0 \in S
  BY <1>1, BitFacts, BitSumFacts
<1>3. ASSUME NEW j \in 0 .. MAX_LEN - 1, j \in S PROVE j + 1 \in S
  <2>1. Bit[j + 1] = 2 * Bit[j] /\ Bit[j] \in Nat
    BY <1>1, BitFacts
  <2>2. BitSum(A)[j + 1] = BitSum(A)[j] + (IF j \in A THEN Bit[j] ELSE 0) /\ BitSum(A)[j] \in Nat
    BY <1>1, BitSumFacts
  <2> QED
    BY <1>1, <1>3, <2>1, <2>2
<1> HIDE DEF S
<1>4. 0 .. MAX_LEN \subseteq S
  BY <1>1, <1>2, <1>3, SegmentInduction, Zenon
<1> QED
  BY <1>4, Zenon DEF S

\* Sets with the same sum have the same elements.
LEMMA BitSumInjective ==
    ASSUME NEW A, NEW B, NEW k \in 0 .. MAX_LEN, BitSum(A)[k] = BitSum(B)[k]
    PROVE  \A i \in 0 .. k - 1 : i \in A <=> i \in B
<1>1. MAX_LEN \in Nat
  BY ChainAssumption, Zenon
<1> DEFINE S == {j \in 0 .. MAX_LEN :
                   BitSum(A)[j] = BitSum(B)[j] => \A i \in 0 .. j - 1 : i \in A <=> i \in B}
<1>2. 0 \in S
  BY <1>1
<1>3. ASSUME NEW j \in 0 .. MAX_LEN - 1, j \in S PROVE j + 1 \in S
  <2> SUFFICES ASSUME BitSum(A)[j + 1] = BitSum(B)[j + 1], NEW i \in 0 .. j
               PROVE  i \in A <=> i \in B
    BY <1>1
  <2>1. /\ Bit[j] \in Nat /\ BitSum(A)[j] \in Nat /\ BitSum(B)[j] \in Nat
        /\ BitSum(A)[j] < Bit[j] /\ BitSum(B)[j] < Bit[j]
    BY <1>1, BitFacts, BitSumFacts, BitSumBelow
  <2>2. BitSum(A)[j + 1] = BitSum(A)[j] + (IF j \in A THEN Bit[j] ELSE 0)
    BY <1>1, BitSumFacts
  <2>3. BitSum(B)[j + 1] = BitSum(B)[j] + (IF j \in B THEN Bit[j] ELSE 0)
    BY <1>1, BitSumFacts
  <2>4. PICK a, b, w \in Nat : a = BitSum(A)[j] /\ b = BitSum(B)[j] /\ w = Bit[j] /\ a < w /\ b < w
    BY <2>1, Zenon
  <2>5. a + (IF j \in A THEN w ELSE 0) = b + (IF j \in B THEN w ELSE 0)
    BY <2>2, <2>3, <2>4, Zenon
  <2>6. a = b /\ (j \in A <=> j \in B)
    BY <2>4, <2>5
  <2>7. \A n \in 0 .. j - 1 : n \in A <=> n \in B
    BY <1>3, <2>4, <2>6, Zenon
  <2>8. i = j \/ i \in 0 .. j - 1
    OBVIOUS
  <2> QED
    BY <2>6, <2>7, <2>8, Zenon
<1> HIDE DEF S
<1>4. 0 .. MAX_LEN \subseteq S
  BY <1>1, <1>2, <1>3, SegmentInduction, Zenon
<1> QED
  BY <1>4, Zenon DEF S

\* The sum of a set with 0 is odd.
LEMMA BitSumOdd ==
    ASSUME NEW A, 0 \in A, NEW k \in 1 .. MAX_LEN
    PROVE  \E l \in Nat : BitSum(A)[k] = 1 + 2 * l
<1>1. MAX_LEN \in Nat
  BY ChainAssumption, Zenon
<1> DEFINE S == {j \in 0 .. MAX_LEN : j > 0 => \E l \in Nat : BitSum(A)[j] = 1 + 2 * l}
<1>2. 0 \in S
  BY <1>1
<1>3. ASSUME NEW j \in 0 .. MAX_LEN - 1, j \in S PROVE j + 1 \in S
  <2>1. BitSum(A)[j + 1] = BitSum(A)[j] + (IF j \in A THEN Bit[j] ELSE 0)
    BY <1>1, BitSumFacts
  <2>2. CASE j = 0
    <3>1. BitSum(A)[j + 1] = 1 + 2 * 0
      BY <2>1, <2>2, BitFacts, BitSumFacts
    <3> QED
      BY <1>1, <3>1
  <2>3. CASE j > 0
    <3>1. PICK l \in Nat : BitSum(A)[j] = 1 + 2 * l
      BY <1>3, <2>3, Zenon
    <3>2. Bit[j] = 2 * Bit[j - 1] /\ Bit[j - 1] \in Nat
      BY <1>1, <2>3, BitFacts
    <3>3. CASE j \in A
      <4>1. BitSum(A)[j + 1] = 1 + 2 * (l + Bit[j - 1]) /\ l + Bit[j - 1] \in Nat
        BY <2>1, <3>1, <3>2, <3>3
      <4> QED
        BY <1>1, <4>1
    <3>4. CASE j \notin A
      <4>1. BitSum(A)[j + 1] = 1 + 2 * l
        BY <2>1, <3>1, <3>4
      <4> QED
        BY <1>1, <4>1
    <3> QED
      BY <3>3, <3>4, Zenon
  <2> QED
    BY <1>1, <2>2, <2>3
<1> HIDE DEF S
<1>4. 0 .. MAX_LEN \subseteq S
  BY <1>1, <1>2, <1>3, SegmentInduction, Zenon
<1> QED
  BY <1>1, <1>4 DEF S

\* What the bits from c on add is a multiple of the bit c.
LEMMA BitSumAbove ==
    ASSUME NEW A, NEW c \in 0 .. MAX_LEN, NEW k \in 0 .. MAX_LEN - c
    PROVE  /\ Bit[c + k] = Bit[c] * Bit[k]
           /\ \E h \in Nat : BitSum(A)[c + k] = BitSum(A)[c] + Bit[c] * h /\ h < Bit[k]
<1>1. MAX_LEN \in Nat /\ MAX_LEN - c \in Nat
  BY ChainAssumption
<1> DEFINE P(j) == /\ Bit[c + j] = Bit[c] * Bit[j]
                   /\ \E h \in Nat : BitSum(A)[c + j] = BitSum(A)[c] + Bit[c] * h /\ h < Bit[j]
           S == {j \in 0 .. MAX_LEN - c : P(j)}
<1>2. 0 \in S
  <2>1. c + 0 = c /\ Bit[0] = 1 /\ Bit[c] \in Nat /\ BitSum(A)[c] \in Nat
    BY <1>1, BitFacts, BitSumFacts
  <2>2. Bit[c + 0] = Bit[c] * Bit[0] /\ BitSum(A)[c + 0] = BitSum(A)[c] + Bit[c] * 0 /\ 0 < Bit[0]
    BY <2>1
  <2>3. P(0)
    BY <2>2, Zenon
  <2> QED
    BY <1>1, <2>3
<1>3. ASSUME NEW j \in 0 .. (MAX_LEN - c) - 1, j \in S PROVE j + 1 \in S
  <2>1. /\ j + 1 \in 1 .. MAX_LEN /\ c + j \in 0 .. MAX_LEN - 1
        /\ (c + j) + 1 = c + (j + 1) /\ j + 1 \in 0 .. MAX_LEN - c
    BY <1>1
  <2>2. Bit[j + 1] = 2 * Bit[j] /\ Bit[(c + j) + 1] = 2 * Bit[c + j]
    BY <1>1, <2>1, BitFacts
  <2>3. Bit[j] \in Nat /\ Bit[c] \in Nat /\ Bit[c + j] \in Nat /\ BitSum(A)[c] \in Nat
    BY <1>1, <2>1, BitFacts, BitSumFacts
  <2>4. Bit[c + j] = Bit[c] * Bit[j]
    BY <1>3, Zenon
  <2>5. Bit[c + (j + 1)] = Bit[c] * Bit[j + 1]
    BY <2>1, <2>2, <2>3, <2>4
  <2>6. PICK h \in Nat : BitSum(A)[c + j] = BitSum(A)[c] + Bit[c] * h /\ h < Bit[j]
    BY <1>3, Zenon
  <2>7. BitSum(A)[(c + j) + 1] = BitSum(A)[c + j] + (IF c + j \in A THEN Bit[c + j] ELSE 0)
    BY <1>1, <2>1, BitSumFacts
  <2>8. CASE c + j \in A
    <3>1. BitSum(A)[c + (j + 1)] = BitSum(A)[c] + (Bit[c] * h + Bit[c] * Bit[j])
      BY <2>1, <2>3, <2>4, <2>6, <2>7, <2>8
    <3>2. Bit[c] * h + Bit[c] * Bit[j] = Bit[c] * (h + Bit[j])
      BY <2>3
    <3>3. h + Bit[j] \in Nat /\ h + Bit[j] < Bit[j + 1]
      BY <2>2, <2>3, <2>6
    <3> QED
      BY <2>1, <2>5, <3>1, <3>2, <3>3, Zenon
  <2>9. CASE c + j \notin A
    <3>1. BitSum(A)[c + (j + 1)] = BitSum(A)[c] + Bit[c] * h /\ h < Bit[j + 1]
      BY <2>1, <2>2, <2>3, <2>6, <2>7, <2>9
    <3> QED
      BY <2>1, <2>5, <3>1, Zenon
  <2> QED
    BY <2>8, <2>9, Zenon
<1> HIDE DEF S
<1>4. 0 .. (MAX_LEN - c) \subseteq S
  BY <1>1, <1>2, <1>3, SegmentInduction, Zenon
<1> QED
  BY <1>4, Zenon DEF S

\* Quotient and remainder are determined.
LEMMA Division ==
    ASSUME NEW d \in Nat, NEW p \in Nat, NEW q \in Nat, NEW k \in Nat, NEW l \in Nat,
           k < d, l < d, d * p + k = d * q + l
    PROVE  p = q /\ k = l
<1>1. ASSUME NEW x \in Nat, NEW y \in Nat, x < y PROVE d * x + d <= d * y
  <2>1. PICK z \in Nat : y = x + 1 + z
    <3>1. y - x - 1 \in Nat /\ y = x + 1 + (y - x - 1)
      BY <1>1
    <3> QED
      BY <3>1, Zenon
  <2>2. d * y = d * x + d + d * z /\ d * z \in Nat
    BY <2>1
  <2> QED
    BY <2>2
<1>2. d * p \in Nat /\ d * q \in Nat
  OBVIOUS
<1>3. ~(p < q)
  BY <1>1, <1>2
<1>4. ~(q < p)
  BY <1>1, <1>2
<1> QED
  BY <1>3, <1>4

\* \div and % give them.
LEMMA DivMod ==
    ASSUME NEW d \in Nat, NEW q \in Nat, NEW l \in Nat, l < d
    PROVE  (d * q + l) \div d = q /\ (d * q + l) % d = l
<1>1. PICK u \in Nat : u = d * q + l
  OBVIOUS
<1>2. /\ u \div d \in Nat /\ u % d \in Nat /\ u % d < d
      /\ u = d * (u \div d) + (u % d)
  OBVIOUS
<1>3. u \div d = q /\ u % d = l
  BY <1>1, <1>2, Division
<1> QED
  BY <1>1, <1>3, Zenon

\* The index of a state, and the parts of the used set it is made of: the bits
\* below the subject's (l) and above it (h), without the leaf's.
LEMMA IndexParts ==
    ASSUME NEW c, NEW A, IsState(c, A), c # 0
    PROVE  \E l, h \in Nat :
              /\ l < Bit[c - 1]
              /\ Bits(A) = 1 + 2 * (l + Bit[c - 1] + Bit[c] * h)
              /\ StateIndex(c, A) = 1 + SUBJECT_STATE_COUNT * (c - 1) + (Bit[c - 1] * h + l)
              /\ Bit[c - 1] * h + l < SUBJECT_STATE_COUNT
<1>1. MAX_LEN \in Nat /\ c \in 1 .. MAX_LEN - 1 /\ c \in A /\ 0 \in A
  BY ChainAssumption DEF IsState, Certs
<1>2. PICK b \in Nat : b = Bit[c - 1] /\ b > 0 /\ Bit[c] = 2 * b /\ Bit[c + 1] = 4 * b
  <2>1. c - 1 \in 0 .. MAX_LEN /\ c \in 1 .. MAX_LEN /\ c + 1 \in 1 .. MAX_LEN
    BY <1>1
  <2>2. Bit[c - 1] \in Nat /\ Bit[c - 1] > 0 /\ Bit[c] = 2 * Bit[c - 1] /\ Bit[c + 1] = 2 * Bit[c]
    BY <2>1, BitFacts
  <2> QED
    BY <2>2
<1>3. PICK l \in Nat : BitSum(A)[c] = 1 + 2 * l
  BY <1>1, BitSumOdd
<1>4. l < b
  BY <1>1, <1>2, <1>3, BitSumBelow, SMTT(30)
<1>5. BitSum(A)[c + 1] = BitSum(A)[c] + Bit[c]
  BY <1>1, BitSumFacts
<1> DEFINE k == MAX_LEN - (c + 1)
<1>6. k \in Nat /\ c + 1 \in 0 .. MAX_LEN /\ k \in 0 .. MAX_LEN - (c + 1) /\ (c + 1) + k = MAX_LEN
      /\ c - 1 \in 0 .. MAX_LEN /\ k \in 0 .. MAX_LEN - (c - 1) /\ (c - 1) + k = MAX_LEN - 2
  BY <1>1
<1>7. PICK h \in Nat : BitSum(A)[MAX_LEN] = BitSum(A)[c + 1] + Bit[c + 1] * h /\ h < Bit[k]
  <2> HIDE DEF k
  <2> QED
    BY <1>6, BitSumAbove
<1>8. SUBJECT_STATE_COUNT = b * Bit[k]
  <2> HIDE DEF k
  <2> QED
    BY <1>2, <1>6, BitSumAbove, ZenonT(40) DEF SUBJECT_STATE_COUNT
<1>9. Bits(A) = 1 + 2 * (l + b + (2 * b) * h)
  <2>1. Bits(A) = 1 + 2 * l + 2 * b + (4 * b) * h
    BY <1>2, <1>3, <1>5, <1>7, BitSumFacts, Zenon
  <2>2. (4 * b) * h = 2 * ((2 * b) * h) /\ (2 * b) * h \in Nat
    OBVIOUS
  <2> QED
    BY <2>1, <2>2
<1> DEFINE u == Bits(A) \div 2
<1>10. u = l + b + (2 * b) * h /\ u \in Nat
  <2>1. PICK x \in Nat : x = (2 * b) * h
    OBVIOUS
  <2>2. Bits(A) = 1 + 2 * (l + b + x)
    BY <1>9, <2>1, Zenon
  <2> QED
    BY <2>1, <2>2
<1> HIDE DEF u
<1>11. u % b = l
  <2>1. u = b * (1 + 2 * h) + l /\ 1 + 2 * h \in Nat
    BY <1>10
  <2> QED
    BY <1>4, <2>1, DivMod, Zenon
<1>12. u \div (2 * b) = h
  <2>1. u = (2 * b) * h + (l + b) /\ l + b \in Nat /\ l + b < 2 * b /\ 2 * b \in Nat
    BY <1>4, <1>10
  <2> QED
    BY <2>1, DivMod, Zenon
<1>13. StateIndex(c, A) = 1 + (c - 1) * SUBJECT_STATE_COUNT + l + h * b
  <2>1. StateIndex(c, A) = 1 + (c - 1) * SUBJECT_STATE_COUNT + (u % Bit[c - 1])
                             + (u \div Bit[(c - 1) + 1]) * Bit[c - 1]
    BY Zenon DEF StateIndex, u
  <2>2. (c - 1) + 1 = c
    BY <1>1
  <2> QED
    BY <1>2, <1>11, <1>12, <2>1, <2>2, Zenon
<1>14. b * h + l < SUBJECT_STATE_COUNT /\ SUBJECT_STATE_COUNT \in Nat
  <2>1. PICK t \in Nat : Bit[k] = h + 1 + t
    <3>1. k \in 0 .. MAX_LEN
      BY <1>1
    <3>2. Bit[k] \in Nat
      BY <3>1, BitFacts, Zenon
    <3> HIDE DEF k
    <3>3. Bit[k] - h - 1 \in Nat /\ Bit[k] = h + 1 + (Bit[k] - h - 1)
      BY <1>7, <3>2
    <3> QED
      BY <3>3, Zenon
  <2>2. b * (h + 1 + t) = b * h + b + b * t /\ b * h \in Nat /\ b * t \in Nat
    OBVIOUS
  <2>3. SUBJECT_STATE_COUNT = b * h + b + b * t
    BY <1>8, <2>1, <2>2, Zenon
  <2> QED
    BY <1>4, <2>2, <2>3
<1>15. StateIndex(c, A) = 1 + SUBJECT_STATE_COUNT * (c - 1) + (b * h + l)
  <2>1. PICK n \in Nat : n = SUBJECT_STATE_COUNT
    BY <1>14, Zenon
  <2>2. c - 1 \in Nat
    BY <1>1
  <2>3. (c - 1) * n = n * (c - 1) /\ h * b = b * h /\ (c - 1) * n \in Nat /\ b * h \in Nat
    BY <2>2
  <2> QED
    BY <1>13, <2>1, <2>3
<1> QED
  BY <1>2, <1>4, <1>9, <1>14, <1>15, Zenon

\* No two states have the same index.
LEMMA IndexTellsApart ==
    ASSUME NEW c, NEW d, NEW A, NEW B, IsState(c, A), IsState(d, B),
           StateIndex(c, A) = StateIndex(d, B)
    PROVE  c = d /\ A = B
<1>0. MAX_LEN \in Nat /\ SUBJECT_STATE_COUNT \in Nat
  <2>1. MAX_LEN \in Nat /\ MAX_LEN - 2 \in 0 .. MAX_LEN
    BY ChainAssumption
  <2> QED
    BY <2>1, BitFacts, Zenon DEF SUBJECT_STATE_COUNT
<1>1. ASSUME NEW e, NEW E, IsState(e, E), e # 0 PROVE StateIndex(e, E) # 0
  <2>1. e - 1 \in Nat
    BY <1>0, <1>1 DEF IsState, Certs
  <2>2. PICK l, h \in Nat : 
              /\ l < Bit[e - 1]
              /\ StateIndex(e, E) = 1 + SUBJECT_STATE_COUNT * (e - 1) + (Bit[e - 1] * h + l)
    BY <1>1, IndexParts
  <2>3. e - 1 \in 0 .. MAX_LEN
    BY <1>0, <1>1 DEF IsState, Certs
  <2>4. Bit[e - 1] \in Nat
    BY <2>3, BitFacts, Zenon
  <2>5. Bit[e - 1] * h \in Nat /\ SUBJECT_STATE_COUNT * (e - 1) \in Nat
    BY <1>0, <2>1, <2>4
  <2> QED
    BY <2>2, <2>5
<1>2. c = 0 <=> d = 0
  <2>1. StateIndex(0, A) = 0 /\ StateIndex(0, B) = 0
    BY Zenon DEF StateIndex
  <2> QED
    BY <1>1, <2>1, Zenon
<1>3. CASE c = 0
  BY <1>2, <1>3, Zenon DEF IsState
<1>4. CASE c # 0
  <2>1. c - 1 \in 0 .. MAX_LEN /\ d - 1 \in 0 .. MAX_LEN /\ c \in Nat /\ d \in Nat
    BY <1>0, <1>2, <1>4 DEF IsState, Certs
  <2>2. PICK l, h \in Nat :
              /\ l < Bit[c - 1]
              /\ Bits(A) = 1 + 2 * (l + Bit[c - 1] + Bit[c] * h)
              /\ StateIndex(c, A) = 1 + SUBJECT_STATE_COUNT * (c - 1) + (Bit[c - 1] * h + l)
              /\ Bit[c - 1] * h + l < SUBJECT_STATE_COUNT
    BY <1>4, IndexParts, Zenon
  <2>3. PICK m, g \in Nat :
              /\ m < Bit[d - 1]
              /\ Bits(B) = 1 + 2 * (m + Bit[d - 1] + Bit[d] * g)
              /\ StateIndex(d, B) = 1 + SUBJECT_STATE_COUNT * (d - 1) + (Bit[d - 1] * g + m)
              /\ Bit[d - 1] * g + m < SUBJECT_STATE_COUNT
    BY <1>2, <1>4, IndexParts, Zenon
  <2>4. Bit[c - 1] \in Nat /\ Bit[d - 1] \in Nat
    BY <2>1, BitFacts, Zenon
  <2>5. PICK x, y \in Nat : x = Bit[c - 1] * h + l /\ y = Bit[d - 1] * g + m
    BY <2>4
  <2>6. SUBJECT_STATE_COUNT * (c - 1) + x = SUBJECT_STATE_COUNT * (d - 1) + y
    <3>1. PICK p, q \in Nat : p = SUBJECT_STATE_COUNT * (c - 1) /\ q = SUBJECT_STATE_COUNT * (d - 1)
      BY <1>0, <2>1
    <3>2. 1 + p + x = 1 + q + y
      BY <2>2, <2>3, <2>5, <3>1, ZenonT(40)
    <3>3. p + x = q + y
      BY <3>2
    <3> QED
      BY <3>1, <3>3, Zenon
  <2>7. c - 1 = d - 1 /\ x = y
    <3>1. c - 1 \in Nat /\ d - 1 \in Nat /\ x < SUBJECT_STATE_COUNT /\ y < SUBJECT_STATE_COUNT
      BY <2>1, <2>2, <2>3, <2>5
    <3> QED
      BY <1>0, <2>6, <3>1, Division, SMTT(30)
  <2>8. c = d
    BY <2>1, <2>7
  <2>9. h = g /\ l = m
    BY <2>2, <2>3, <2>4, <2>5, <2>7, <2>8, Division, SMTT(30)
  <2>10. Bits(A) = Bits(B)
    BY <2>2, <2>3, <2>8, <2>9, Zenon
  <2>11. MAX_LEN \in 0 .. MAX_LEN
    BY <1>0
  <2>12. \A i \in 0 .. MAX_LEN - 1 : i \in A <=> i \in B
    BY <2>10, <2>11, BitSumFacts, BitSumInjective, Zenon
  <2> QED
    BY <2>8, <2>12, ZenonT(40) DEF IsState, Certs
<1> QED
  BY <1>3, <1>4, Zenon

\* The index of a state is inside the table.
LEMMA IndexInTable ==
    ASSUME NEW c, NEW A, IsState(c, A)
    PROVE  StateIndex(c, A) \in 0 .. STATE_COUNT - 1
<1>1. MAX_LEN - 2 \in 0 .. MAX_LEN /\ MAX_LEN \in Nat
  BY ChainAssumption
<1>2. PICK n \in Nat : n = SUBJECT_STATE_COUNT
  BY <1>1, BitFacts, Zenon DEF SUBJECT_STATE_COUNT
<1>3. PICK m \in Nat : m = MAX_LEN - 1
  BY ChainAssumption
<1>4. STATE_COUNT = 1 + m * n /\ m * n \in Nat
  BY <1>2, <1>3 DEF STATE_COUNT
<1>5. CASE c = 0
  <2>1. StateIndex(c, A) = 0
    BY <1>5, Zenon DEF StateIndex
  <2> QED
    BY <1>4, <2>1
<1>6. CASE c # 0
  <2>1. c - 1 \in 0 .. MAX_LEN /\ c \in 1 .. MAX_LEN - 1
    BY <1>1, <1>6 DEF IsState, Certs
  <2>2. PICK l, h \in Nat :
           /\ StateIndex(c, A) = 1 + SUBJECT_STATE_COUNT * (c - 1) + (Bit[c - 1] * h + l)
           /\ Bit[c - 1] * h + l < SUBJECT_STATE_COUNT
    BY <1>6, IndexParts, Zenon
  <2>3. Bit[c - 1] \in Nat
    BY <2>1, BitFacts, Zenon
  <2>4. PICK r \in Nat : r = Bit[c - 1] * h + l /\ r < n
    BY <1>2, <2>2, <2>3
  <2>5. PICK s \in Nat : s = c - 1
    BY <2>1
  <2>6. PICK z \in Nat : m = s + 1 + z
    <3>1. m - s - 1 \in Nat /\ m = s + 1 + (m - s - 1)
      BY <1>1, <1>3, <2>1, <2>5
    <3> QED
      BY <3>1, Zenon
  <2>7. m * n = n * s + n + z * n /\ n * s \in Nat /\ z * n \in Nat
    BY <2>6
  <2>8. StateIndex(c, A) = 1 + n * s + r
    BY <1>2, <2>2, <2>4, <2>5, Zenon
  <2> QED
    BY <1>4, <2>4, <2>7, <2>8
<1> QED
  BY <1>5, <1>6, Zenon

\* Seen::admit tells all states of the search apart and its table has room for
\* each, for every length limit: "Returns true exactly once for every reachable
\* (subject, used-set)", and the lookup outside of the table never happens.
THEOREM IndexAlwaysExact == IndexIsExact
  BY IndexInTable, IndexTellsApart, Zenon DEF IndexIsExact

-----------------------------------------------------------------------------
(* The search is complete. *)

\* Distinct elements are as many as their positions.
LEMMA CountDistinct ==
    ASSUME NEW n \in Nat, NEW f, \A j, k \in 1 .. n : f[j] = f[k] => j = k
    PROVE  Cardinality({f[j] : j \in 1 .. n}) = n
<1> DEFINE U == {f[j] : j \in 1 .. n}
           g == [j \in 1 .. n |-> f[j]]
<1>1. g \in [1 .. n -> U] /\ \A t \in U : \E s \in 1 .. n : g[s] = t
  BY Zenon
<1>2. \A j, k \in 1 .. n : g[j] = g[k] => j = k
  BY Zenon
<1>3. g \in Bijection(1 .. n, U)
  BY <1>1, <1>2, Zenon DEF Bijection, Injection, Surjection, IsInjective
<1>4. ExistsBijection(1 .. n, U)
  BY <1>3, Zenon DEF ExistsBijection
<1> QED
  BY <1>4, FS_CountingElements, Zenon

\* A trusted path is a sequence of certificates with the properties of one.
LEMMA TrustedFacts ==
    ASSUME NEW p \in TrustedPaths
    PROVE  /\ IsTrusted(world, p) /\ Len(p) \in 1 .. MAX_LEN
           /\ \A k \in 1 .. Len(p) : p[k] \in Certs
<1>1. PICK len \in 1 .. MAX_LEN : p \in [1 .. len -> Certs]
  BY Zenon DEF TrustedPaths
<1>2. Len(p) = len
  BY <1>1, ChainAssumption
<1> QED
  BY <1>1, <1>2, Zenon DEF TrustedPaths

\* The path has as many certificates as frames.
LEMMA HeightCounts ==
    ASSUME NEW h \in Nat, \A i, j \in 1 .. h : Subject(i) = Subject(j) => i = j
    PROVE  Cardinality(Prefix(h)) = h
<1> DEFINE s == [j \in 1 .. h |-> Subject(j)]
<1>1. \A i, j \in 1 .. h : s[i] = s[j] => i = j
  BY Zenon
<1>2. {s[j] : j \in 1 .. h} = Prefix(h)
  BY Zenon DEF Prefix
<1> HIDE DEF s
<1>3. Cardinality({s[j] : j \in 1 .. h}) = h
  BY <1>1, CountDistinct
<1> QED
  BY <1>2, <1>3, Zenon

\* A state is dead when no anchor ends its path and every certificate that may
\* follow leads to a dead state.
LEMMA DeadTop ==
    ASSUME Types, FramesArePath, result = "Running", NEW h \in Nat \ {0}, h = Height,
           ~(Subject(h) \in world.anchored
                /\ world.anchorForbids[Subject(h)] \cap Prefix(h) = {}),
           \A d \in 1 .. world.n - 1 : MayFollow(h, d) => Dead(d, Prefix(h) \cup {d})
    PROVE  Dead(Subject(h), Prefix(h))
<1> SUFFICES ASSUME NEW p \in TrustedPaths, NEW k \in 1 .. Len(p), p[k] = Subject(h),
                    {p[j] : j \in 1 .. k} = Prefix(h)
             PROVE  FALSE
  BY Zenon DEF Dead
<1>1. /\ IsTrusted(world, p) /\ IsPath(world, p) /\ Len(p) \in Nat /\ k \in Nat
      /\ \A j \in 1 .. Len(p) : p[j] \in Certs
  BY TrustedFacts, ChainAssumption DEF IsTrusted
<1>2. k = h
  <2>1. \A i, j \in 1 .. k : p[i] = p[j] => i = j
    BY <1>1 DEF IsPath
  <2>2. Cardinality(Prefix(h)) = k
    BY <1>1, <2>1, CountDistinct
  <2>3. Cardinality(Prefix(h)) = h
    BY HeightCounts, Zenon DEF FramesArePath
  <2> QED
    BY <2>2, <2>3, Zenon
<1>3. CASE k = Len(p)
  <2>1. p[k] \in world.anchored /\ \A j \in 1 .. k : p[j] \notin world.anchorForbids[p[k]]
    BY <1>1, <1>3, Zenon DEF IsTrusted
  <2>2. world.anchorForbids[Subject(h)] \cap Prefix(h) = {}
    BY <2>1, Zenon
  <2> QED
    BY <2>1, <2>2, Zenon
<1>4. CASE k # Len(p)
  <2>1. k \in 1 .. Len(p) - 1 /\ k + 1 \in 1 .. Len(p)
    BY <1>1, <1>4, SMTT(30)
  <2> DEFINE d == p[k + 1]
  <2>2. /\ <<p[k], d>> \in world.named /\ <<p[k], d>> \in world.signed
        /\ d \in world.ca /\ k - 1 <= world.pathLimit[d]
        /\ \A j \in 1 .. k : p[j] \notin world.forbids[d]
        /\ d < world.n /\ d \in world.prepared
        /\ \A j \in 1 .. k : p[j] # d
        /\ p[1] = 0 /\ d \in Certs
    BY <1>1, <2>1, SMTT(30) DEF IsPath
  <2>3. d \in 1 .. world.n - 1
    <3>1. d # 0 /\ d \in Nat
      BY <1>1, <2>2, ChainAssumption DEF Certs
    <3>2. world.n \in Nat
      BY WorldFacts, Zenon DEF Types
    <3> QED
      BY <2>2, <3>1, <3>2, SMTT(30)
  <2>4. d \notin Prefix(h) /\ world.forbids[d] \cap Prefix(h) = {}
    BY <2>2, ZenonT(40)
  <2>5. MayFollow(h, d)
    BY <1>2, <2>2, <2>3, <2>4, Zenon DEF MayFollow
  <2>6. Dead(d, Prefix(h) \cup {d})
    BY <2>3, <2>5, Zenon
  <2>7. {p[j] : j \in 1 .. k + 1} = Prefix(h) \cup {d}
    <3>1. 1 .. k + 1 = (1 .. k) \cup {k + 1}
      BY <1>1
    <3> QED
      BY <3>1, Zenon
  <2> QED
    BY <2>1, <2>6, <2>7, Zenon DEF Dead
<1> QED
  BY <1>3, <1>4, Zenon

\* Whether a state is dead does not change in a search.
LEMMA DeadStays ==
    ASSUME world' = world
    PROVE  \A c, certs : Dead(c, certs)' <=> Dead(c, certs)
BY Zenon DEF Dead, TrustedPaths

Settled == SeenIsSettled /\ PassedIsSettled /\ EmptyIsDead

\* A dead state is dropped from the stack.
LEMMA SettledPop ==
    ASSUME Types, FramesArePath, Settled, result = "Running", frames # <<>>,
           world' = world, Popped, UNCHANGED <<seen, result>>,
           Dead(Subject(Height), Prefix(Height))
    PROVE  Settled'
<1>1. PICK h \in Nat \ {0} : h = Height
  BY TopFacts, Zenon DEF Types
<1>2. /\ Height' = h - 1 /\ h - 1 \in Nat
      /\ \A k \in 1 .. h - 1 : frames'[k] = frames[k]
  BY <1>1 DEF Popped, Height
<1>3. \A k \in 1 .. h - 1 :
          /\ Subject(k)' = Subject(k) /\ Prefix(k)' = Prefix(k)
          /\ \A d : MayFollow(k, d)' <=> MayFollow(k, d)
  BY <1>2, FramesBelow, Zenon
<1>4. \A c, certs : Dead(c, certs)' <=> Dead(c, certs)
  BY DeadStays, Zenon
<1>5. Dead(Subject(h), Prefix(h))
  BY <1>1, Zenon
<1>6. SeenIsSettled'
  <2> SUFFICES ASSUME NEW c \in Certs, NEW certs \in SUBSET Certs,
                      IsState(c, certs), StateIndex(c, certs) \in seen
               PROVE  Dead(c, certs)' \/ \E k \in 1 .. Height' : Stands(k, c, certs)'
    BY Zenon DEF SeenIsSettled
  <2>1. Dead(c, certs) \/ \E k \in 1 .. h : Stands(k, c, certs)
    BY <1>1, Zenon DEF Settled, SeenIsSettled
  <2>2. CASE Dead(c, certs)
    BY <1>4, <2>2, Zenon
  <2>3. ASSUME NEW k \in 1 .. h, Stands(k, c, certs)
        PROVE  Dead(c, certs)' \/ \E i \in 1 .. Height' : Stands(i, c, certs)'
    <3>1. CASE k = h
      BY <1>4, <1>5, <2>3, <3>1, Zenon DEF Stands
    <3>2. CASE k # h
      <4>1. k \in 1 .. h - 1
        BY <3>2
      <4>2. Stands(k, c, certs)'
        BY <1>2, <1>3, <2>3, <4>1, Zenon DEF Stands
      <4> QED
        BY <1>2, <4>1, <4>2, Zenon
    <3> QED
      BY <3>1, <3>2, Zenon
  <2> QED
    BY <2>1, <2>2, <2>3, Zenon
<1>7. PassedIsSettled'
  <2> SUFFICES ASSUME NEW k \in 1 .. h - 1, frames[k].nextIssuer > 0
               PROVE  /\ ~(Subject(k) \in world.anchored
                             /\ world.anchorForbids[Subject(k)] \cap Prefix(k) = {})
                      /\ \A d \in 1 .. frames[k].nextIssuer - 1 :
                            MayFollow(k, d) => \/ Dead(d, Prefix(k) \cup {d})
                                               \/ k < h - 1 /\ Subject(k + 1)' = d
    BY <1>2, <1>3, <1>4, Zenon DEF PassedIsSettled
  <2>1. /\ ~(Subject(k) \in world.anchored
              /\ world.anchorForbids[Subject(k)] \cap Prefix(k) = {})
        /\ \A d \in 1 .. frames[k].nextIssuer - 1 :
              MayFollow(k, d) => \/ Dead(d, Prefix(k) \cup {d})
                                 \/ k < h /\ Subject(k + 1) = d
    BY <1>1 DEF Settled, PassedIsSettled
  <2> SUFFICES ASSUME NEW d \in 1 .. frames[k].nextIssuer - 1, MayFollow(k, d),
                      Subject(k + 1) = d
               PROVE  \/ Dead(d, Prefix(k) \cup {d})
                      \/ k < h - 1 /\ Subject(k + 1)' = d
    BY <2>1, Zenon
  <2>2. CASE k + 1 = h
    <3>1. Prefix(h) = Prefix(k) \cup {d}
      BY <2>2, PrefixGrows
    <3> QED
      BY <1>5, <2>2, <3>1, Zenon
  <2>3. CASE k + 1 # h
    <3>1. k + 1 \in 1 .. h - 1 /\ k < h - 1
      BY <2>3
    <3> QED
      BY <1>3, <3>1, Zenon
  <2> QED
    BY <2>2, <2>3, Zenon
<1>8. EmptyIsDead'
  <2> SUFFICES ASSUME h = 1 PROVE Dead(0, {0})'
    BY <1>2 DEF EmptyIsDead
  <2>1. Subject(1) = 0
    BY <1>1 DEF FramesArePath
  <2>2. Prefix(1) = {0}
    BY <2>1 DEF Prefix
  <2> QED
    BY <1>4, <1>5, <2>1, <2>2, Zenon
<1> QED
  BY <1>6, <1>7, <1>8, Zenon DEF Settled

\* The top frame moves on to candidate m, everything before m being settled.
LEMMA SettledKept ==
    ASSUME Types, Settled, result = "Running", NEW h \in Nat \ {0}, h = Height,
           world' = world, UNCHANGED result, NEW m \in Nat \ {0}, Kept(m),
           \A c \in Certs, certs \in SUBSET Certs :
               IsState(c, certs) /\ StateIndex(c, certs) \in seen' =>
                   \/ StateIndex(c, certs) \in seen
                   \/ c = Subject(h) /\ certs = Prefix(h),
           ~(Subject(h) \in world.anchored
                /\ world.anchorForbids[Subject(h)] \cap Prefix(h) = {}),
           \A d \in 1 .. m - 1 : MayFollow(h, d) => Dead(d, Prefix(h) \cup {d})
    PROVE  Settled'
<1>1. /\ Height' = h /\ frames'[h].nextIssuer = m
      /\ \A k \in 1 .. h - 1 : frames'[k] = frames[k]
      /\ frames'[h].subject = frames[h].subject
  <2>1. frames'[h] = [subject |-> Top.subject, nextIssuer |-> m] /\ Top = frames[h]
    BY Zenon DEF Kept, Top, Height
  <2> QED
    BY <2>1 DEF Kept, Height
<1>2. \A k \in 1 .. h :
          /\ Subject(k)' = Subject(k) /\ Prefix(k)' = Prefix(k)
          /\ \A d : MayFollow(k, d)' <=> MayFollow(k, d)
  <2>1. \A k \in 1 .. h : frames'[k].subject = frames[k].subject
    BY <1>1
  <2> QED
    BY <2>1, FramesBelow, Zenon
<1>3. \A c, certs : Dead(c, certs)' <=> Dead(c, certs)
  BY DeadStays, Zenon
<1>4. \A k \in 1 .. h : \A c, certs : Stands(k, c, certs) => Stands(k, c, certs)'
  <2> SUFFICES ASSUME NEW k \in 1 .. h, NEW c, NEW certs, Stands(k, c, certs)
               PROVE  frames'[k].nextIssuer > 0
    BY <1>2, Zenon DEF Stands
  <2>1. CASE k = h
    BY <1>1, <2>1, SMTT(30)
  <2>2. CASE k # h
    BY <1>1, <2>2 DEF Stands
  <2> QED
    BY <2>1, <2>2, Zenon
<1>5. SeenIsSettled'
  <2> SUFFICES ASSUME NEW c \in Certs, NEW certs \in SUBSET Certs,
                      IsState(c, certs), StateIndex(c, certs) \in seen'
               PROVE  Dead(c, certs)' \/ \E k \in 1 .. h : Stands(k, c, certs)'
    BY <1>1, Zenon DEF SeenIsSettled
  <2>1. CASE StateIndex(c, certs) \in seen
    <3>1. Dead(c, certs) \/ \E k \in 1 .. h : Stands(k, c, certs)
      BY <2>1, Zenon DEF Settled, SeenIsSettled
    <3> QED
      BY <1>3, <1>4, <3>1, Zenon
  <2>2. CASE c = Subject(h) /\ certs = Prefix(h)
    <3>1. Stands(h, c, certs)'
      BY <1>1, <1>2, <2>2 DEF Stands
    <3> QED
      BY <3>1, SMTT(30)
  <2> QED
    BY <2>1, <2>2, Zenon
<1>6. PassedIsSettled'
  <2> SUFFICES ASSUME NEW k \in 1 .. h, frames'[k].nextIssuer > 0
               PROVE  /\ ~(Subject(k) \in world.anchored
                             /\ world.anchorForbids[Subject(k)] \cap Prefix(k) = {})
                      /\ \A d \in 1 .. frames'[k].nextIssuer - 1 :
                            MayFollow(k, d) => \/ Dead(d, Prefix(k) \cup {d})
                                               \/ k < h /\ Subject(k + 1)' = d
    BY <1>1, <1>2, <1>3, ZenonT(40) DEF PassedIsSettled
  <2>1. CASE k = h
    BY <1>1, <2>1, Zenon
  <2>2. CASE k # h
    <3>1. k \in 1 .. h - 1 /\ k + 1 \in 1 .. h /\ frames'[k] = frames[k]
      BY <1>1, <2>2
    <3> QED
      BY <1>2, <3>1, Zenon DEF Settled, PassedIsSettled
  <2> QED
    BY <2>1, <2>2, Zenon
<1>7. EmptyIsDead'
  BY <1>1, Zenon DEF EmptyIsDead
<1> QED
  BY <1>5, <1>6, <1>7, ZenonT(40) DEF Settled

\* A candidate that may follow is pushed on a settled stack.
LEMMA SettledPush ==
    ASSUME Types, Settled, result = "Running", NEW h \in Nat \ {0}, h = Height,
           world' = world, NEW c \in Nat \ {0}, Push(c)
    PROVE  Settled'
<1>1. /\ Height' = h + 1 /\ frames'[h].nextIssuer = c + 1 /\ frames[h].nextIssuer = c
      /\ \A k \in 1 .. h - 1 : frames'[k] = frames[k]
      /\ frames'[h].subject = frames[h].subject
      /\ frames'[h + 1].subject = c /\ frames'[h + 1].nextIssuer = 0
      /\ UNCHANGED <<seen, result>>
  <2>1. /\ frames'[h] = [subject |-> Top.subject, nextIssuer |-> c + 1] /\ Top = frames[h]
        /\ frames'[h + 1] = [subject |-> c, nextIssuer |-> 0]
    BY Zenon DEF Push, Pushed, Top, Height, Frame
  <2> QED
    BY <2>1 DEF Push, Pushed, Height
<1>2. \A k \in 1 .. h :
          /\ Subject(k)' = Subject(k) /\ Prefix(k)' = Prefix(k)
          /\ \A d : MayFollow(k, d)' <=> MayFollow(k, d)
  <2>1. \A k \in 1 .. h : frames'[k].subject = frames[k].subject
    BY <1>1
  <2> QED
    BY <2>1, FramesBelow, Zenon
<1>3. \A d, certs : Dead(d, certs)' <=> Dead(d, certs)
  BY DeadStays, Zenon
<1>4. \A k \in 1 .. h : \A d, certs : Stands(k, d, certs) => Stands(k, d, certs)'
  <2> SUFFICES ASSUME NEW k \in 1 .. h, NEW d, NEW certs, Stands(k, d, certs)
               PROVE  frames'[k].nextIssuer > 0
    BY <1>2, Zenon DEF Stands
  <2>1. CASE k = h
    BY <1>1, <2>1
  <2>2. CASE k # h
    BY <1>1, <2>2 DEF Stands
  <2> QED
    BY <2>1, <2>2, Zenon
<1>5. SeenIsSettled'
  <2> SUFFICES ASSUME NEW d \in Certs, NEW certs \in SUBSET Certs,
                      IsState(d, certs), StateIndex(d, certs) \in seen
               PROVE  Dead(d, certs)' \/ \E k \in 1 .. h : Stands(k, d, certs)'
    BY <1>1 DEF SeenIsSettled
  <2>1. Dead(d, certs) \/ \E k \in 1 .. h : Stands(k, d, certs)
    BY Zenon DEF Settled, SeenIsSettled
  <2> QED
    BY <1>3, <1>4, <2>1, Zenon
<1>6. PassedIsSettled'
  <2> SUFFICES ASSUME NEW k \in 1 .. h, frames'[k].nextIssuer > 0
               PROVE  /\ ~(Subject(k) \in world.anchored
                             /\ world.anchorForbids[Subject(k)] \cap Prefix(k) = {})
                      /\ \A d \in 1 .. frames'[k].nextIssuer - 1 :
                            MayFollow(k, d) => \/ Dead(d, Prefix(k) \cup {d})
                                               \/ k < h + 1 /\ Subject(k + 1)' = d
    BY <1>1, <1>2, <1>3, SMTT(30) DEF PassedIsSettled
  <2>1. CASE k = h
    <3>1. /\ ~(Subject(h) \in world.anchored
                 /\ world.anchorForbids[Subject(h)] \cap Prefix(h) = {})
          /\ \A d \in 1 .. c - 1 : MayFollow(h, d) => Dead(d, Prefix(h) \cup {d})
      BY <1>1 DEF Settled, PassedIsSettled
    <3>2. Subject(h + 1)' = c
      BY <1>1 DEF Subject
    <3>3. \A d \in 1 .. c : d = c \/ d \in 1 .. c - 1
      OBVIOUS
    <3> QED
      BY <1>1, <2>1, <3>1, <3>2, <3>3, SMTT(30)
  <2>2. CASE k # h
    <3>1. k \in 1 .. h - 1 /\ k + 1 \in 1 .. h /\ frames'[k] = frames[k]
      BY <1>1, <2>2
    <3> QED
      BY <1>2, <3>1 DEF Settled, PassedIsSettled
  <2> QED
    BY <2>1, <2>2, Zenon
<1>7. EmptyIsDead'
  BY <1>1 DEF EmptyIsDead
<1> QED
  BY <1>5, <1>6, <1>7, Zenon DEF Settled

\* The top of the stack is a state.
LEMMA TopIsState ==
    ASSUME Types, FramesArePath, result = "Running", NEW h \in Nat \ {0}, h = Height
    PROVE  /\ IsState(Subject(h), Prefix(h))
           /\ Subject(h) \in Certs /\ Prefix(h) \in SUBSET Certs
<1>1. /\ used = Prefix(h) /\ used \subseteq Certs /\ Subject(1) = 0
      /\ \A j, k \in 1 .. h : Subject(j) = Subject(k) => j = k
  BY DEF Types, FramesArePath
<1>2. 0 \in Prefix(h) /\ Subject(h) \in Prefix(h)
  BY <1>1 DEF Prefix
<1>3. Subject(h) = 0 => Prefix(h) = {0}
  <2> SUFFICES ASSUME Subject(h) = 0 PROVE Prefix(h) = {0}
    OBVIOUS
  <2>1. h = 1
    BY <1>1
  <2> QED
    BY <1>1, <2>1 DEF Prefix
<1> QED
  BY <1>1, <1>2, <1>3 DEF IsState

\* A turn of the loop leaves the stack and the seen states settled.
LEMMA SettledStep ==
    ASSUME Types, FramesArePath, CacheIsTrue, Settled, Run, frames # <<>>
    PROVE  Settled'
<1>1. /\ Outcome /\ world' = world /\ result = "Running"
      /\ frames \in Seq(FrameType)
  BY RunCases DEF Types
<1>2. PICK h \in Nat \ {0} : h = Height
  BY <1>1, TopFacts, SMTT(30)
<1>3. /\ used = Prefix(h) /\ OnPath = Prefix(h) /\ Top.subject = Subject(h)
      /\ Top = frames[h] /\ Top.nextIssuer \in Nat /\ Subject(h) \in Certs
      /\ \A j, k \in 1 .. h : Subject(j) = Subject(k) => j = k
  BY <1>1, <1>2, TopFacts DEF FramesArePath, OnPath, Prefix, Subject, Height
<1>4. /\ IsState(Subject(h), Prefix(h))
      /\ Subject(h) \in Certs /\ Prefix(h) \in SUBSET Certs
  BY <1>1, <1>2, TopIsState
<1>5. AnchorAccepts <=> /\ Subject(h) \in world.anchored
                        /\ world.anchorForbids[Subject(h)] \cap Prefix(h) = {}
  BY <1>3 DEF AnchorAccepts
<1>6. CASE DropSeen
  <2>1. Dead(Subject(h), Prefix(h)) \/ \E k \in 1 .. h : Stands(k, Subject(h), Prefix(h))
    BY <1>1, <1>2, <1>3, <1>4, <1>6, SMTT(30) DEF DropSeen, Fresh, Settled, SeenIsSettled
  <2>2. ASSUME NEW k \in 1 .. h, Stands(k, Subject(h), Prefix(h)) PROVE FALSE
    <3>1. k = h
      BY <1>3, <2>2 DEF Stands
    <3> QED
      BY <1>3, <1>6, <2>2, <3>1, SMTT(30) DEF Stands, DropSeen
  <2> QED
    BY <1>1, <1>2, <1>6, <2>1, <2>2, SettledPop, SMTT(30) DEF DropSeen
<1>7. CASE DropExhausted
  <2>1. frames[h].nextIssuer > 0 /\ frames[h].nextIssuer >= world.n /\ world.n \in Nat
    BY <1>3, <1>7, WorldFacts, SMTT(30) DEF DropExhausted, Types
  <2>2. /\ ~(Subject(h) \in world.anchored
               /\ world.anchorForbids[Subject(h)] \cap Prefix(h) = {})
        /\ \A d \in 1 .. frames[h].nextIssuer - 1 :
              MayFollow(h, d) => Dead(d, Prefix(h) \cup {d})
    BY <1>1, <1>2, <2>1, SMTT(30) DEF Settled, PassedIsSettled
  <2>3. \A d \in 1 .. world.n - 1 : d \in 1 .. frames[h].nextIssuer - 1
    BY <1>3, <2>1, SMTT(30)
  <2>4. Dead(Subject(h), Prefix(h))
    BY <1>1, <1>2, <2>2, <2>3, DeadTop, SMTT(30)
  <2> QED
    BY <1>1, <1>2, <1>7, <2>4, SettledPop, SMTT(30) DEF DropExhausted
<1>8. CASE Accept
  BY <1>8, SMTT(30) DEF Accept, Settled, SeenIsSettled, PassedIsSettled, EmptyIsDead
<1>9. CASE Open
  <2>1. \A c \in Certs, certs \in SUBSET Certs :
            IsState(c, certs) /\ StateIndex(c, certs) \in seen' =>
                \/ StateIndex(c, certs) \in seen
                \/ c = Subject(h) /\ certs = Prefix(h)
    BY <1>3, <1>4, <1>9, IndexTellsApart DEF Open
  <2>2. PICK m \in Nat \ {0} : m = 1
    OBVIOUS
  <2>3. \A d \in 1 .. m - 1 : FALSE
    BY <2>2
  <2>4. Kept(m) /\ result' = result /\ ~AnchorAccepts
    BY <1>9, <2>2, SMTT(30) DEF Open
  <2> QED
    BY <1>1, <1>2, <1>5, <2>1, <2>3, <2>4, SettledKept, SMTT(30)
<1>10. ASSUME NEW c \in Nat, Skip(c) PROVE Settled'
  <2>1. /\ c > 0 /\ c = frames[h].nextIssuer /\ ~MayFollow(h, c) /\ Kept(c + 1)
        /\ UNCHANGED <<seen, result>>
    BY <1>2, <1>3, <1>10, SMTT(30) DEF Skip
  <2>2. /\ ~(Subject(h) \in world.anchored
               /\ world.anchorForbids[Subject(h)] \cap Prefix(h) = {})
        /\ \A d \in 1 .. c - 1 : MayFollow(h, d) => Dead(d, Prefix(h) \cup {d})
    BY <1>1, <1>2, <2>1, SMTT(30) DEF Settled, PassedIsSettled
  <2>3. PICK m \in Nat \ {0} : m = c + 1
    OBVIOUS
  <2>4. \A d \in 1 .. m - 1 : MayFollow(h, d) => Dead(d, Prefix(h) \cup {d})
    <3>1. \A d \in 1 .. m - 1 : d = c \/ d \in 1 .. c - 1
      BY <2>3
    <3> QED
      BY <2>1, <2>2, <3>1
  <2>5. Kept(m)
    BY <2>1, <2>3
  <2> QED
    BY <1>1, <1>2, <2>1, <2>2, <2>4, <2>5, SettledKept, SMTT(30)
<1>11. ASSUME NEW c \in Nat, Push(c) PROVE Settled'
  <2>1. c \in Nat \ {0}
    BY <1>11, WorldFacts DEF Push, MayFollow, Types
  <2> QED
    BY <1>1, <1>2, <1>11, <2>1, SettledPush, SMTT(30)
<1> QED
  BY <1>1, <1>6, <1>7, <1>8, <1>9, <1>10, <1>11, SMTT(30) DEF Outcome

\* The search refuses only chains that have no trusted path: neither the memoized
\* states nor the cached signatures nor the order of the candidates (Search::run,
\* next_issuer) hides one.
THEOREM RefusesOnlyUntrustedChains == Spec => []RefusesOnlyUntrusted
<1> DEFINE NothingSeen == result = "None" => seen = {}
           Inv == NothingSeen /\ Settled /\ RefusesOnlyUntrusted
<1>1. Init => Inv
  BY DEF Init, SearchInit, Settled, SeenIsSettled, PassedIsSettled, EmptyIsDead,
      RefusesOnlyUntrusted
<1>2. SoundInv /\ Inv /\ [Next]_vars => Inv'
  <2> SUFFICES ASSUME SoundInv, Inv, [Next]_vars PROVE Inv'
    OBVIOUS
  <2>1. world \in World /\ world.n \in Nat /\ MAX_LEN \in Nat
    BY WorldFacts DEF SoundInv, Types
  <2>2. CASE Begin /\ Searchable
    <3>1. result' = "Running" /\ frames' = <<Frame(0)>> /\ seen' = {}
      BY <2>2 DEF Begin
    <3>2. Height' = 1 /\ frames'[1].nextIssuer = 0
      BY <3>1 DEF Height, Frame
    <3>3. SeenIsSettled' /\ EmptyIsDead'
      BY <3>1, <3>2 DEF SeenIsSettled, EmptyIsDead
    <3>4. PassedIsSettled'
      <4>1. \A k \in 1 .. Height' : ~(frames'[k].nextIssuer > 0)
        BY <3>2
      <4> QED
        BY <4>1 DEF PassedIsSettled
    <3> QED
      BY <3>1, <3>3, <3>4 DEF Settled, RefusesOnlyUntrusted
  <2>3. CASE Begin /\ ~Searchable
    <3>1. result' = "Err" /\ world' = world
      BY <2>3, SMTT(30) DEF Begin
    <3>2. Settled'
      BY <3>1 DEF Settled, SeenIsSettled, PassedIsSettled, EmptyIsDead
    <3>3. ASSUME NEW len \in 1 .. MAX_LEN, NEW p \in [1 .. len -> Certs], IsTrusted(world, p)
          PROVE  FALSE
      <4>1. IsPath(world, p) /\ Len(p) = len
        BY <2>1, <3>3, SMTT(30) DEF IsTrusted
      <4>2. 0 < world.n /\ 0 \in world.prepared
        BY <4>1 DEF IsPath
      <4> QED
        BY <2>1, <2>3, <4>1, <4>2, SMTT(30) DEF IsPath, Searchable
    <3> QED
      BY <3>1, <3>2, <3>3 DEF RefusesOnlyUntrusted
  <2>4. CASE Run /\ frames # <<>>
    <3>1. Settled'
      BY <2>4, SettledStep, SMTT(30) DEF SoundInv
    <3>2. result' \in {"Running", "Ok"}
      BY <2>4, RunCases DEF SoundInv, Outcome, DropSeen, Accept, Open, DropExhausted, Skip, Push
    <3> QED
      BY <3>1, <3>2 DEF RefusesOnlyUntrusted
  <2>5. CASE Run /\ frames = <<>>
    <3>1. result' = "Err" /\ world' = world /\ result = "Running"
      BY <2>5, SMTT(30) DEF Run, GiveUp
    <3>2. Settled'
      BY <3>1 DEF Settled, SeenIsSettled, PassedIsSettled, EmptyIsDead
    <3>3. Dead(0, {0})
      BY <2>5, <3>1 DEF Settled, EmptyIsDead, Height
    <3>4. ASSUME NEW len \in 1 .. MAX_LEN, NEW p \in [1 .. len -> Certs], IsTrusted(world, p)
          PROVE  FALSE
      <4>1. p \in TrustedPaths
        BY <3>4, SMTT(30) DEF TrustedPaths
      <4>2. p[1] = 0 /\ Len(p) = len
        BY <2>1, <3>4 DEF IsTrusted, IsPath
      <4>3. 1 \in 1 .. Len(p) /\ {p[j] : j \in 1 .. 1} = {0}
        BY <2>1, <4>2
      <4> QED
        BY <3>3, <4>1, <4>2, <4>3, SMTT(30) DEF Dead
    <3> QED
      BY <3>1, <3>2, <3>4 DEF RefusesOnlyUntrusted
  <2>6. CASE UNCHANGED vars
    <3>1. UNCHANGED <<world, frames, seen, result>>
      BY <2>6 DEF vars
    <3>2. \A c, certs : Dead(c, certs)' <=> Dead(c, certs)
      BY <3>1, DeadStays
    <3>3. Height' = Height /\ \A k : Subject(k)' = Subject(k) /\ Prefix(k)' = Prefix(k)
      BY <3>1, Zenon DEF Height, Subject, Prefix
    <3>4. /\ \A k, d : MayFollow(k, d)' <=> MayFollow(k, d)
          /\ \A k, c, certs : Stands(k, c, certs)' <=> Stands(k, c, certs)
      BY <3>1, <3>3, Zenon DEF MayFollow, Stands
    <3>5. SeenIsSettled'
      BY <3>1, <3>2, <3>3, <3>4, SMTT(30) DEF Settled, SeenIsSettled
    <3>6. PassedIsSettled'
      BY <3>1, <3>2, <3>3, <3>4, SMTT(30) DEF Settled, PassedIsSettled
    <3>7. EmptyIsDead' /\ RefusesOnlyUntrusted'
      BY <3>1, <3>2, <3>3 DEF Settled, EmptyIsDead, RefusesOnlyUntrusted
    <3> QED
      BY <3>1, <3>5, <3>6, <3>7, SMTT(30) DEF Settled
  <2> QED
    BY <2>2, <2>3, <2>4, <2>5, <2>6, SMTT(30) DEF Next
<1> QED
  BY <1>1, <1>2, SoundHolds, PTL DEF Spec

============================================================================

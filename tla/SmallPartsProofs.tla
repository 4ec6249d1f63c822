--------------------------- MODULE SmallPartsProofs ---------------------------
(***************************************************************************)
(* Proofs about five modules with little state: ErrorBody, for every limit *)
(* and every way to cut a body; DashboardPage, for any number of texts;    *)
(* GitHubIdentity, for any number of addresses; Addresses, for any names   *)
(* and any number of slashes; ConnectionPool, for a pool of every size and *)
(* any number of requests.                                                 *)
(***************************************************************************)
EXTENDS ErrorBody, DashboardPage, GitHubIdentity, Addresses, ConnectionPool,
        FiniteSetTheorems, SequenceTheorems, TLAPS

-----------------------------------------------------------------------------
(* ErrorBody *)

USE MaxAssumption, MaxBodyAssumption, UnknownAssumption

\* While the body is read the mark is exact; the check at the end may only add
\* a mark to a buffer that is full.
MarkOK ==
  /\ phase = "reading" => (truncated <=> arrived > MaxKept)
  /\ MarkTellsOfLoss

\* HTTP delivers no more than it has announced.
DeliveryOK == contentLength # Unknown => arrived <= contentLength

BodyInv == TypeOK /\ DeliveryOK /\ KeepsTheBeginning /\ MarkOK

LEMMA BodyInitially == Init => BodyInv
<1>. SUFFICES ASSUME Init PROVE BodyInv
  OBVIOUS
<1>1. ~(arrived > MaxKept) /\ phase = "reading" /\ ~truncated
  BY DEF Init
<1>2. TypeOK
  <2>1. truncated \in BOOLEAN
    BY DEF Init
  <2>. QED
    BY <2>1 DEF Init, TypeOK
<1>3. DeliveryOK /\ KeepsTheBeginning
  BY DEF Init, DeliveryOK, KeepsTheBeginning, AtMost
<1>4. MarkOK
  BY <1>1 DEF MarkOK, MarkTellsOfLoss
<1>. QED
  BY <1>2, <1>3, <1>4 DEF BodyInv

LEMMA BodyInductive == BodyInv /\ [Next]_vars => BodyInv'
<1>. SUFFICES ASSUME BodyInv, [Next]_vars PROVE BodyInv'
  OBVIOUS
<1>0. /\ TypeOK /\ DeliveryOK /\ KeepsTheBeginning /\ MarkOK
      /\ truncated \in BOOLEAN
  BY DEF BodyInv, TypeOK
<1>1. ASSUME NEW n \in 0..Rest, Chunk(n) PROVE BodyInv'
  <2>1. n \in Nat /\ arrived + n <= MaxBody /\ DeliveryOK'
    BY <1>0, <1>1 DEF Chunk, TypeOK, DeliveryOK, Rest
  <2>2. AtMost(n, MaxKept - kept) \in 0..(MaxKept - kept)
    BY <1>0, <2>1 DEF TypeOK, AtMost
  <2>3. (arrived > MaxKept \/ AtMost(n, MaxKept - kept) < n) <=> arrived' > MaxKept
    BY <1>0, <1>1, <2>1 DEF Chunk, TypeOK, KeepsTheBeginning, AtMost
  <2>4. phase = "reading" /\ phase' = "reading"
    BY <1>1 DEF Chunk
  <2>5. truncated' <=> arrived' > MaxKept
    BY <1>0, <1>1, <2>3, <2>4, Zenon DEF Chunk, MarkOK
  <2>6. truncated' \in BOOLEAN
    BY <1>1, Zenon DEF Chunk
  <2>7. TypeOK'
    BY <1>0, <1>1, <2>1, <2>2, <2>6 DEF Chunk, TypeOK
  <2>8. KeepsTheBeginning'
    BY <1>0, <1>1, <2>1 DEF Chunk, TypeOK, KeepsTheBeginning, AtMost
  <2>9. MarkOK'
    BY <2>4, <2>5 DEF MarkOK, MarkTellsOfLoss
  <2>. QED
    BY <2>1, <2>7, <2>8, <2>9 DEF BodyInv
<1>2. CASE EndOfBody
  <2>1. truncated' \in BOOLEAN
    BY <1>2, Zenon DEF EndOfBody
  <2>2. TypeOK' /\ DeliveryOK' /\ KeepsTheBeginning'
    BY <1>0, <1>2, <2>1 DEF EndOfBody, TypeOK, DeliveryOK, KeepsTheBeginning
  <2>3. truncated <=> arrived > MaxKept
    BY <1>0, <1>2 DEF EndOfBody, MarkOK
  <2>4. truncated' <=> \/ arrived > MaxKept
                       \/ kept = MaxKept /\ (contentLength = Unknown \/ contentLength > MaxKept)
    BY <1>0, <1>2, <2>3, Zenon DEF EndOfBody
  <2>5. arrived > kept => arrived > MaxKept
    BY <1>0 DEF TypeOK, KeepsTheBeginning, AtMost
  <2>6. kept = MaxKept /\ (contentLength = Unknown \/ contentLength > MaxKept)
          => arrived > MaxKept \/ (arrived = MaxKept /\ contentLength = Unknown)
    BY <1>0, <1>2 DEF EndOfBody, TypeOK, KeepsTheBeginning, AtMost
  <2>7. UNCHANGED <<arrived, kept, contentLength>> /\ phase' = "done"
    BY <1>2 DEF EndOfBody
  <2>8. MarkOK'
    BY <2>4, <2>5, <2>6, <2>7 DEF MarkOK, MarkTellsOfLoss
  <2>. QED
    BY <2>2, <2>8 DEF BodyInv
<1>3. CASE ReadFails
  BY <1>0, <1>3 DEF ReadFails, BodyInv, TypeOK, DeliveryOK, KeepsTheBeginning,
                    MarkOK, MarkTellsOfLoss
<1>4. CASE UNCHANGED vars
  BY <1>0, <1>4 DEF vars, BodyInv, TypeOK, DeliveryOK, KeepsTheBeginning,
                    MarkOK, MarkTellsOfLoss
<1>. QED
  BY <1>1, <1>2, <1>3, <1>4 DEF Next, Returned

LEMMA BodyInvariance == Spec => []BodyInv
  BY BodyInitially, BodyInductive, PTL DEF Spec

\* The message never keeps more than MaxKept bytes of the body.
THEOREM BodyTypeCorrect == Spec => []TypeOK
<1>1. BodyInv => TypeOK
  BY DEF BodyInv
<1>. QED
  BY <1>1, BodyInvariance, PTL

\* It keeps the beginning of the body, without a gap.
THEOREM BeginningIsKept == Spec => []KeepsTheBeginning
<1>1. BodyInv => KeepsTheBeginning
  BY DEF BodyInv
<1>. QED
  BY <1>1, BodyInvariance, PTL

\* Nothing is cut off without a mark, and a mark on a whole body needs a body of
\* exactly MaxKept bytes of unknown length.
THEOREM MarksTellOfLoss == Spec => []MarkTellsOfLoss
<1>1. BodyInv => MarkTellsOfLoss
  BY DEF BodyInv, MarkOK
<1>. QED
  BY <1>1, BodyInvariance, PTL

-----------------------------------------------------------------------------
(* DashboardPage *)

\* A timer that can still fire is the last one set, for the text that is on the
\* line: every call of show clears the one before.
TimerOK ==
  /\ pending \subseteq {hideTimer}
  /\ pending # {} => last.state = "success"

FadeInv == TimerOK /\ OnlySuccessFades

LEMMA ShowStep ==
  ASSUME FadeInv, NEW state, NEW about, Show(state, about)
  PROVE  FadeInv'
<1>1. line' = last' /\ last'.state = state
  BY DEF Show
<1>2. TimerOK'
  BY <1>1 DEF FadeInv, TimerOK, Show
<1>. QED
  BY <1>1, <1>2 DEF FadeInv, OnlySuccessFades

LEMMA FadeStep ==
  ASSUME FadeInv, [PageNext]_pageVars
  PROVE  FadeInv'
<1>1. ASSUME NEW t \in pending, TimerFires(t) PROVE FadeInv'
  BY <1>1 DEF TimerFires, FadeInv, TimerOK, OnlySuccessFades
<1>2. ASSUME UNCHANGED statusLine PROVE FadeInv'
  BY <1>2 DEF statusLine, FadeInv, TimerOK, OnlySuccessFades
<1>. QED
  BY <1>1, <1>2, ShowStep
     DEF PageNext, Click, Copied, UsageOpens, UsageFails, LogOut, AllSaid, pageVars

\* No timer of an old success takes a newer text from the visitor.
THEOREM TextsStay == PageSpec => []OnlySuccessFades
<1>1. PageInit => FadeInv
  BY DEF PageInit, FadeInv, TimerOK, OnlySuccessFades
<1>2. FadeInv => OnlySuccessFades
  BY DEF FadeInv
<1>. QED
  BY <1>1, <1>2, FadeStep, PTL DEF PageSpec

-----------------------------------------------------------------------------
(* GitHubIdentity *)

LEMMA MinIsLeast ==
  ASSUME NEW S, S \subseteq Nat, S # {}
  PROVE  Min(S) \in S /\ \A y \in S : Min(S) <= y
<1>. DEFINE R == {ss \in Nat \X Nat : ss[1] < ss[2]}
<1>1. IsWellFoundedOn(R, Nat)
  BY NatLessThanWellFounded, Zenon DEF OpToRel
<1>. HIDE DEF R
<1>2. PICK x \in S : \A y \in S : <<y, x>> \notin R
  BY <1>1, WFMin
<1>3. \A y, z \in Nat : <<y, z>> \notin R => z <= y
  BY DEF R
<1>4. \A y \in S : x <= y
  BY <1>2, <1>3
<1>. QED
  BY <1>4 DEF Min

\* select_email takes one of the best addresses, if there is any.
LEMMA SelectedIsBest ==
  ASSUME NEW n \in Nat, NEW list \in [1..n -> Email], list # <<>>
  PROVE  /\ select_email(list) \in 1..n
         /\ \A i \in 1..n : Rank(list[select_email(list)]) <= Rank(list[i])
<1>. DEFINE verified == {i \in DOMAIN list : list[i].verified}
            best == {i \in verified : list[i].primary}
<1>1. n # 0
  OBVIOUS
<1>2. verified \subseteq Nat /\ best \subseteq Nat
  OBVIOUS
<1>3. \A i \in 1..n : Rank(list[i]) \in 0..2
  BY DEF Rank
<1>4. CASE best # {}
  <2>1. Min(best) \in best
    BY <1>2, <1>4, MinIsLeast
  <2>2. Rank(list[Min(best)]) = 0
    BY <2>1 DEF Rank
  <2>3. select_email(list) = Min(best)
    BY <1>4 DEF select_email
  <2>. HIDE DEF best
  <2>4. Min(best) \in 1..n
    BY <2>1 DEF best
  <2>. QED
    BY <1>3, <2>2, <2>3, <2>4
<1>5. CASE best = {} /\ verified # {}
  <2>1. Min(verified) \in verified
    BY <1>2, <1>5, MinIsLeast
  <2>2. Rank(list[Min(verified)]) <= 1
    BY <2>1 DEF Rank
  <2>3. \A i \in 1..n : Rank(list[i]) # 0
    BY <1>5 DEF Rank
  <2>4. select_email(list) = Min(verified)
    BY <1>5 DEF select_email
  <2>. HIDE DEF verified
  <2>5. Min(verified) \in 1..n
    BY <2>1 DEF verified
  <2>. QED
    BY <1>3, <2>2, <2>3, <2>4, <2>5
<1>6. CASE verified = {}
  <2>1. \A i \in 1..n : Rank(list[i]) = 2
    BY <1>6 DEF Rank
  <2>2. select_email(list) = 1
    BY <1>6 DEF select_email
  <2>. QED
    BY <1>1, <2>1, <2>2
<1>. QED
  BY <1>4, <1>5, <1>6

\* GitHub's answers are read, not changed, and an identity is the last thing
\* that is made of them.
GitHubInv ==
  /\ \E n \in Nat : emails \in [1..n -> Email]
  /\ step # "ended" => answer = Nothing
  /\ EmailIsBest

LEMMA IdentityStep ==
  ASSUME GitHubInv, answer' = Identity(user.id), step' = "ended", UNCHANGED <<user, emails>>
  PROVE  GitHubInv'
<1>1. CASE emails = <<>>
  <2>1. answer'.email = user.email
    BY <1>1 DEF Identity
  <2>. QED
    BY <1>1, <2>1 DEF GitHubInv, EmailIsBest
<1>2. CASE emails # <<>>
  <2>1. answer'.email = select_email(emails)
    BY <1>2 DEF Identity
  <2>2. PICK n \in Nat : emails \in [1..n -> Email]
    BY DEF GitHubInv
  <2>3. \A i \in DOMAIN emails : Rank(emails[select_email(emails)]) <= Rank(emails[i])
    BY <1>2, <2>2, SelectedIsBest
  <2>4. EmailIsBest'
    BY <1>2, <2>1, <2>3 DEF EmailIsBest, Rank
  <2>. QED
    BY <2>2, <2>4 DEF GitHubInv
<1>. QED
  BY <1>1, <1>2

LEMMA GitHubStep ==
  ASSUME GitHubInv, [GitHubNext]_gitHubVars
  PROVE  GitHubInv'
<1>1. ASSUME NEW status, step' = "ended", answer' = [kind |-> "error", status |-> status],
             UNCHANGED <<user, emails>>
      PROVE  GitHubInv'
  BY <1>1 DEF GitHubInv, EmailIsBest
<1>2. ASSUME UNCHANGED <<user, emails, answer>>, step # "ended" \/ step' = "ended"
      PROVE  GitHubInv'
  BY <1>2 DEF GitHubInv, EmailIsBest, Rank
<1>3. CASE exchange_code
  BY <1>1, <1>2, <1>3 DEF exchange_code, Fail
<1>4. CASE FetchUser
  BY <1>1, <1>2, <1>4 DEF FetchUser, Fail
<1>5. CASE FetchEmails
  BY <1>1, <1>5, IdentityStep DEF FetchEmails, Fail
<1>6. CASE Ended \/ UNCHANGED gitHubVars
  BY <1>6 DEF Ended, gitHubVars, GitHubInv, EmailIsBest, Rank
<1>. QED
  BY <1>3, <1>4, <1>5, <1>6 DEF GitHubNext

LEMMA GitHubInvariance == GitHubSpec => []GitHubInv
<1>1. GitHubInit => GitHubInv
  <2>. SUFFICES ASSUME GitHubInit PROVE GitHubInv
    OBVIOUS
  <2>1. \E n \in Nat : emails \in [1..n -> Email]
    BY BoundsAssumption DEF GitHubInit
  <2>. QED
    BY <2>1 DEF GitHubInit, GitHubInv, Nothing, EmailIsBest
<1>. QED
  BY <1>1, GitHubStep, PTL DEF GitHubSpec

\* No address is passed over for a worse one, however many there are.
THEOREM EmailsAreBest == GitHubSpec => []EmailIsBest
<1>1. GitHubInv => EmailIsBest
  BY DEF GitHubInv
<1>. QED
  BY <1>1, GitHubInvariance, PTL

-----------------------------------------------------------------------------
(* Addresses *)

\* All that a path can be made of.
Parts == Segments \cup {Empty, "api", "v1", "auth", "login", "version", "quota", "cache",
                        "auto-refresh", "settings", "usage", "identities", "api-keys",
                        "ranking", "local", "leaderboards", "v0", "management"}

\* What is left of a path without the slashes at its end are its names.
LEMMA TrimmedAreNames ==
  ASSUME NEW names \in SeqsUpTo(Segments, MaxNames), NEW n \in 0..MaxSlashes
  PROVE  names \in Seq(Parts) /\ Trimmed(names \o Ending(n)) = names
<1>. DEFINE path == names \o Ending(n)
<1>1. PICK k \in 0..MaxNames : names \in [1..k -> Segments]
  BY DEF SeqsUpTo
<1>2. k \in Nat /\ n \in Nat
  BY AddressAssumption
<1>3. names \in Seq(Segments) /\ Len(names) = k
  BY <1>1, <1>2
<1>4. names \in Seq(Parts)
  BY <1>3, SeqMonotonic DEF Parts
<1>5. Ending(n) \in Seq(Parts) /\ Len(Ending(n)) = n /\ \A i \in 1..n : Ending(n)[i] = Empty
  <2>1. Empty \in Parts
    BY DEF Parts
  <2>2. Ending(n) = [i \in 1..n |-> Empty]
    BY DEF Ending
  <2>. QED
    BY <1>2, <2>1, <2>2
<1>6. /\ path \in Seq(Parts) /\ Len(path) = k + n
      /\ \A i \in 1..(k + n) : path[i] = IF i <= k THEN names[i] ELSE Ending(n)[i - k]
  BY <1>3, <1>4, <1>5, ConcatProperties
<1>. HIDE DEF path
<1>7. \A i \in 1..k : path[i] = names[i] /\ names[i] # Empty
  BY <1>1, <1>2, <1>6, AddressAssumption
<1>8. \A i \in 1..(k + n) : i > k => path[i] = Empty
  BY <1>2, <1>5, <1>6
<1>9. {0} \cup {i \in DOMAIN path : path[i] # Empty} = 0..k
  BY <1>2, <1>6, <1>7, <1>8
<1>10. Max(0..k) = k
  BY <1>2 DEF Max
<1>11. Trimmed(path) = SubSeq(path, 1, k)
  BY <1>9, <1>10 DEF Trimmed
<1>12. /\ SubSeq(path, 1, k) \in Seq(Parts) /\ Len(SubSeq(path, 1, k)) = k
       /\ \A i \in 1..k : SubSeq(path, 1, k)[i] = path[i]
  BY <1>2, <1>6
<1>13. SubSeq(path, 1, k) = names
  BY <1>3, <1>4, <1>7, <1>12, SeqEqual
<1>. QED
  BY <1>4, <1>11, <1>13 DEF path

\* Url::join on a base that ends with a slash puts the relative path below it.
LEMMA JoinBelow ==
  ASSUME NEW base1 \in Seq(Parts), NEW relative \in Seq(Parts)
  PROVE  Join(base1 \o <<Empty>>, relative) = base1 \o relative
<1>0. Empty \in Parts
  BY DEF Parts
<1>1. <<Empty>> \in Seq(Parts) /\ Len(<<Empty>>) = 1
  BY <1>0
<1>2. /\ base1 \o <<Empty>> \in Seq(Parts) /\ Len(base1 \o <<Empty>>) = Len(base1) + 1
      /\ \A i \in 1..Len(base1) : (base1 \o <<Empty>>)[i] = base1[i]
  BY <1>1, ConcatProperties, LenProperties
<1>3. SubSeq(base1 \o <<Empty>>, 1, Len(base1)) = base1
  BY <1>2, SeqEqual, LenProperties
<1>4. Len(base1 \o <<Empty>>) - 1 = Len(base1)
  BY <1>2, LenProperties
<1>. QED
  BY <1>3, <1>4 DEF Join, Front

LEMMA EndpointsAreParts ==
  ASSUME NEW p \in KeeperPaths
  PROVE  p \in Seq(Parts)
<1>1. \A a \in Parts : <<a>> \in Seq(Parts)
  OBVIOUS
<1>2. \A a, b \in Parts : <<a, b>> \in Seq(Parts)
  OBVIOUS
<1>3. \A a, b, c \in Parts : <<a, b, c>> \in Seq(Parts)
  OBVIOUS
<1>4. /\ "auth" \in Parts /\ "login" \in Parts /\ "version" \in Parts
      /\ "quota" \in Parts /\ "cache" \in Parts /\ "auto-refresh" \in Parts
      /\ "settings" \in Parts /\ "usage" \in Parts /\ "identities" \in Parts
      /\ "api-keys" \in Parts /\ "ranking" \in Parts /\ "local" \in Parts
      /\ "leaderboards" \in Parts
  BY DEF Parts
<1>5. <<"auth", "login">> \in Seq(Parts) /\ <<"quota", "cache">> \in Seq(Parts)
  BY <1>2, <1>4
<1>6. <<"version">> \in Seq(Parts) /\ <<"usage", "identities">> \in Seq(Parts)
  BY <1>1, <1>2, <1>4
<1>7. <<"quota", "auto-refresh", "settings">> \in Seq(Parts)
  BY <1>3, <1>4
<1>8. <<"usage", "api-keys", "settings">> \in Seq(Parts)
  BY <1>3, <1>4
<1>9. <<"ranking", "local", "leaderboards">> \in Seq(Parts)
  BY <1>3, <1>4
<1>. QED
  BY <1>5, <1>6, <1>7, <1>8, <1>9, Zenon DEF KeeperPaths

\* The base that a client makes of API_PATH ends with a slash.
LEMMA ApiBase ==
  ASSUME NEW names \in Seq(Parts), NEW a \in Parts, NEW b \in Parts
  PROVE  /\ names \o <<a, b>> \in Seq(Parts)
         /\ names \o <<a, b, Empty>> = (names \o <<a, b>>) \o <<Empty>>
         /\ <<a, b, Empty>> = <<a, b>> \o <<Empty>>
<1>1. Empty \in Parts
  BY DEF Parts
<1>2. <<a, b>> \in Seq(Parts) /\ <<Empty>> \in Seq(Parts)
  BY <1>1
<1>3. <<a, b, Empty>> = <<a, b>> \o <<Empty>>
  BY <1>1
<1>4. names \o <<a, b>> \in Seq(Parts)
  BY <1>2, ConcatProperties
<1>5. names \o (<<a, b>> \o <<Empty>>) = (names \o <<a, b>>) \o <<Empty>>
  BY <1>2, ConcatAssociative
<1>. QED
  BY <1>3, <1>4, <1>5

AddressInv == configured \in Url /\ MadeIsRightBelow

\* One URL is made at a time, from a configured one.
LEMMA MadeStep ==
  ASSUME AddressInv, AddressNext
  PROVE  MadeIsRightBelow'
<1>1. configured' = configured
  BY DEF AddressNext, Keeper, Cpa, Callback, ShowBase
<1>. SUFFICES ASSUME made' # None, NEW names \in SeqsUpTo(Segments, MaxNames),
                     NEW n \in 0..MaxSlashes, configured.path = names \o Ending(n)
              PROVE  \/ /\ base'.of = "keeper"
                        /\ \E p \in KeeperPaths : made' = names \o <<"api", "v1">> \o p
                     \/ /\ base'.of = "dashboard"
                        /\ made' = names \o <<"v1">> \/ configured.extra = "tail"
                     \/ base'.of = "cpa" /\ made' = <<"v0", "management", "api-keys">>
                     \/ base'.of = "callback" /\ made' = <<"auth", "github", "callback">>
  BY <1>1 DEF MadeIsRightBelow
<1>2. names \in Seq(Parts) /\ Trimmed(configured.path) = names
  BY TrimmedAreNames
<1>3. ASSUME NEW p \in KeeperPaths, Keeper(p)
      PROVE  base'.of = "keeper" /\ made' = names \o <<"api", "v1">> \o p
  <2>1. base'.of = "keeper" /\ base'.path = KeeperBase(configured) /\ base'.path # None
    BY <1>3 DEF Keeper
  <2>2. base'.path = names \o <<"api", "v1", Empty>>
    BY <1>2, <2>1 DEF KeeperBase
  <2>3. made' = Join(base'.path, p)
    BY <1>3, <2>1 DEF Keeper
  <2>4. "api" \in Parts /\ "v1" \in Parts /\ p \in Seq(Parts)
    BY EndpointsAreParts DEF Parts
  <2>5. /\ names \o <<"api", "v1">> \in Seq(Parts)
        /\ base'.path = (names \o <<"api", "v1">>) \o <<Empty>>
    BY <1>2, <2>2, <2>4, ApiBase, ZenonT(30)
  <2>. QED
    BY <2>1, <2>3, <2>4, <2>5, JoinBelow
<1>4. ASSUME Cpa
      PROVE  base'.of = "cpa" /\ made' = <<"v0", "management", "api-keys">>
  <2>1. base'.of = "cpa" /\ made' = Join(<<"v0", "management", Empty>>, <<"api-keys">>)
    BY <1>4 DEF Cpa, CpaBase, JoinRoot
  <2>2. "v0" \in Parts /\ "management" \in Parts /\ "api-keys" \in Parts
    BY DEF Parts
  <2>3. <<"v0", "management">> \in Seq(Parts) /\ <<"api-keys">> \in Seq(Parts)
    BY <2>2
  <2>4. <<"v0", "management", Empty>> = <<"v0", "management">> \o <<Empty>>
    BY <1>2, <2>2, ApiBase, ZenonT(30)
  <2>5. made' = <<"v0", "management">> \o <<"api-keys">>
    BY <2>1, <2>3, <2>4, JoinBelow
  <2>. QED
    BY <2>1, <2>5
<1>5. ASSUME Callback
      PROVE  base'.of = "callback" /\ made' = <<"auth", "github", "callback">>
  BY <1>5 DEF Callback, JoinRoot
<1>6. ASSUME ShowBase
      PROVE  /\ base'.of = "dashboard"
             /\ made' = names \o <<"v1">> \/ configured.extra = "tail"
  BY <1>2, <1>6 DEF ShowBase
<1>. QED
  BY <1>3, <1>4, <1>5, <1>6 DEF AddressNext

\* Whatever is made of a configured URL is right below it or its root.
THEOREM AddressesAreRight == AddressSpec => []MadeIsRightBelow
<1>1. AddressInit => AddressInv
  BY DEF AddressInit, AddressInv, MadeIsRightBelow
<1>2. AddressInv /\ [AddressNext]_addressVars => AddressInv'
  <2>. SUFFICES ASSUME AddressInv, [AddressNext]_addressVars PROVE AddressInv'
    OBVIOUS
  <2>1. CASE AddressNext
    BY <2>1, MadeStep DEF AddressInv, AddressNext, Keeper, Cpa, Callback, ShowBase
  <2>2. CASE UNCHANGED addressVars
    BY <2>2 DEF addressVars, AddressInv, MadeIsRightBelow
  <2>. QED
    BY <2>1, <2>2
<1>3. AddressInv => MadeIsRightBelow
  BY DEF AddressInv
<1>. QED
  BY <1>1, <1>2, <1>3, PTL DEF AddressSpec

-----------------------------------------------------------------------------
(* ConnectionPool *)

\* The guards of Progress: what the pool and the database can do next.
CanGoOn ==
  \/ queue # <<>> /\ Free > 0 /\ at[Head(queue)] = "waiting"
  \/ \E r \in Singles : at[r] = "statement" /\ Unlocked(r)
  \/ \E c \in Callbacks : at[c] \in {"select", "selected"} \/ (at[c] = "deleted" /\ Unlocked(c))

NobodyStuck == (\E r \in Requests : at[r] \in Borrowing \cup {"waiting"}) => CanGoOn

\* The queue has each waiting request once, and of the transactions only one is
\* past its DELETE.
PoolOK ==
  /\ at \in [Requests -> {"new", "waiting", "done"} \cup Borrowing]
  /\ queue \in Seq(Requests)
  /\ \A r \in Requests : at[r] = "waiting" <=> \E i \in 1..Len(queue) : queue[i] = r
  /\ \A i, j \in 1..Len(queue) : queue[i] = queue[j] => i = j
  /\ \A r \in Requests : at[r] = "statement" => r \in Singles
  /\ \A r \in Requests : at[r] \in {"select", "selected", "deleted"} => r \in Callbacks
  /\ \A c, d \in Callbacks : at[c] = "deleted" /\ at[d] = "deleted" => c = d

LEMMA Removed ==
  ASSUME NEW S, NEW s \in Seq(S), NEW k \in 1..Len(s)
  PROVE  /\ RemoveAt(s, k) \in Seq(S)
         /\ Len(RemoveAt(s, k)) = Len(s) - 1
         /\ \A i \in 1..(Len(s) - 1) : RemoveAt(s, k)[i] = s[IF i < k THEN i ELSE i + 1]
<1>. DEFINE before == SubSeq(s, 1, k - 1)
            after  == SubSeq(s, k + 1, Len(s))
<1>0. Len(s) \in Nat /\ k \in Int /\ 1 <= k /\ k <= Len(s)
  BY LenProperties
<1>1. /\ before \in Seq(S) /\ Len(before) = k - 1
      /\ \A i \in 1..(k - 1) : before[i] = s[i]
  BY LenProperties
<1>2. /\ after \in Seq(S) /\ Len(after) = Len(s) - k
      /\ \A i \in 1..(Len(s) - k) : after[i] = s[k + i]
  BY LenProperties
<1>. HIDE DEF before, after
<1>3. /\ before \o after \in Seq(S) /\ Len(before \o after) = Len(s) - 1
      /\ \A i \in 1..(Len(s) - 1) :
           (before \o after)[i] = IF i <= k - 1 THEN before[i] ELSE after[i - (k - 1)]
  <2>1. (k - 1) + (Len(s) - k) = Len(s) - 1
    BY <1>0
  <2>2. /\ before \o after \in Seq(S)
        /\ Len(before \o after) = Len(before) + Len(after)
        /\ \A i \in 1..(Len(before) + Len(after)) :
             (before \o after)[i] = IF i <= Len(before) THEN before[i] ELSE after[i - Len(before)]
    BY <1>1, <1>2, ConcatProperties
  <2>. QED
    BY <1>1, <1>2, <2>1, <2>2
<1>4. RemoveAt(s, k) = before \o after
  BY DEF RemoveAt, before, after
<1>5. ASSUME NEW i \in 1..(Len(s) - 1)
      PROVE  (before \o after)[i] = s[IF i < k THEN i ELSE i + 1]
  <2>1. CASE i < k
    BY <1>0, <1>1, <1>3, <2>1
  <2>2. CASE i >= k
    <3>1. i - (k - 1) \in 1..(Len(s) - k) /\ k + (i - (k - 1)) = i + 1
      BY <1>0, <2>2
    <3>. QED
      BY <1>2, <1>3, <2>2, <3>1
  <2>3. i < k \/ i >= k
    BY <1>0
  <2>. QED
    BY <2>1, <2>2, <2>3
<1>. QED
  BY <1>3, <1>4, <1>5

\* A request that joins the queue at its end, or leaves it from anywhere.
LEMMA QueueStep ==
  ASSUME PoolOK, NEW r \in Requests,
         \/ at[r] = "new" /\ at' = [at EXCEPT ![r] = "waiting"] /\ queue' = Append(queue, r)
         \/ /\ at[r] = "waiting"
            /\ \E k \in 1..Len(queue) : queue[k] = r /\ queue' = RemoveAt(queue, k)
            /\ \E to \in {"select", "statement", "done"} : at' = [at EXCEPT ![r] = to]
  PROVE  /\ queue' \in Seq(Requests)
         /\ \A q \in Requests : at'[q] = "waiting" <=> \E i \in 1..Len(queue') : queue'[i] = q
         /\ \A i, j \in 1..Len(queue') : queue'[i] = queue'[j] => i = j
<1>1. CASE at[r] = "new" /\ at' = [at EXCEPT ![r] = "waiting"] /\ queue' = Append(queue, r)
  <2>1. /\ queue' \in Seq(Requests) /\ Len(queue') = Len(queue) + 1
        /\ \A i \in 1..Len(queue) : queue'[i] = queue[i]
        /\ queue'[Len(queue) + 1] = r
    BY <1>1, AppendProperties DEF PoolOK
  <2>2. Len(queue) \in Nat /\ \A i \in 1..Len(queue) : queue[i] # r
    BY <1>1, LenProperties DEF PoolOK
  <2>3. at'[r] = "waiting" /\ \A q \in Requests \ {r} : at'[q] = at[q]
    BY <1>1 DEF PoolOK
  <2>4. \A q \in Requests : at'[q] = "waiting" <=> \E i \in 1..Len(queue') : queue'[i] = q
    BY <2>1, <2>2, <2>3 DEF PoolOK
  <2>5. \A i, j \in 1..Len(queue') : queue'[i] = queue'[j] => i = j
    BY <2>1, <2>2 DEF PoolOK
  <2>. QED
    BY <2>1, <2>4, <2>5
<1>2. ASSUME at[r] = "waiting", NEW k \in 1..Len(queue), queue[k] = r, queue' = RemoveAt(queue, k),
             NEW to \in {"select", "statement", "done"}, at' = [at EXCEPT ![r] = to]
      PROVE  /\ queue' \in Seq(Requests)
             /\ \A q \in Requests : at'[q] = "waiting" <=> \E i \in 1..Len(queue') : queue'[i] = q
             /\ \A i, j \in 1..Len(queue') : queue'[i] = queue'[j] => i = j
  <2>. DEFINE old(i) == IF i < k THEN i ELSE i + 1
  <2>0. /\ RemoveAt(queue, k) \in Seq(Requests) /\ Len(RemoveAt(queue, k)) = Len(queue) - 1
        /\ \A i \in 1..(Len(queue) - 1) : RemoveAt(queue, k)[i] = queue[old(i)]
    <3>1. queue \in Seq(Requests)
      BY DEF PoolOK
    <3>. QED
      BY <3>1, Removed
  <2>1. /\ queue' \in Seq(Requests) /\ Len(queue') = Len(queue) - 1
        /\ \A i \in 1..Len(queue') : queue'[i] = queue[old(i)]
    BY <1>2, <2>0
  <2>2. Len(queue) \in Nat
    BY LenProperties DEF PoolOK
  <2>3. \A i \in 1..Len(queue') : old(i) \in 1..Len(queue) /\ old(i) # k
    BY <2>1, <2>2
  <2>4. \A m \in 1..Len(queue) : m # k => \E i \in 1..Len(queue') : old(i) = m
    <3>. SUFFICES ASSUME NEW m \in 1..Len(queue), m # k
                  PROVE  \E i \in 1..Len(queue') : old(i) = m
      OBVIOUS
    <3>1. CASE m < k
      BY <2>1, <2>2, <3>1
    <3>2. CASE m > k
      <4>1. m - 1 \in 1..Len(queue') /\ old(m - 1) = m
        BY <2>1, <2>2, <3>2
      <4>. QED
        BY <4>1
    <3>. QED
      BY <2>2, <3>1, <3>2
  <2>5. \A i, j \in 1..Len(queue') : old(i) = old(j) => i = j
    BY <2>1, <2>2
  <2>6. at'[r] # "waiting" /\ \A q \in Requests \ {r} : at'[q] = at[q]
    BY <1>2 DEF PoolOK
  <2>. HIDE DEF old
  <2>7. \A i \in 1..Len(queue') : queue'[i] # r
    BY <1>2, <2>1, <2>3 DEF PoolOK
  <2>8. \A q \in Requests : at'[q] = "waiting" <=> \E i \in 1..Len(queue') : queue'[i] = q
    <3>1. ASSUME NEW q \in Requests, at'[q] = "waiting" PROVE \E i \in 1..Len(queue') : queue'[i] = q
      <4>1. q # r /\ at[q] = "waiting"
        BY <2>6, <3>1
      <4>2. PICK m \in 1..Len(queue) : queue[m] = q
        BY <4>1 DEF PoolOK
      <4>. QED
        BY <1>2, <2>1, <2>4, <4>1, <4>2
    <3>2. ASSUME NEW q \in Requests, NEW i \in 1..Len(queue'), queue'[i] = q PROVE at'[q] = "waiting"
      <4>1. q # r /\ queue[old(i)] = q
        BY <2>1, <2>7, <3>2
      <4>. QED
        BY <2>3, <2>6, <4>1 DEF PoolOK
    <3>. QED
      BY <3>1, <3>2
  <2>9. \A i, j \in 1..Len(queue') : queue'[i] = queue'[j] => i = j
    BY <2>1, <2>3, <2>5, SMTT(20) DEF PoolOK
  <2>. QED
    BY <2>1, <2>8, <2>9
<1>. QED
  BY <1>1, <1>2

LEMMA PoolStarts == PoolInit => PoolOK
<1>. SUFFICES ASSUME PoolInit PROVE PoolOK
  OBVIOUS
<1>1. queue \in Seq(Requests) /\ Len(queue) = 0
  BY EmptySeq DEF PoolInit
<1>2. at \in [Requests -> {"new"}]
  BY DEF PoolInit
<1>. QED
  BY <1>1, <1>2 DEF PoolOK, Requests

LEMMA PoolStep == PoolOK /\ [PoolNext]_poolVars => PoolOK'
<1>. SUFFICES ASSUME PoolOK, [PoolNext]_poolVars PROVE PoolOK'
  OBVIOUS
<1>1. ASSUME NEW r \in Requests, Acquire(r) PROVE PoolOK'
  <2>1. at[r] = "new" /\ at' = [at EXCEPT ![r] = "waiting"] /\ queue' = Append(queue, r)
    BY <1>1 DEF Acquire, Step
  <2>. QED
    BY <2>1, QueueStep DEF PoolOK, Requests
<1>2. CASE Granted
  <2>. DEFINE r == Head(queue)
  <2>1. /\ queue # <<>> /\ queue' = Tail(queue) /\ at[r] = "waiting"
        /\ at' = [at EXCEPT ![r] = IF r \in Callbacks THEN "select" ELSE "statement"]
    BY <1>2 DEF Granted, Step
  <2>2. 1 \in 1..Len(queue) /\ r = queue[1] /\ r \in Requests
    BY <2>1, LenProperties, HeadTailProperties DEF PoolOK
  <2>3. queue' = RemoveAt(queue, 1)
    <3>1. Len(Tail(queue)) = Len(queue) - 1 /\ Tail(queue) \in Seq(Requests)
          /\ \A i \in 1..(Len(queue) - 1) : Tail(queue)[i] = queue[i + 1]
      BY <2>1, HeadTailProperties DEF PoolOK
    <3>2. /\ RemoveAt(queue, 1) \in Seq(Requests) /\ Len(RemoveAt(queue, 1)) = Len(queue) - 1
          /\ \A i \in 1..(Len(queue) - 1) : RemoveAt(queue, 1)[i] = queue[i + 1]
      BY <2>2, Removed, SMTT(20) DEF PoolOK
    <3>. QED
      BY <2>1, <3>1, <3>2, SeqEqual
  <2>. HIDE DEF r
  <2>4. \E to \in {"select", "statement", "done"} : at' = [at EXCEPT ![r] = to]
    BY <2>1
  <2>5. /\ queue' \in Seq(Requests)
        /\ \A q \in Requests : at'[q] = "waiting" <=> \E i \in 1..Len(queue') : queue'[i] = q
        /\ \A i, j \in 1..Len(queue') : queue'[i] = queue'[j] => i = j
    BY <2>1, <2>2, <2>3, <2>4, QueueStep
  <2>. QED
    BY <2>1, <2>2, <2>5 DEF PoolOK, Borrowing, Requests
<1>3. ASSUME NEW r \in Requests, GivesUp(r) PROVE PoolOK'
  <2>1. at' = [at EXCEPT ![r] = "done"]
    BY <1>3 DEF GivesUp
  <2>2. CASE at[r] = "waiting"
    <3>1. \E k \in 1..Len(queue) : queue[k] = r /\ queue' = RemoveAt(queue, k)
      BY <1>3, <2>2, LenProperties DEF GivesUp, PoolOK
    <3>2. /\ queue' \in Seq(Requests)
          /\ \A q \in Requests : at'[q] = "waiting" <=> \E i \in 1..Len(queue') : queue'[i] = q
          /\ \A i, j \in 1..Len(queue') : queue'[i] = queue'[j] => i = j
      BY <2>1, <2>2, <3>1, QueueStep
    <3>. QED
      BY <2>1, <3>2 DEF PoolOK, Requests
  <2>3. CASE at[r] # "waiting"
    BY <1>3, <2>1, <2>3 DEF GivesUp, PoolOK, Requests
  <2>. QED
    BY <2>2, <2>3
<1>4. ASSUME NEW r \in Singles, RunSingle(r) PROVE PoolOK'
  BY <1>4 DEF RunSingle, Step, PoolOK, Requests
<1>5. ASSUME NEW c \in Callbacks, Select(c) \/ Delete(c) \/ Commit(c) PROVE PoolOK'
  <2>1. UNCHANGED queue
    BY <1>5 DEF Select, Delete, Commit
  <2>2. \/ at[c] = "select" /\ at' = [at EXCEPT ![c] = "selected"]
        \/ at[c] = "selected" /\ at' = [at EXCEPT ![c] = "done"]
        \/ /\ at[c] = "selected" /\ at' = [at EXCEPT ![c] = "deleted"]
           /\ \A d \in Callbacks : at[d] # "deleted"
        \/ at[c] = "deleted" /\ at' = [at EXCEPT ![c] = "done"]
    BY <1>5 DEF Select, Delete, Commit, Step
  <2>. QED
    BY <2>1, <2>2 DEF PoolOK, Borrowing, Requests
<1>6. CASE UNCHANGED poolVars
  BY <1>6 DEF poolVars, PoolOK
<1>. QED
  BY <1>1, <1>2, <1>3, <1>4, <1>5, <1>6 DEF PoolNext, Progress, AllDone

\* Whoever has a connection can use it or somebody else can, and when nobody has
\* one the first of the queue gets it: there is no circle of requests that wait
\* for each other's connections and locks, whatever the size of the pool.
THEOREM ThePoolNeverJams == PoolSpec => []NobodyStuck
<1>1. PoolOK => NobodyStuck
  <2>. SUFFICES ASSUME PoolOK, NEW r \in Requests, at[r] \in Borrowing \cup {"waiting"}
                PROVE  CanGoOn
    BY DEF NobodyStuck
  <2>1. CASE \E c \in Callbacks : at[c] \in {"select", "selected"}
    BY <2>1 DEF CanGoOn
  <2>2. CASE /\ \A c \in Callbacks : at[c] \notin {"select", "selected"}
             /\ \E c \in Callbacks : at[c] = "deleted"
    BY <2>2 DEF CanGoOn, Unlocked, PoolOK
  <2>3. CASE /\ \A c \in Callbacks : at[c] \notin {"select", "selected", "deleted"}
             /\ \E q \in Requests : at[q] = "statement"
    BY <2>3 DEF CanGoOn, Unlocked, PoolOK
  <2>4. CASE \A q \in Requests : at[q] \notin Borrowing
    <3>1. at[r] = "waiting"
      BY <2>4
    <3>2. PICK i \in 1..Len(queue) : queue[i] = r
      BY <3>1 DEF PoolOK
    <3>3. queue # <<>> /\ Head(queue) = queue[1] /\ 1 \in 1..Len(queue)
      BY <3>2, LenProperties, EmptySeq, HeadTailProperties DEF PoolOK
    <3>4. at[Head(queue)] = "waiting"
      BY <3>3, ElementOfSeq DEF PoolOK
    <3>5. Free > 0
      <4>1. {q \in Requests : at[q] \in Borrowing} = {}
        BY <2>4
      <4>2. Cardinality({}) = 0
        BY FS_EmptySet, Zenon
      <4>3. Free = MaxConnections - Cardinality({})
        BY <4>1, Zenon DEF Free
      <4>. QED
        BY <4>2, <4>3, PoolAssumption
    <3>. QED
      BY <3>3, <3>4, <3>5 DEF CanGoOn
  <2>. QED
    BY <2>1, <2>2, <2>3, <2>4 DEF PoolOK, Borrowing
<1>. QED
  BY <1>1, PoolStarts, PoolStep, PTL DEF PoolSpec

\* How far a request is from its end.
StepsLeft(r) ==
  IF at[r] = "new" THEN 5 ELSE IF at[r] = "waiting" THEN 4 ELSE IF at[r] = "select" THEN 3
  ELSE IF at[r] = "selected" THEN 2 ELSE IF at[r] \in {"statement", "deleted"} THEN 1 ELSE 0

\* A step brings one request closer to its end and leaves the others where they
\* are.
GetsOn ==
  \E r \in Requests :
    /\ StepsLeft(r)' < StepsLeft(r)
    /\ \A q \in Requests \ {r} : at'[q] = at[q]

\* No request asks for a second connection or tries a statement again, so each
\* is over after five steps of its own.  With ThePoolNeverJams, the part of
\* EveryRequestEnds that needs no fairness.
THEOREM ThePoolGetsOn == PoolSpec => [][GetsOn]_poolVars
<1>1. ASSUME PoolOK, NEW r \in Requests, NEW to,
             \/ at[r] = "new" /\ to = "waiting"
             \/ at[r] = "waiting" /\ to \in {"select", "statement", "done"}
             \/ at[r] = "select" /\ to \in {"selected", "done"}
             \/ at[r] = "selected" /\ to \in {"deleted", "done"}
             \/ at[r] \in {"statement", "deleted"} /\ to = "done",
             at' = [at EXCEPT ![r] = to]
      PROVE  GetsOn
  <2>1. at'[r] = to /\ \A q \in Requests \ {r} : at'[q] = at[q]
    BY <1>1 DEF PoolOK
  <2>2. StepsLeft(r)' < StepsLeft(r)
    BY <1>1, <2>1 DEF StepsLeft
  <2>. QED
    BY <2>1, <2>2 DEF GetsOn
<1>2. PoolOK /\ [PoolNext]_poolVars => [GetsOn]_poolVars
  <2>. SUFFICES ASSUME PoolOK, PoolNext, poolVars' # poolVars PROVE GetsOn
    OBVIOUS
  <2>1. ASSUME NEW r \in Requests, Acquire(r) PROVE GetsOn
    BY <1>1, <2>1 DEF Acquire, Step
  <2>2. CASE Granted
    <3>1. Head(queue) \in Requests
      BY <2>2, HeadTailProperties DEF Granted, PoolOK
    <3>. QED
      BY <1>1, <2>2, <3>1 DEF Granted, Step
  <2>3. ASSUME NEW r \in Requests, GivesUp(r) PROVE GetsOn
    BY <1>1, <2>3 DEF GivesUp, Borrowing
  <2>4. ASSUME NEW r \in Singles, RunSingle(r) PROVE GetsOn
    BY <1>1, <2>4 DEF RunSingle, Step, Requests
  <2>5. ASSUME NEW c \in Callbacks, Select(c) \/ Delete(c) \/ Commit(c) PROVE GetsOn
    BY <1>1, <2>5 DEF Select, Delete, Commit, Step, Requests
  <2>. QED
    BY <2>1, <2>2, <2>3, <2>4, <2>5 DEF PoolNext, Progress, AllDone
<1>. QED
  BY <1>2, PoolStarts, PoolStep, PTL DEF PoolSpec
=============================================================================

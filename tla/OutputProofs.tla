----------------------------- MODULE OutputProofs -----------------------------
(***************************************************************************)
(* Proofs about Output for every set of servers and descriptors and every  *)
(* number of requests and rebuilds.  The inductive invariant has four      *)
(* parts: where each thread may be while another is where it is; that a    *)
(* target that is being read, sent to or cached is the one audio would     *)
(* read now, unless a server change overlapped; that the pipeline serves   *)
(* the server that will be configured once the request is over; and, as    *)
(* long as no server change straddled a teardown, which descriptor belongs *)
(* to whom.                                                                *)
(***************************************************************************)
EXTENDS Output, FiniteSetTheorems, WellFoundedInduction, TLAPS

Running == {"dual", "loop", "send"}

(* Who may be where: requests reach a pipeline that runs, the threads that *)
(* send live no longer than what they send on, the dual stream starts once.*)
Threads ==
    /\ ctl <=> mpc \in Running
    /\ rpc # "off" \/ aud # None => mpc \in Running \cup {"bind", "join_audio"}
    /\ side # None => mpc \notin {"init", "fill", "side"}
    /\ recpc # "off" => mpc \in {"loop", "send", "join_audio", "close", "clear",
                                 "close_dual", "join_rec"}
    /\ dual.handle # None => mpc \in {"loop", "send", "join_audio", "close", "clear",
                                      "close_dual"}
    /\ mpc = "dual" => reinits = 0
    /\ mpc \in {"join_audio", "close", "clear", "close_dual", "join_rec", "reset"} =>
           stopping \/ reinits > 0
    /\ mpc = "reset" => reinits > 0

(* What the audio thread has read so far, and what it cached and sends to. *)
Reading ==
    /\ rpc = "off" => ~cache.valid
    /\ cache.valid => cache.gen <= gen
    /\ rpc \in {"check", "handle", "kind", "dst", "store"} /\ ~overlap =>
           /\ ~Busy
           /\ rpc \in {"kind", "dst", "store"} => target.handle = Live.handle
           /\ rpc = "kind" => port_override = 1
           /\ rpc = "dst" => port_override = 0 \/ IsUdp
           /\ rpc = "store" => target.dst = Live.dst
    /\ rpc = "send" /\ ~overlap /\ "audio" \notin racy =>
           ~Busy /\ target.handle = Live.handle
    /\ QuietCacheIsLive

(* The server that will be configured once the request is answered, if no  *)
(* change of the output succeeds before; the one configured now, if the    *)
(* output was built early for it.                                          *)
Aim == IF wpc = "call" /\ ~rolling /\ ~early THEN old ELSE cfg

Settled == wpc = "done" \/ (~Busy /\ ~unsettled)

(* The output serves it, from its initialisation to its teardown.          *)
Serving ==
    /\ wpc # "idle" => cfg = uri
    /\ mpc \in Running \cup {"fill", "side", "audio", "bind"} =>
           /\ Settled => IF mpc = "fill"
                         THEN out.handle # None /\ out.transport = Aim.type /\ server = Aim
                         ELSE Serves(Aim)
           /\ wpc \in {"clear", "fill"} => out.handle # None /\ out.transport = uri.type
           /\ mpc = "fill" /\ Busy => server = uri

(* The number in out.handle is that of the output's open socket.           *)
Held == wpc \notin {"forget", "forget_unfilled"} /\ mpc # "clear"

(* Each descriptor belongs to the place that holds its number, and to no   *)
(* other, unless a server change straddled a teardown.                     *)
Belongs ==
    ~straddle =>
        \A f \in Fds : /\ file[f] = "net" <=> f = out.handle /\ Held
                       /\ file[f] = "conn" <=> f = conn
                       /\ file[f] = "audio" <=> f = aud
                       /\ file[f] = "side" <=> f = side
                       /\ file[f] = "dual" <=> f = dual.handle /\ dual.dst_len = "udp"

(* The standard input stays 0 until a dual encoder without output closes   *)
(* it.                                                                     *)
Standard ==
    ~straddle =>
        /\ dual.handle # None /\ dual.dst_len = "none" => dual.handle = 0 /\ file[0] = "std"
        /\ mpc \in {"init", "fill", "side", "audio", "bind", "dual"} /\ reinits = 0 =>
               file[0] = "std"

(* The numbers that threads have loaded are those in force.                *)
Loaded ==
    ~straddle =>
        /\ Busy => mpc \in Running
        /\ wpc = "open" \/ mpc \in {"init", "close_dual", "join_rec", "reset"} =>
               out.handle = None
        /\ mpc = "send" /\ "main" \notin racy => ~Busy /\ mh = out.handle /\ mh # None
        /\ recpc = "send" /\ mpc # "join_rec" =>
               rh = dual.handle /\ rh # None /\ dual.dst_len = "udp"

OutInv == TypeOK /\ Threads /\ Reading /\ Serving /\ Belongs /\ Standard /\ Loaded

-------------------------------------------------------------------------------
(* Lemmas about the operators of Output.                                   *)

\* A descriptor the kernel gives out is one of the free ones.
LEMMA MinIn == ASSUME NEW S, S \subseteq Nat, S # {} PROVE Min(S) \in S
<1> DEFINE Less == {ss \in Nat \X Nat : ss[1] < ss[2]}
<1>1. IsWellFoundedOn(Less, Nat)
  BY NatLessThanWellFounded DEF OpToRel
<1>2. \E x \in S : \A y \in S : <<y, x>> \notin Less
  <2> HIDE DEF Less
  <2> QED BY <1>1, WFMin
<1>3. \A x, y \in Nat : <<y, x>> \notin Less => x <= y
  OBVIOUS
<1>4. \E x \in S : \A y \in S : x <= y
  <2> HIDE DEF Less
  <2> QED BY <1>2, <1>3
<1> QED BY <1>4 DEF Min

LEMMA LowestFree ==
    ASSUME FreeFds # {} PROVE Lowest \in Fds /\ file[Lowest] = "free"
BY MinIn, OutputAssumption DEF Lowest, FreeFds

\* Of two free descriptors the second lowest is another free one.
LEMMA SecondFree ==
    ASSUME Cardinality(FreeFds) > 1
    PROVE  /\ FreeFds # {}
           /\ Min(FreeFds \ {Lowest}) \in FreeFds
           /\ Min(FreeFds \ {Lowest}) # Lowest
<1>1. FreeFds # {}
  BY FS_EmptySet
<1>2. FreeFds \ {Lowest} # {}
  <2> SUFFICES ASSUME FreeFds \subseteq {Lowest} PROVE FALSE
    OBVIOUS
  <2>1. FreeFds = {Lowest}
    BY <1>1
  <2>2. Cardinality({Lowest}) = 1
    BY FS_Singleton
  <2> QED BY <2>1, <2>2
<1>3. Min(FreeFds \ {Lowest}) \in FreeFds \ {Lowest}
  BY <1>2, MinIn, OutputAssumption DEF FreeFds
<1> QED BY <1>1, <1>3

\* A step of the generation changes its parity, two restore it.
LEMMA Parity ==
    ASSUME NEW g \in Nat
    PROVE  /\ NextGen(g) \in Nat /\ NextGen(g) > g
           /\ Even(NextGen(g)) <=> ~Even(g)
           /\ g + 2 \in Nat /\ (Even(g + 2) <=> Even(g))
BY DEF NextGen, Even

\* None is no descriptor.
LEMMA NoneIsNone == None \notin Fds /\ None \in Int
BY OutputAssumption DEF None

\* Opening turns one free descriptor into what it was opened for.
LEMMA OpenEffect ==
    ASSUME DescriptorType, FreeFds # {}, NEW o \in Kinds
    PROVE  /\ Lowest \in Fds /\ file[Lowest] = "free"
           /\ Open(o) \in [Fds -> Kinds]
           /\ \A f \in Fds : Open(o)[f] = IF f = Lowest THEN o ELSE file[f]
BY LowestFree DEF DescriptorType, Open

\* Closing frees the descriptor whose number is given, and no other.
LEMMA CloseEffect ==
    ASSUME DescriptorType, NEW n \in Handles
    PROVE  /\ Close(n) \in [Fds -> Kinds]
           /\ \A f \in Fds : Close(n)[f] = IF f = n THEN "free" ELSE file[f]
BY NoneIsNone DEF DescriptorType, Close, Handles, Kinds

\* A failed request goes back to the old server once, and then ends.
LEMMA GiveUpEffect ==
    ASSUME GiveUp
    PROVE  \/ /\ rolling /\ wpc' = "idle" /\ rolling' = FALSE
              /\ cfg' = cfg /\ uri' = uri /\ old' = old
           \/ /\ ~rolling /\ wpc' = "call" /\ rolling' = TRUE
              /\ cfg' = old /\ uri' = old /\ old' = old
BY DEF GiveUp

-------------------------------------------------------------------------------
(* The invariant is inductive.                                             *)

\* The HTTP thread's steps preserve the invariant.
LEMMA HttpStepInv == OutInv /\ HttpStep => OutInv'
<1> SUFFICES ASSUME OutInv, HttpStep PROVE OutInv'
  OBVIOUS
<1>0. TypeOK /\ Threads /\ Reading /\ Serving /\ Belongs /\ Standard /\ Loaded
  BY DEF OutInv
<1> USE <1>0 DEF TypeOK, http, main, audio, rec, hist, sockets, notHttp, notMain, notAudio, notRec
<1>a. UNCHANGED <<mpc, mh, ctl, side, dual, reinits, stopping, port_override, aud, rpc, target,
                 cache, recpc, rh, straddle>>
  BY DEF HttpStep, Accept, Hangup, ApplyRefused, ApplyBegin, CloseSocket, ForgetSocket,
     OpenNew, ClearDestination, FillDestination, ApplyDone, ApplyFailed, SetServer
<1>b. Threads'
  <2>1. Threads'
    BY <1>a DEF Threads
  <2> QED BY <2>1
<1>1. CASE Accept
  <2>1. FreeFds # {} =>
        /\ Lowest \in Fds /\ file[Lowest] = "free" /\ Open("conn") \in [Fds -> Kinds]
        /\ \A f \in Fds : Open("conn")[f] = IF f = Lowest THEN "conn" ELSE file[f]
    BY OpenEffect DEF Kinds
  <2>2. DescriptorType'
    BY <1>1, <2>1 DEF DescriptorType, Accept, Handles
  <2>3. TargetType'
    BY <1>1 DEF TargetType, Accept
  <2>4. Generation'
    BY <1>1 DEF Generation, ControlType, Busy, Accept
  <2>5. RequestType'
    BY <1>1 DEF RequestType, Busy, Accept
  <2>6. ControlType'
    BY <1>1 DEF ControlType, Accept
  <2>7. FlagType'
    BY <1>1 DEF FlagType, Accept
  <2>8. Reading'
    BY <1>1 DEF ControlType, Threads, Reading, Running, QuietCacheIsLive, InForce, Hit,
       Live, IsUdp, Busy, Accept
  <2>9. Serving'
    BY <1>1 DEF ControlType, Serving, Running, Aim, Serves, Settled, Busy, Accept
  <2>10. Belongs'
    BY <1>1, <2>1, NoneIsNone DEF DescriptorType, ControlType, Belongs, Loaded, Held,
       Busy, Accept
  <2>11. Standard'
    BY <1>1, <2>1, OutputAssumption, NoneIsNone DEF DescriptorType, ControlType,
       Belongs, Standard, Threads, Accept
  <2>12. Loaded'
    BY <1>1 DEF ControlType, Threads, Loaded, Running, Busy, Accept
  <2> QED BY <1>b, <2>2, <2>3, <2>4, <2>5, <2>6, <2>7, <2>8, <2>9, <2>10, <2>11, <2>12
     DEF OutInv, TypeOK
<1>2. CASE Hangup
  <2>1. /\ Close(conn) \in [Fds -> Kinds]
        /\ \A f \in Fds : Close(conn)[f] = IF f = conn THEN "free" ELSE file[f]
    BY CloseEffect DEF DescriptorType
  <2>2. DescriptorType'
    BY <1>2, <2>1 DEF DescriptorType, Hangup, Handles
  <2>3. TargetType'
    BY <1>2 DEF TargetType, Hangup
  <2>4. Generation'
    BY <1>2 DEF Generation, ControlType, Busy, Hangup
  <2>5. RequestType'
    BY <1>2 DEF RequestType, Busy, Hangup
  <2>6. ControlType'
    BY <1>2 DEF ControlType, Hangup
  <2>7. FlagType'
    BY <1>2 DEF FlagType, Hangup
  <2>8. Reading'
    BY <1>2 DEF ControlType, Threads, Reading, Running, QuietCacheIsLive, InForce, Hit,
       Live, IsUdp, Busy, Hangup
  <2>9. Serving'
    BY <1>2 DEF ControlType, Serving, Running, Aim, Serves, Settled, Busy, Hangup
  <2>10. Belongs'
    BY <1>2, <2>1, NoneIsNone DEF DescriptorType, ControlType, Belongs, Loaded, Held,
       Busy, Hangup
  <2>11. Standard'
    BY <1>2, <2>1, OutputAssumption, NoneIsNone DEF DescriptorType, ControlType,
       Belongs, Standard, Threads, Hangup
  <2>12. Loaded'
    BY <1>2 DEF ControlType, Threads, Loaded, Running, Busy, Hangup
  <2> QED BY <1>b, <2>2, <2>3, <2>4, <2>5, <2>6, <2>7, <2>8, <2>9, <2>10, <2>11, <2>12
     DEF OutInv, TypeOK
<1>3. CASE ApplyRefused
  <2>1. \/ /\ rolling /\ wpc' = "idle" /\ rolling' = FALSE
           /\ cfg' = cfg /\ uri' = uri /\ old' = old
        \/ /\ ~rolling /\ wpc' = "call" /\ rolling' = TRUE
           /\ cfg' = old /\ uri' = old /\ old' = old
    BY <1>3, GiveUpEffect DEF ApplyRefused
  <2>2. DescriptorType'
    BY <1>3 DEF DescriptorType, ApplyRefused
  <2>3. TargetType'
    BY <1>3 DEF TargetType, ApplyRefused
  <2>4. Generation'
    BY <1>3, <2>1 DEF Generation, ControlType, Busy, ApplyRefused
  <2>5. RequestType'
    BY <1>3, <2>1 DEF RequestType, Busy, ApplyRefused
  <2>6. ControlType'
    BY <1>3, <2>1 DEF ControlType, ApplyRefused
  <2>7. FlagType'
    BY <1>3, <2>1 DEF FlagType, ApplyRefused
  <2>8. Reading'
    BY <1>3, <2>1 DEF ControlType, Threads, Reading, Running, QuietCacheIsLive, InForce,
       Hit, Live, IsUdp, Busy, ApplyRefused
  <2>9. Serving'
    BY <1>3, <2>1 DEF ControlType, Serving, Running, Aim, Serves, Settled, Busy, ApplyRefused
  <2>10. Belongs'
    BY <1>3, <2>1 DEF DescriptorType, ControlType, Belongs, Loaded, Held, Busy,
       ApplyRefused
  <2>11. Standard'
    BY <1>3 DEF DescriptorType, ControlType, Belongs, Standard, Threads, ApplyRefused
  <2>12. Loaded'
    BY <1>3, <2>1 DEF ControlType, Threads, Loaded, Running, Busy, ApplyRefused
  <2> QED BY <1>b, <2>2, <2>3, <2>4, <2>5, <2>6, <2>7, <2>8, <2>9, <2>10, <2>11, <2>12
     DEF OutInv, TypeOK
<1>4. CASE ApplyBegin
  <2>1. /\ gen \in Nat /\ gen' \in Nat /\ gen' > gen /\ (Even(gen') <=> ~Even(gen))
        /\ cache.gen \in Nat
    BY <1>4, Parity DEF Generation, TargetType, ApplyBegin
  <2>2. DescriptorType'
    BY <1>4 DEF DescriptorType, ApplyBegin, Refused
  <2>3. TargetType'
    BY <1>4 DEF TargetType, ApplyBegin, Refused
  <2>4. Generation'
    BY <1>4, <2>1 DEF Generation, ControlType, Busy, ApplyBegin, Refused
  <2>5. RequestType'
    BY <1>4 DEF RequestType, Busy, ApplyBegin, Refused, ControlType
  <2>6. ControlType'
    BY <1>4 DEF ControlType, ApplyBegin, Refused
  <2>7. FlagType'
    BY <1>4 DEF FlagType, ApplyBegin, Refused
  <2>8. Reading'
    BY <1>4, <2>1 DEF ControlType, Threads, Reading, Running, QuietCacheIsLive, InForce,
       Hit, Live, IsUdp, Busy, ApplyBegin, Refused, FlagType
  <2>9. Serving'
    BY <1>4 DEF ControlType, Serving, Running, Aim, Serves, Settled, Busy, ApplyBegin, Refused,
       Threads
  <2>10. Belongs'
    BY <1>4 DEF DescriptorType, ControlType, Belongs, Loaded, Held, Busy, ApplyBegin,
       Refused
  <2>11. Standard'
    BY <1>4 DEF DescriptorType, ControlType, Belongs, Standard, Threads, ApplyBegin,
       Refused
  <2>12. Loaded'
    BY <1>4 DEF ControlType, Threads, Loaded, Running, Busy, ApplyBegin, Refused
  <2> QED BY <1>b, <2>2, <2>3, <2>4, <2>5, <2>6, <2>7, <2>8, <2>9, <2>10, <2>11, <2>12
     DEF OutInv, TypeOK
<1>5. CASE CloseSocket
  <2>1. /\ Close(out.handle) \in [Fds -> Kinds]
        /\ \A f \in Fds : Close(out.handle)[f] = IF f = out.handle THEN "free" ELSE file[f]
    BY CloseEffect DEF TargetType
  <2>2. DescriptorType'
    BY <1>5, <2>1 DEF DescriptorType, CloseSocket
  <2>3. TargetType'
    BY <1>5 DEF TargetType, CloseSocket
  <2>4. Generation'
    BY <1>5 DEF Generation, ControlType, Busy, CloseSocket
  <2>5. RequestType'
    BY <1>5 DEF RequestType, Busy, CloseSocket
  <2>6. ControlType'
    BY <1>5 DEF ControlType, CloseSocket
  <2>7. FlagType'
    BY <1>5 DEF FlagType, CloseSocket
  <2>8. Reading'
    BY <1>5 DEF ControlType, Threads, Reading, Running, QuietCacheIsLive, InForce, Hit,
       Live, IsUdp, Busy, CloseSocket
  <2>9. Serving'
    BY <1>5 DEF ControlType, Serving, Running, Aim, Serves, Settled, Busy, CloseSocket
  <2>10. Belongs'
    BY <1>5, <2>1, NoneIsNone DEF DescriptorType, ControlType, Belongs, Loaded, Held,
       Busy, CloseSocket, TargetType, Running
  <2>11. Standard'
    BY <1>5, <2>1, OutputAssumption, NoneIsNone DEF DescriptorType, ControlType,
       Belongs, Standard, Threads, CloseSocket, Loaded, Held, Busy, Running
  <2>12. Loaded'
    BY <1>5 DEF ControlType, Threads, Loaded, Running, Busy, CloseSocket
  <2> QED BY <1>b, <2>2, <2>3, <2>4, <2>5, <2>6, <2>7, <2>8, <2>9, <2>10, <2>11, <2>12
     DEF OutInv, TypeOK
<1>6. CASE ForgetSocket
  <2>1. DescriptorType'
    BY <1>6 DEF DescriptorType, ForgetSocket
  <2>2. TargetType'
    BY <1>6 DEF TargetType, ForgetSocket, Handles
  <2>3. Generation'
    BY <1>6 DEF Generation, ControlType, Busy, ForgetSocket
  <2>4. RequestType'
    BY <1>6 DEF RequestType, Busy, ForgetSocket
  <2>5. ControlType'
    BY <1>6 DEF ControlType, ForgetSocket
  <2>6. FlagType'
    BY <1>6 DEF FlagType, ForgetSocket
  <2>7. Reading'
    BY <1>6 DEF ControlType, Threads, Reading, Running, QuietCacheIsLive, InForce, Hit,
       Live, IsUdp, Busy, ForgetSocket
  <2>8. Serving'
    BY <1>6 DEF ControlType, Serving, Running, Aim, Serves, Settled, Busy, ForgetSocket
  <2>9. Belongs'
    BY <1>6, NoneIsNone DEF DescriptorType, ControlType, Belongs, Loaded, Held, Busy,
       ForgetSocket, Handles
  <2>10. Standard'
    BY <1>6 DEF DescriptorType, ControlType, Belongs, Standard, Threads, ForgetSocket
  <2>11. Loaded'
    BY <1>6 DEF ControlType, Threads, Loaded, Running, Busy, ForgetSocket
  <2> QED BY <1>b, <2>1, <2>2, <2>3, <2>4, <2>5, <2>6, <2>7, <2>8, <2>9, <2>10, <2>11
     DEF OutInv, TypeOK
<1>7. CASE OpenNew
  <2>1. FreeFds # {} =>
        /\ Lowest \in Fds /\ file[Lowest] = "free" /\ Open("net") \in [Fds -> Kinds]
        /\ \A f \in Fds : Open("net")[f] = IF f = Lowest THEN "net" ELSE file[f]
    BY OpenEffect DEF Kinds
  <2>2. /\ wpc = "open" /\ (straddle \/ (out.handle = None /\ mpc # "clear"))
        /\ \/ FreeFds # {} /\ file' = Open("net") /\ out'.handle = Lowest
              /\ out'.transport = uri.type /\ wpc' = "clear"
           \/ file' = file /\ out' = out /\ wpc' = "failed"
    BY <1>7 DEF OpenNew, Loaded, TargetType, Busy, Running
  <2>3. DescriptorType'
    BY <1>7, <2>1, <2>2 DEF DescriptorType, OpenNew
  <2>4. TargetType'
    <3>1. (FreeFds # {} /\ out' = [out EXCEPT !.handle = Lowest, !.transport = uri.type])
          \/ out' = out
      BY <1>7 DEF OpenNew
    <3>2. uri.type \in {"udp", "unix", "shm"}
      BY <1>7 DEF RequestType, Busy, OpenNew, SocketTypes
    <3>3. out' \in [handle : Handles, transport : {"udp", "unix", "shm"}, dst : Addresses,
                     dst_len : {"udp", "unix", "none"}]
      BY <2>1, <3>1, <3>2 DEF TargetType, Handles
    <3> QED BY <1>7, <3>3 DEF TargetType, OpenNew
  <2>5. Generation'
    BY <1>7 DEF Generation, ControlType, Busy, OpenNew
  <2>6. RequestType'
    BY <1>7 DEF RequestType, Busy, OpenNew
  <2>7. ControlType'
    BY <1>7 DEF ControlType, OpenNew
  <2>8. FlagType'
    BY <1>7 DEF FlagType, OpenNew
  <2>9. Reading'
    BY <1>7 DEF ControlType, Threads, Reading, Running, QuietCacheIsLive, InForce, Hit,
       Live, IsUdp, Busy, OpenNew
  <2>10. Serving'
    <3>1. CASE wpc' = "clear"
      BY <1>7, <3>1, <2>1, <2>2, NoneIsNone DEF Serving, Running, Serves, Settled, Busy, OpenNew
    <3>2. CASE wpc' = "failed"
      BY <1>7, <3>2, <2>2 DEF Serving, Running, Serves, Settled, Busy, OpenNew
    <3> QED BY <2>2, <3>1, <3>2
  <2>11. Belongs'
    <3>1. CASE wpc' = "clear"
      BY <1>7, <3>1, <2>1, <2>2, NoneIsNone DEF DescriptorType, Belongs, Held, OpenNew
    <3>2. CASE wpc' = "failed"
      BY <1>7, <3>2, <2>2 DEF Belongs, Held, OpenNew
    <3> QED BY <2>2, <3>1, <3>2
  <2>12. Standard'
    BY <1>7, <2>1, <2>2, OutputAssumption, NoneIsNone DEF DescriptorType, ControlType,
       Belongs, Standard, Threads, OpenNew
  <2>13. Loaded'
    BY <1>7 DEF ControlType, Threads, Loaded, Running, Busy, OpenNew
  <2> QED BY <1>b, <2>3, <2>4, <2>5, <2>6, <2>7, <2>8, <2>9, <2>10, <2>11, <2>12, <2>13
     DEF OutInv, TypeOK
<1>8. CASE ClearDestination
  <2>1. DescriptorType'
    BY <1>8 DEF DescriptorType, ClearDestination
  <2>2. TargetType'
    BY <1>8 DEF TargetType, ClearDestination, Addresses
  <2>3. Generation'
    BY <1>8 DEF Generation, ControlType, Busy, ClearDestination
  <2>4. RequestType'
    BY <1>8 DEF RequestType, Busy, ClearDestination
  <2>5. ControlType'
    BY <1>8 DEF ControlType, ClearDestination
  <2>6. FlagType'
    BY <1>8 DEF FlagType, ClearDestination
  <2>7. Reading'
    BY <1>8 DEF ControlType, Threads, Reading, Running, QuietCacheIsLive, InForce, Hit,
       Live, IsUdp, Busy, ClearDestination
  <2>8. Serving'
    BY <1>8 DEF ControlType, Serving, Running, Aim, Serves, Settled, Busy, ClearDestination
  <2>9. Belongs'
    BY <1>8 DEF DescriptorType, ControlType, Belongs, Loaded, Held, Busy,
       ClearDestination
  <2>10. Standard'
    BY <1>8 DEF DescriptorType, ControlType, Belongs, Standard, Threads,
       ClearDestination
  <2>11. Loaded'
    BY <1>8 DEF ControlType, Threads, Loaded, Running, Busy, ClearDestination
  <2> QED BY <1>b, <2>1, <2>2, <2>3, <2>4, <2>5, <2>6, <2>7, <2>8, <2>9, <2>10, <2>11
     DEF OutInv, TypeOK
<1>9. CASE FillDestination
  <2>1. DescriptorType'
    BY <1>9 DEF DescriptorType, FillDestination
  <2>2. TargetType'
    BY <1>9, OutputAssumption DEF TargetType, FillDestination, Addresses, RequestType,
       Busy, SocketTypes
  <2>3. Generation'
    BY <1>9 DEF Generation, ControlType, Busy, FillDestination
  <2>4. RequestType'
    BY <1>9 DEF RequestType, Busy, FillDestination
  <2>5. ControlType'
    BY <1>9 DEF ControlType, FillDestination
  <2>6. FlagType'
    BY <1>9 DEF FlagType, FillDestination
  <2>7. Reading'
    BY <1>9 DEF ControlType, Threads, Reading, Running, QuietCacheIsLive, InForce, Hit,
       Live, IsUdp, Busy, FillDestination
  <2>8. Serving'
    BY <1>9 DEF ControlType, RequestType, Serving, Running, Aim, Serves, Settled, Busy,
       FillDestination, TargetType
  <2>9. Belongs'
    BY <1>9 DEF DescriptorType, ControlType, Belongs, Loaded, Held, Busy,
       FillDestination
  <2>10. Standard'
    BY <1>9 DEF DescriptorType, ControlType, Belongs, Standard, Threads, FillDestination
  <2>11. Loaded'
    BY <1>9 DEF ControlType, Threads, Loaded, Running, Busy, FillDestination
  <2> QED BY <1>b, <2>1, <2>2, <2>3, <2>4, <2>5, <2>6, <2>7, <2>8, <2>9, <2>10, <2>11
     DEF OutInv, TypeOK
<1>10. CASE ApplyDone
  <2>1. /\ gen \in Nat /\ gen' \in Nat /\ gen' > gen /\ (Even(gen') <=> ~Even(gen))
        /\ cache.gen \in Nat
    BY <1>10, Parity DEF Generation, TargetType, ApplyDone
  <2>2. \/ /\ wpc' = "idle" /\ unsettled' = FALSE /\ rolling' = FALSE
           /\ cfg' = cfg /\ uri' = uri /\ old' \in {old, uri}
        \/ /\ wpc' = "call" /\ unsettled' = TRUE /\ rolling' = TRUE
           /\ cfg' = old /\ uri' = old /\ old' = old
    BY <1>10, GiveUpEffect DEF ApplyDone, FlagType
  <2>3. DescriptorType'
    BY <1>10 DEF DescriptorType, ApplyDone
  <2>4. TargetType'
    BY <1>10 DEF TargetType, ApplyDone
  <2>5. Generation'
    BY <1>10, <2>1, <2>2 DEF Generation, ControlType, Busy, ApplyDone
  <2>6. RequestType'
    BY <1>10, <2>1, <2>2 DEF RequestType, Busy, ApplyDone
  <2>7. ControlType'
    BY <1>10, <2>1, <2>2 DEF ControlType, ApplyDone
  <2>8. FlagType'
    BY <1>10, <2>1, <2>2 DEF FlagType, ApplyDone
  <2>9. Reading'
    BY <1>10, <2>1, <2>2 DEF ControlType, Threads, Reading, Running, QuietCacheIsLive,
       InForce, Hit, Live, IsUdp, Busy, ApplyDone
  <2>10. Serving'
    BY <1>10, <2>1, <2>2 DEF ControlType, Serving, Running, Aim, Serves, Settled, Busy,
       ApplyDone
  <2>11. Belongs'
    BY <1>10, <2>1, <2>2 DEF DescriptorType, ControlType, Belongs, Loaded, Held, Busy,
       ApplyDone
  <2>12. Standard'
    BY <1>10 DEF DescriptorType, ControlType, Belongs, Standard, Threads, ApplyDone
  <2>13. Loaded'
    BY <1>10, <2>1, <2>2 DEF ControlType, Threads, Loaded, Running, Busy, ApplyDone
  <2> QED BY <1>b, <2>3, <2>4, <2>5, <2>6, <2>7, <2>8, <2>9, <2>10, <2>11, <2>12, <2>13
     DEF OutInv, TypeOK
<1>11. CASE ApplyFailed
  <2>1. /\ gen \in Nat /\ gen' \in Nat /\ gen' > gen /\ (Even(gen') <=> ~Even(gen))
        /\ cache.gen \in Nat
    BY <1>11, Parity DEF Generation, TargetType, ApplyFailed
  <2>2. \/ /\ rolling /\ wpc' = "idle" /\ rolling' = FALSE
           /\ cfg' = cfg /\ uri' = uri /\ old' = old
        \/ /\ ~rolling /\ wpc' = "call" /\ rolling' = TRUE
           /\ cfg' = old /\ uri' = old /\ old' = old
    BY <1>11, GiveUpEffect DEF ApplyFailed
  <2>3. DescriptorType'
    BY <1>11 DEF DescriptorType, ApplyFailed
  <2>4. TargetType'
    BY <1>11 DEF TargetType, ApplyFailed
  <2>5. Generation'
    BY <1>11, <2>1, <2>2 DEF Generation, ControlType, Busy, ApplyFailed
  <2>6. RequestType'
    BY <1>11, <2>1, <2>2 DEF RequestType, Busy, ApplyFailed
  <2>7. ControlType'
    BY <1>11, <2>1, <2>2 DEF ControlType, ApplyFailed
  <2>8. FlagType'
    BY <1>11, <2>1, <2>2 DEF FlagType, ApplyFailed
  <2>9. Reading'
    BY <1>11, <2>1, <2>2 DEF ControlType, Threads, Reading, Running, QuietCacheIsLive,
       InForce, Hit, Live, IsUdp, Busy, ApplyFailed
  <2>10. Serving'
    BY <1>11, <2>1, <2>2 DEF ControlType, Serving, Running, Aim, Serves, Settled, Busy,
       ApplyFailed
  <2>11. Belongs'
    BY <1>11, <2>1, <2>2 DEF DescriptorType, ControlType, Belongs, Loaded, Held, Busy,
       ApplyFailed
  <2>12. Standard'
    BY <1>11 DEF DescriptorType, ControlType, Belongs, Standard, Threads, ApplyFailed
  <2>13. Loaded'
    BY <1>11, <2>1, <2>2 DEF ControlType, Threads, Loaded, Running, Busy, ApplyFailed
  <2> QED BY <1>b, <2>3, <2>4, <2>5, <2>6, <2>7, <2>8, <2>9, <2>10, <2>11, <2>12, <2>13
     DEF OutInv, TypeOK
<1>12. ASSUME NEW u \in Uris, SetServer(u) PROVE OutInv'
  <2>1. DescriptorType'
    BY <1>12 DEF DescriptorType, SetServer
  <2>2. TargetType'
    BY <1>12 DEF TargetType, SetServer
  <2>3. Generation'
    BY <1>12 DEF Generation, ControlType, Busy, SetServer
  <2>4. RequestType'
    BY <1>12, OutputAssumption DEF RequestType, Busy, SetServer
  <2>5. ControlType'
    BY <1>12 DEF ControlType, SetServer
  <2>6. FlagType'
    BY <1>12 DEF FlagType, SetServer
  <2>7. Reading'
    BY <1>12 DEF ControlType, Threads, Reading, Running, QuietCacheIsLive, InForce, Hit,
       Live, IsUdp, Busy, SetServer
  <2>8. Serving'
    BY <1>12 DEF ControlType, Serving, Running, Aim, Serves, Settled, Busy, SetServer
  <2>9. Belongs'
    BY <1>12 DEF DescriptorType, ControlType, Belongs, Loaded, Held, Busy, SetServer
  <2>10. Standard'
    BY <1>12 DEF DescriptorType, ControlType, Belongs, Standard, Threads, SetServer
  <2>11. Loaded'
    BY <1>12 DEF ControlType, Threads, Loaded, Running, Busy, SetServer
  <2> QED BY <1>b, <2>1, <2>2, <2>3, <2>4, <2>5, <2>6, <2>7, <2>8, <2>9, <2>10, <2>11
     DEF OutInv, TypeOK
<1> QED BY <1>1, <1>2, <1>3, <1>4, <1>5, <1>6, <1>7, <1>8, <1>9, <1>10, <1>11, <1>12 DEF
   HttpStep

\* The main thread's steps preserve the invariant.
LEMMA MainStepInv == OutInv /\ MainStep => OutInv'
<1> SUFFICES ASSUME OutInv, MainStep PROVE OutInv'
  OBVIOUS
<1>0. TypeOK /\ Threads /\ Reading /\ Serving /\ Belongs /\ Standard /\ Loaded
  BY DEF OutInv
<1> USE <1>0 DEF TypeOK, http, main, audio, rec, hist, sockets, notHttp, notMain, notAudio, notRec
<1>1. CASE OutputInit
  <2>1. FreeFds # {} =>
        /\ Lowest \in Fds /\ file[Lowest] = "free" /\ Open("net") \in [Fds -> Kinds]
        /\ \A f \in Fds : Open("net")[f] = IF f = Lowest THEN "net" ELSE file[f]
    BY OpenEffect DEF Kinds
  <2>2. /\ mpc = "init" /\ (straddle \/ (out.handle = None /\ ~Busy))
        /\ \/ FreeFds # {} /\ file' = Open("net") /\ out'.handle = Lowest
              /\ out'.transport = cfg.type /\ mpc' = "fill"
              /\ cfg.type \in SocketTypes
              /\ out' \in [handle : {Lowest}, transport : {cfg.type},
                           dst : {"none"}, dst_len : {"none"}]
           \/ /\ file' = file /\ mpc' \in {"side", "exit"} /\ out'.handle = None
              /\ mpc' = "side" => /\ cfg.type \in {"shm", "none"}
                                  /\ out'.transport = "shm" <=> cfg.type = "shm"
              /\ out' \in [handle : {None}, transport : {"udp", "shm"},
                           dst : {"none"}, dst_len : {"none"}]
    <3>1. mpc = "init" /\ (straddle \/ (out.handle = None /\ ~Busy))
      BY <1>1 DEF OutputInit, Loaded, Running
    <3>2. CASE cfg.type \in SocketTypes /\ FreeFds # {} /\ mpc' = "fill"
      BY <1>1, <3>1, <3>2 DEF OutputInit, Closed
    <3>3. CASE cfg.type = "shm" /\ mpc' = "side" /\ out' = [Closed EXCEPT !.transport = "shm"]
      BY <1>1, <3>1, <3>3 DEF OutputInit, Closed
    <3>4. CASE out' = Closed /\ mpc' = (IF cfg.type = "none" THEN "side" ELSE "exit")
      BY <1>1, <3>1, <3>4 DEF OutputInit, Closed
    <3> QED BY <1>1, <3>2, <3>3, <3>4 DEF OutputInit
  <2>3. DescriptorType'
    BY <1>1, <2>1, <2>2 DEF DescriptorType, OutputInit, Closed
  <2>4. TargetType'
    BY <1>1, <2>1, <2>2, OutputAssumption DEF TargetType, OutputInit, Closed, Handles,
       Addresses, RequestType, SocketTypes
  <2>5. Generation'
    BY <1>1 DEF Generation, ControlType, Busy, OutputInit, Closed, Even, Loaded, Running
  <2>6. RequestType'
    BY <1>1 DEF RequestType, Busy, OutputInit, Closed
  <2>7. ControlType'
    BY <1>1 DEF ControlType, OutputInit, Closed
  <2>8. FlagType'
    BY <1>1 DEF FlagType, OutputInit, Closed
  <2>9. Threads'
    BY <1>1 DEF ControlType, Threads, Running, OutputInit, Closed
  <2>10. Reading'
    BY <1>1 DEF ControlType, Threads, Reading, Running, QuietCacheIsLive, InForce, Hit,
       Live, IsUdp, Busy, OutputInit, Closed
  <2>11. Serving'
    <3>1. CASE mpc' = "exit"
      BY <1>1, <3>1 DEF Serving, Running, OutputInit
    <3>2. CASE mpc' = "fill"
      <4>1. Lowest # None
        BY <2>1, <2>2, <3>2, NoneIsNone
      <4> QED BY <1>1, <3>2, <4>1, <2>2 DEF Serving, Aim, Settled, Busy, OutputInit
    <3>3. CASE mpc' = "side"
      <4>1. ~Busy /\ cfg.type \notin SocketTypes
        BY <2>2, <3>3 DEF Serving, RequestType, SocketTypes, Busy
      <4> QED BY <1>1, <2>2, <3>3, <4>1 DEF Serving, Aim, Serves, Settled, Busy, OutputInit,
                                           SocketTypes
    <3> QED BY <2>2, <3>1, <3>2, <3>3
  <2>12. Belongs'
    BY <1>1, <2>1, <2>2, NoneIsNone DEF DescriptorType, ControlType, Belongs, Loaded,
       Held, Busy, OutputInit, Closed
  <2>13. Standard'
    BY <1>1, <2>1, <2>2, OutputAssumption, NoneIsNone DEF DescriptorType, ControlType,
       Belongs, Standard, Threads, OutputInit, Closed
  <2>14. Loaded'
    BY <1>1, <2>1, <2>2 DEF ControlType, Threads, Loaded, Running, Busy, OutputInit,
       Closed
  <2> QED BY <2>3, <2>4, <2>5, <2>6, <2>7, <2>8, <2>9, <2>10, <2>11, <2>12, <2>13, <2>14
     DEF OutInv, TypeOK
<1>2. CASE OutputFill
  <2>1. \/ /\ out' = [out EXCEPT !.dst = server.addr, !.dst_len = server.type]
           /\ gen' = gen + 2 /\ mpc' = "side"
        \/ out' = out /\ gen' = gen /\ mpc' = "exit"
    BY <1>2 DEF OutputFill
  <2>2. /\ out'.handle = out.handle /\ out'.transport = out.transport
        /\ mpc' = "side" => out'.dst = server.addr /\ out'.dst_len = server.type
    BY <2>1 DEF TargetType
  <2>3. /\ server.type \in {"udp", "unix"} /\ server.type \in SocketTypes
        /\ server.addr \in Addresses
    BY <1>2, OutputAssumption DEF RequestType, Addresses, SocketTypes, OutputFill
  <2>4. DescriptorType'
    BY <1>2 DEF DescriptorType, OutputFill
  <2>5. TargetType'
    <3>1. out' \in [handle : Handles, transport : {"udp", "unix", "shm"}, dst : Addresses,
                     dst_len : {"udp", "unix", "none"}]
      BY <2>1, <2>3 DEF TargetType
    <3> QED BY <1>2, <3>1 DEF TargetType, OutputFill
  <2>6. Generation'
    BY <1>2, Parity DEF Generation, ControlType, Busy, OutputFill
  <2>7. RequestType'
    BY <1>2 DEF RequestType, Busy, OutputFill
  <2>8. ControlType'
    BY <1>2 DEF ControlType, OutputFill
  <2>9. FlagType'
    BY <1>2 DEF FlagType, OutputFill
  <2>10. Threads'
    BY <1>2 DEF ControlType, Threads, Running, OutputFill
  <2>11. Reading'
    BY <1>2, Parity DEF ControlType, Threads, Reading, Running, QuietCacheIsLive,
       InForce, Hit, Live, IsUdp, Busy, OutputFill, Generation, TargetType
  <2>12. Serving'
    <3>1. CASE mpc' = "exit"
      BY <1>2, <2>1, <2>2, <3>1 DEF Serving, Running, OutputFill
    <3>2. CASE mpc' = "side"
      BY <1>2, <2>1, <2>2, <2>3, <3>2 DEF Serving, Running, Aim, Serves, Settled, Busy,
         OutputFill
    <3> QED BY <2>1, <3>1, <3>2
  <2>13. Belongs'
    BY <1>2, <2>1, <2>2, <2>3 DEF DescriptorType, ControlType, Belongs, Loaded, Held,
       Busy, OutputFill
  <2>14. Standard'
    BY <1>2 DEF DescriptorType, ControlType, Belongs, Standard, Threads, OutputFill
  <2>15. Loaded'
    BY <1>2 DEF ControlType, Threads, Loaded, Running, Busy, OutputFill
  <2> QED BY <2>4, <2>5, <2>6, <2>7, <2>8, <2>9, <2>10, <2>11, <2>12, <2>13, <2>14,
     <2>15 DEF OutInv, TypeOK
<1>3. CASE SidecarInit
  <2>1. FreeFds # {} =>
        /\ Lowest \in Fds /\ file[Lowest] = "free" /\ Open("side") \in [Fds -> Kinds]
        /\ \A f \in Fds : Open("side")[f] = IF f = Lowest THEN "side" ELSE file[f]
    BY OpenEffect DEF Kinds
  <2>2. DescriptorType'
    BY <1>3, <2>1 DEF DescriptorType, SidecarInit, Handles
  <2>3. TargetType'
    BY <1>3 DEF TargetType, SidecarInit
  <2>4. Generation'
    BY <1>3 DEF Generation, ControlType, Busy, SidecarInit
  <2>5. RequestType'
    BY <1>3 DEF RequestType, Busy, SidecarInit
  <2>6. ControlType'
    BY <1>3 DEF ControlType, SidecarInit
  <2>7. FlagType'
    BY <1>3 DEF FlagType, SidecarInit
  <2>8. Threads'
    BY <1>3, NoneIsNone DEF ControlType, Threads, Running, SidecarInit
  <2>9. Reading'
    BY <1>3 DEF ControlType, Threads, Reading, Running, QuietCacheIsLive, InForce, Hit,
       Live, IsUdp, Busy, SidecarInit
  <2>10. Serving'
    BY <1>3 DEF ControlType, Serving, Running, Aim, Serves, Settled, Busy, SidecarInit
  <2>11. Belongs'
    BY <1>3, <2>1, NoneIsNone DEF DescriptorType, ControlType, Belongs, Loaded, Held,
       Busy, SidecarInit, Threads
  <2>12. Standard'
    BY <1>3, <2>1, OutputAssumption, NoneIsNone DEF DescriptorType, ControlType,
       Belongs, Standard, Threads, SidecarInit
  <2>13. Loaded'
    BY <1>3 DEF ControlType, Threads, Loaded, Running, Busy, SidecarInit
  <2> QED BY <2>2, <2>3, <2>4, <2>5, <2>6, <2>7, <2>8, <2>9, <2>10, <2>11, <2>12, <2>13
     DEF OutInv, TypeOK
<1>4. CASE AudioInit
  <2>1. FreeFds # {} =>
        /\ Lowest \in Fds /\ file[Lowest] = "free" /\ Open("audio") \in [Fds -> Kinds]
        /\ \A f \in Fds : Open("audio")[f] = IF f = Lowest THEN "audio" ELSE file[f]
    BY OpenEffect DEF Kinds
  <2>2. DescriptorType'
    BY <1>4, <2>1 DEF DescriptorType, AudioInit, Handles
  <2>3. TargetType'
    BY <1>4 DEF TargetType, AudioInit
  <2>4. Generation'
    BY <1>4 DEF Generation, ControlType, Busy, AudioInit
  <2>5. RequestType'
    BY <1>4 DEF RequestType, Busy, AudioInit
  <2>6. ControlType'
    BY <1>4 DEF ControlType, AudioInit
  <2>7. FlagType'
    BY <1>4 DEF FlagType, AudioInit
  <2>8. Threads'
    BY <1>4 DEF ControlType, Threads, Running, AudioInit
  <2>9. Reading'
    BY <1>4, NoneIsNone DEF ControlType, Threads, Reading, Running, QuietCacheIsLive,
       InForce, Hit, Live, IsUdp, Busy, AudioInit
  <2>10. Serving'
    BY <1>4 DEF ControlType, Serving, Running, Aim, Serves, Settled, Busy, AudioInit
  <2>11. Belongs'
    BY <1>4, <2>1, NoneIsNone DEF DescriptorType, ControlType, Belongs, Loaded, Held,
       Busy, AudioInit, Threads, Running
  <2>12. Standard'
    BY <1>4, <2>1, OutputAssumption, NoneIsNone DEF DescriptorType, ControlType,
       Belongs, Standard, Threads, AudioInit
  <2>13. Loaded'
    BY <1>4 DEF ControlType, Threads, Loaded, Running, Busy, AudioInit
  <2> QED BY <2>2, <2>3, <2>4, <2>5, <2>6, <2>7, <2>8, <2>9, <2>10, <2>11, <2>12, <2>13
     DEF OutInv, TypeOK
<1>5. CASE ControlsBind
  <2>1. DescriptorType'
    BY <1>5 DEF DescriptorType, ControlsBind
  <2>2. TargetType'
    BY <1>5 DEF TargetType, ControlsBind
  <2>3. Generation'
    BY <1>5 DEF Generation, ControlType, Busy, ControlsBind
  <2>4. RequestType'
    BY <1>5 DEF RequestType, Busy, ControlsBind
  <2>5. ControlType'
    BY <1>5 DEF ControlType, ControlsBind
  <2>6. FlagType'
    BY <1>5 DEF FlagType, ControlsBind
  <2>7. Threads'
    BY <1>5 DEF ControlType, Threads, Running, ControlsBind
  <2>8. Reading'
    BY <1>5 DEF ControlType, Threads, Reading, Running, QuietCacheIsLive, InForce, Hit,
       Live, IsUdp, Busy, ControlsBind
  <2>9. Serving'
    BY <1>5 DEF ControlType, Serving, Running, Aim, Serves, Settled, Busy, ControlsBind
  <2>10. Belongs'
    BY <1>5 DEF DescriptorType, ControlType, Belongs, Loaded, Held, Busy, ControlsBind
  <2>11. Standard'
    BY <1>5 DEF DescriptorType, ControlType, Belongs, Standard, Threads, ControlsBind
  <2>12. Loaded'
    BY <1>5 DEF ControlType, Threads, Loaded, Running, Busy, ControlsBind
  <2> QED BY <2>1, <2>2, <2>3, <2>4, <2>5, <2>6, <2>7, <2>8, <2>9, <2>10, <2>11, <2>12
     DEF OutInv, TypeOK
<1>6. CASE StartDual
  <2>1. FreeFds # {} =>
        /\ Lowest \in Fds /\ file[Lowest] = "free" /\ Open("dual") \in [Fds -> Kinds]
        /\ \A f \in Fds : Open("dual")[f] = IF f = Lowest THEN "dual" ELSE file[f]
    BY OpenEffect DEF Kinds
  <2>2. DescriptorType'
    BY <1>6, <2>1, SecondFree, OutputAssumption, NoneIsNone DEF DescriptorType,
       StartDual, Handles, NoDual, Kinds, FreeFds
  <2>3. TargetType'
    BY <1>6 DEF TargetType, StartDual
  <2>4. Generation'
    BY <1>6 DEF Generation, ControlType, Busy, StartDual
  <2>5. RequestType'
    BY <1>6 DEF RequestType, Busy, StartDual
  <2>6. ControlType'
    BY <1>6 DEF ControlType, StartDual
  <2>7. FlagType'
    BY <1>6 DEF FlagType, StartDual
  <2>8. Threads'
    BY <1>6 DEF ControlType, Threads, Running, StartDual, NoDual
  <2>9. Reading'
    BY <1>6 DEF ControlType, Threads, Reading, Running, QuietCacheIsLive, InForce, Hit,
       Live, IsUdp, Busy, StartDual
  <2>10. Serving'
    BY <1>6 DEF ControlType, Serving, Running, Aim, Serves, Settled, Busy, StartDual
  <2>11. Belongs'
    BY <1>6, <2>1, SecondFree, NoneIsNone DEF DescriptorType, ControlType, Belongs,
       Loaded, Held, Busy, StartDual, NoDual, Threads, Standard, FreeFds
  <2>12. Standard'
    BY <1>6, <2>1, SecondFree, OutputAssumption, NoneIsNone DEF DescriptorType,
       ControlType, Belongs, Standard, Threads, StartDual, NoDual, FreeFds
  <2>13. Loaded'
    BY <1>6 DEF ControlType, Threads, Loaded, Running, Busy, StartDual, NoDual
  <2> QED BY <2>2, <2>3, <2>4, <2>5, <2>6, <2>7, <2>8, <2>9, <2>10, <2>11, <2>12, <2>13
     DEF OutInv, TypeOK
<1>7. CASE MainLoad
  <2>1. DescriptorType'
    BY <1>7 DEF DescriptorType, MainLoad, TargetType
  <2>2. TargetType'
    BY <1>7 DEF TargetType, MainLoad
  <2>3. Generation'
    BY <1>7 DEF Generation, ControlType, Busy, MainLoad
  <2>4. RequestType'
    BY <1>7 DEF RequestType, Busy, MainLoad
  <2>5. ControlType'
    BY <1>7 DEF ControlType, MainLoad
  <2>6. FlagType'
    BY <1>7 DEF FlagType, MainLoad
  <2>7. Threads'
    BY <1>7 DEF ControlType, Threads, Running, MainLoad
  <2>8. Reading'
    BY <1>7 DEF ControlType, Threads, Reading, Running, QuietCacheIsLive, InForce, Hit,
       Live, IsUdp, Busy, MainLoad
  <2>9. Serving'
    BY <1>7 DEF ControlType, Serving, Running, Aim, Serves, Settled, Busy, MainLoad
  <2>10. Belongs'
    BY <1>7 DEF DescriptorType, ControlType, Belongs, Loaded, Held, Busy, MainLoad
  <2>11. Standard'
    BY <1>7 DEF DescriptorType, ControlType, Belongs, Standard, Threads, MainLoad
  <2>12. Loaded'
    BY <1>7 DEF ControlType, Threads, Loaded, Running, Busy, MainLoad
  <2> QED BY <2>1, <2>2, <2>3, <2>4, <2>5, <2>6, <2>7, <2>8, <2>9, <2>10, <2>11, <2>12
     DEF OutInv, TypeOK
<1>8. CASE MainSend
  <2>1. DescriptorType'
    BY <1>8 DEF DescriptorType, MainSend, Handles
  <2>2. TargetType'
    BY <1>8 DEF TargetType, MainSend
  <2>3. Generation'
    BY <1>8 DEF Generation, ControlType, Busy, MainSend
  <2>4. RequestType'
    BY <1>8 DEF RequestType, Busy, MainSend
  <2>5. ControlType'
    BY <1>8 DEF ControlType, MainSend
  <2>6. FlagType'
    BY <1>8 DEF FlagType, MainSend
  <2>7. Threads'
    BY <1>8 DEF ControlType, Threads, Running, MainSend
  <2>8. Reading'
    BY <1>8 DEF ControlType, Threads, Reading, Running, QuietCacheIsLive, InForce, Hit,
       Live, IsUdp, Busy, MainSend
  <2>9. Serving'
    BY <1>8 DEF ControlType, Serving, Running, Aim, Serves, Settled, Busy, MainSend
  <2>10. Belongs'
    BY <1>8 DEF DescriptorType, ControlType, Belongs, Loaded, Held, Busy, MainSend
  <2>11. Standard'
    BY <1>8 DEF DescriptorType, ControlType, Belongs, Standard, Threads, MainSend
  <2>12. Loaded'
    BY <1>8 DEF ControlType, Threads, Loaded, Running, Busy, MainSend
  <2> QED BY <2>1, <2>2, <2>3, <2>4, <2>5, <2>6, <2>7, <2>8, <2>9, <2>10, <2>11, <2>12
     DEF OutInv, TypeOK
<1>9. CASE ControlsReset
  <2>1. DescriptorType'
    BY <1>9 DEF DescriptorType, ControlsReset
  <2>2. TargetType'
    BY <1>9 DEF TargetType, ControlsReset
  <2>3. Generation'
    BY <1>9 DEF Generation, ControlType, Busy, ControlsReset
  <2>4. RequestType'
    BY <1>9, OutputAssumption DEF RequestType, Busy, ControlsReset
  <2>5. ControlType'
    BY <1>9 DEF ControlType, ControlsReset
  <2>6. FlagType'
    BY <1>9 DEF FlagType, ControlsReset, Busy
  <2>7. Threads'
    BY <1>9, OutputAssumption DEF ControlType, Threads, Running, ControlsReset,
       RequestType
  <2>8. Reading'
    BY <1>9 DEF ControlType, Threads, Reading, Running, QuietCacheIsLive, InForce, Hit,
       Live, IsUdp, Busy, ControlsReset
  <2>9. Serving'
    BY <1>9 DEF ControlType, Serving, Running, Aim, Serves, Settled, Busy, ControlsReset
  <2>10. Belongs'
    BY <1>9 DEF DescriptorType, ControlType, Belongs, Loaded, Held, Busy, ControlsReset
  <2>11. Standard'
    BY <1>9 DEF DescriptorType, ControlType, Belongs, Standard, Threads, ControlsReset
  <2>12. Loaded'
    BY <1>9 DEF ControlType, Threads, Loaded, Running, Busy, ControlsReset
  <2> QED BY <2>1, <2>2, <2>3, <2>4, <2>5, <2>6, <2>7, <2>8, <2>9, <2>10, <2>11, <2>12
     DEF OutInv, TypeOK
<1>10. CASE JoinAudio
  <2>1. /\ Close(aud) \in [Fds -> Kinds]
        /\ \A f \in Fds : Close(aud)[f] = IF f = aud THEN "free" ELSE file[f]
    BY CloseEffect DEF DescriptorType
  <2>2. DescriptorType'
    BY <1>10, <2>1 DEF DescriptorType, JoinAudio, Empty, NoCopy, Handles
  <2>3. TargetType'
    BY <1>10 DEF TargetType, JoinAudio, Empty, NoCopy, Handles, Targets, Addresses
  <2>4. Generation'
    BY <1>10 DEF Generation, ControlType, Busy, JoinAudio, Empty, NoCopy
  <2>5. RequestType'
    BY <1>10 DEF RequestType, Busy, JoinAudio, Empty, NoCopy
  <2>6. ControlType'
    BY <1>10 DEF ControlType, JoinAudio, Empty, NoCopy
  <2>7. FlagType'
    BY <1>10 DEF FlagType, JoinAudio, Empty, NoCopy
  <2>8. Threads'
    BY <1>10 DEF ControlType, Threads, Running, JoinAudio, Empty, NoCopy
  <2>9. Reading'
    BY <1>10 DEF ControlType, Threads, Reading, Running, QuietCacheIsLive, InForce, Hit,
       Live, IsUdp, Busy, JoinAudio, Empty, NoCopy
  <2>10. Serving'
    BY <1>10 DEF ControlType, Serving, Running, Aim, Serves, Settled, Busy, JoinAudio, Empty,
       NoCopy
  <2>11. Belongs'
    BY <1>10, <2>1, NoneIsNone DEF DescriptorType, ControlType, Belongs, Loaded, Held,
       Busy, JoinAudio, Empty, NoCopy
  <2>12. Standard'
    BY <1>10, <2>1, OutputAssumption, NoneIsNone DEF DescriptorType, ControlType,
       Belongs, Standard, Threads, JoinAudio, Empty, NoCopy
  <2>13. Loaded'
    BY <1>10 DEF ControlType, Threads, Loaded, Running, Busy, JoinAudio, Empty, NoCopy
  <2> QED BY <2>2, <2>3, <2>4, <2>5, <2>6, <2>7, <2>8, <2>9, <2>10, <2>11, <2>12, <2>13
     DEF OutInv, TypeOK
<1>11. CASE CloseOutput
  <2>1. /\ Close(out.handle) \in [Fds -> Kinds]
        /\ \A f \in Fds : Close(out.handle)[f] = IF f = out.handle THEN "free" ELSE file[f]
    BY CloseEffect DEF TargetType
  <2>2. DescriptorType'
    BY <1>11, <2>1 DEF DescriptorType, CloseOutput
  <2>3. TargetType'
    BY <1>11 DEF TargetType, CloseOutput
  <2>4. Generation'
    BY <1>11 DEF Generation, ControlType, Busy, CloseOutput
  <2>5. RequestType'
    BY <1>11 DEF RequestType, Busy, CloseOutput
  <2>6. ControlType'
    BY <1>11 DEF ControlType, CloseOutput
  <2>7. FlagType'
    BY <1>11 DEF FlagType, CloseOutput
  <2>8. Threads'
    BY <1>11 DEF ControlType, Threads, Running, CloseOutput
  <2>9. Reading'
    BY <1>11 DEF ControlType, Threads, Reading, Running, QuietCacheIsLive, InForce, Hit,
       Live, IsUdp, Busy, CloseOutput
  <2>10. Serving'
    BY <1>11 DEF ControlType, Serving, Running, Aim, Serves, Settled, Busy, CloseOutput
  <2>11. Belongs'
    BY <1>11, <2>1, NoneIsNone DEF DescriptorType, ControlType, Belongs, Loaded, Held,
       Busy, CloseOutput, TargetType, Running
  <2>12. Standard'
    BY <1>11, <2>1, OutputAssumption, NoneIsNone DEF DescriptorType, ControlType,
       Belongs, Standard, Threads, CloseOutput, Loaded, Held, Busy, Running
  <2>13. Loaded'
    BY <1>11 DEF ControlType, Threads, Loaded, Running, Busy, CloseOutput
  <2> QED BY <2>2, <2>3, <2>4, <2>5, <2>6, <2>7, <2>8, <2>9, <2>10, <2>11, <2>12, <2>13
     DEF OutInv, TypeOK
<1>12. CASE ClearOutput
  <2>1. DescriptorType'
    BY <1>12 DEF DescriptorType, ClearOutput, Closed
  <2>2. TargetType'
    BY <1>12 DEF TargetType, ClearOutput, Closed, Handles, Addresses
  <2>3. Generation'
    BY <1>12 DEF Generation, ControlType, Busy, ClearOutput, Closed
  <2>4. RequestType'
    BY <1>12 DEF RequestType, Busy, ClearOutput, Closed
  <2>5. ControlType'
    BY <1>12 DEF ControlType, ClearOutput, Closed
  <2>6. FlagType'
    BY <1>12 DEF FlagType, ClearOutput, Closed
  <2>7. Threads'
    BY <1>12 DEF ControlType, Threads, Running, ClearOutput, Closed
  <2>8. Reading'
    BY <1>12 DEF ControlType, Threads, Reading, Running, QuietCacheIsLive, InForce, Hit,
       Live, IsUdp, Busy, ClearOutput, Closed
  <2>9. Serving'
    BY <1>12 DEF ControlType, Serving, Running, Aim, Serves, Settled, Busy, ClearOutput, Closed
  <2>10. Belongs'
    BY <1>12, NoneIsNone DEF DescriptorType, ControlType, Belongs, Loaded, Held, Busy,
       ClearOutput, Closed, Handles
  <2>11. Standard'
    BY <1>12 DEF DescriptorType, ControlType, Belongs, Standard, Threads, ClearOutput,
       Closed
  <2>12. Loaded'
    BY <1>12 DEF ControlType, Threads, Loaded, Running, Busy, ClearOutput, Closed
  <2> QED BY <2>1, <2>2, <2>3, <2>4, <2>5, <2>6, <2>7, <2>8, <2>9, <2>10, <2>11, <2>12
     DEF OutInv, TypeOK
<1>13. CASE CloseDual
  <2>1. /\ Close(dual.handle) \in [Fds -> Kinds]
        /\ \A f \in Fds : Close(dual.handle)[f] = IF f = dual.handle THEN "free" ELSE file[f]
    BY CloseEffect DEF DescriptorType
  <2>2. DescriptorType'
    BY <1>13, <2>1 DEF DescriptorType, CloseDual, Handles
  <2>3. TargetType'
    BY <1>13 DEF TargetType, CloseDual
  <2>4. Generation'
    BY <1>13 DEF Generation, ControlType, Busy, CloseDual
  <2>5. RequestType'
    BY <1>13 DEF RequestType, Busy, CloseDual
  <2>6. ControlType'
    BY <1>13 DEF ControlType, CloseDual
  <2>7. FlagType'
    BY <1>13 DEF FlagType, CloseDual
  <2>8. Threads'
    BY <1>13 DEF ControlType, Threads, Running, CloseDual
  <2>9. Reading'
    BY <1>13 DEF ControlType, Threads, Reading, Running, QuietCacheIsLive, InForce, Hit,
       Live, IsUdp, Busy, CloseDual
  <2>10. Serving'
    BY <1>13 DEF ControlType, Serving, Running, Aim, Serves, Settled, Busy, CloseDual
  <2>11. Belongs'
    BY <1>13, <2>1, NoneIsNone DEF DescriptorType, ControlType, Belongs, Loaded, Held,
       Busy, CloseDual, Standard
  <2>12. Standard'
    BY <1>13, <2>1, OutputAssumption, NoneIsNone DEF DescriptorType, ControlType,
       Belongs, Standard, Threads, CloseDual
  <2>13. Loaded'
    BY <1>13 DEF ControlType, Threads, Loaded, Running, Busy, CloseDual
  <2> QED BY <2>2, <2>3, <2>4, <2>5, <2>6, <2>7, <2>8, <2>9, <2>10, <2>11, <2>12, <2>13
     DEF OutInv, TypeOK
<1>14. CASE JoinRec
  <2>1. DescriptorType'
    BY <1>14 DEF DescriptorType, JoinRec, NoDual, Handles
  <2>2. TargetType'
    BY <1>14 DEF TargetType, JoinRec, NoDual
  <2>3. Generation'
    BY <1>14 DEF Generation, ControlType, Busy, JoinRec, NoDual
  <2>4. RequestType'
    BY <1>14 DEF RequestType, Busy, JoinRec, NoDual
  <2>5. ControlType'
    BY <1>14 DEF ControlType, JoinRec, NoDual
  <2>6. FlagType'
    BY <1>14 DEF FlagType, JoinRec, NoDual
  <2>7. Threads'
    BY <1>14 DEF ControlType, Threads, Running, JoinRec, NoDual
  <2>8. Reading'
    BY <1>14 DEF ControlType, Threads, Reading, Running, QuietCacheIsLive, InForce, Hit,
       Live, IsUdp, Busy, JoinRec, NoDual
  <2>9. Serving'
    BY <1>14 DEF ControlType, Serving, Running, Aim, Serves, Settled, Busy, JoinRec, NoDual
  <2>10. Belongs'
    BY <1>14, NoneIsNone DEF DescriptorType, ControlType, Belongs, Loaded, Held, Busy,
       JoinRec, NoDual, Threads
  <2>11. Standard'
    BY <1>14 DEF DescriptorType, ControlType, Belongs, Standard, Threads, JoinRec,
       NoDual
  <2>12. Loaded'
    BY <1>14 DEF ControlType, Threads, Loaded, Running, Busy, JoinRec, NoDual
  <2> QED BY <2>1, <2>2, <2>3, <2>4, <2>5, <2>6, <2>7, <2>8, <2>9, <2>10, <2>11, <2>12
     DEF OutInv, TypeOK
<1>15. CASE OutputReset
  <2>1. /\ Close(side) \in [Fds -> Kinds]
        /\ \A f \in Fds : Close(side)[f] = IF f = side THEN "free" ELSE file[f]
    BY CloseEffect DEF DescriptorType
  <2>2. DescriptorType'
    BY <1>15, <2>1 DEF DescriptorType, OutputReset, Closed, Handles
  <2>3. TargetType'
    BY <1>15 DEF TargetType, OutputReset, Closed, Handles, Addresses
  <2>4. Generation'
    BY <1>15 DEF Generation, ControlType, Busy, OutputReset, Closed, Even, Loaded,
       Running
  <2>5. RequestType'
    BY <1>15 DEF RequestType, Busy, OutputReset, Closed
  <2>6. ControlType'
    BY <1>15 DEF ControlType, OutputReset, Closed
  <2>7. FlagType'
    BY <1>15 DEF FlagType, OutputReset, Closed
  <2>8. Threads'
    BY <1>15 DEF ControlType, Threads, Running, OutputReset, Closed
  <2>9. Reading'
    BY <1>15 DEF ControlType, Threads, Reading, Running, QuietCacheIsLive, InForce, Hit,
       Live, IsUdp, Busy, OutputReset, Closed
  <2>10. Serving'
    BY <1>15 DEF ControlType, Serving, Running, Aim, Serves, Settled, Busy, OutputReset, Closed
  <2>11. Belongs'
    BY <1>15, <2>1, NoneIsNone DEF DescriptorType, ControlType, Belongs, Loaded, Held,
       Busy, OutputReset, Closed, Handles
  <2>12. Standard'
    BY <1>15, <2>1, OutputAssumption, NoneIsNone DEF DescriptorType, ControlType,
       Belongs, Standard, Threads, OutputReset, Closed
  <2>13. Loaded'
    BY <1>15 DEF ControlType, Threads, Loaded, Running, Busy, OutputReset, Closed
  <2> QED BY <2>2, <2>3, <2>4, <2>5, <2>6, <2>7, <2>8, <2>9, <2>10, <2>11, <2>12, <2>13
     DEF OutInv, TypeOK
<1> QED BY <1>1, <1>2, <1>3, <1>4, <1>5, <1>6, <1>7, <1>8, <1>9, <1>10, <1>11, <1>12,
   <1>13, <1>14, <1>15 DEF MainStep

\* The audio thread's steps preserve the invariant.
LEMMA AudioStepInv == OutInv /\ AudioStep => OutInv'
<1> SUFFICES ASSUME OutInv, AudioStep PROVE OutInv'
  OBVIOUS
<1>0. TypeOK /\ Threads /\ Reading /\ Serving /\ Belongs /\ Standard /\ Loaded
  BY DEF OutInv
<1> USE <1>0 DEF TypeOK, http, main, audio, rec, hist, sockets, notHttp, notMain, notAudio, notRec
<1>a. /\ UNCHANGED <<file, gen, out, cfg, wpc, uri, old, rolling, conn, applies, mpc, mh,
                    server, ctl, side, dual, reinits, stopping, port_override, aud, recpc,
                    rh, straddle, early, unsettled>>
      /\ "main" \in racy' <=> "main" \in racy
  BY DEF AudioStep, ResolveHit, ResolveMiss, CheckTarget, CopyHandle, CheckKind,
     CopyDestination, StoreCache, AudioSend, Call
<1>b. DescriptorType' /\ Generation' /\ RequestType' /\ Serving' /\ Belongs' /\ Standard' /\ Loaded'
  <2>1. DescriptorType'
    BY <1>a DEF DescriptorType
  <2>2. Generation'
    BY <1>a DEF Generation, Busy
  <2>3. RequestType'
    BY <1>a DEF RequestType, Busy
  <2>4. Serving'
    BY <1>a DEF Serving, Aim, Serves, Settled, Busy
  <2>5. Belongs'
    BY <1>a DEF Belongs, Held
  <2>6. Standard'
    BY <1>a DEF Standard
  <2>7. Loaded'
    BY <1>a DEF Loaded, Busy
  <2> QED BY <2>1, <2>2, <2>3, <2>4, <2>5, <2>6, <2>7
<1>1. CASE ResolveHit
  <2>1. TargetType'
    BY <1>1 DEF TargetType, ResolveHit, Call
  <2>2. ControlType'
    BY <1>1 DEF ControlType, ResolveHit, Call
  <2>3. FlagType'
    BY <1>1 DEF FlagType, ResolveHit, Call
  <2>4. Threads'
    BY <1>1 DEF ControlType, Threads, Running, ResolveHit, Call
  <2>5. Reading'
    BY <1>1 DEF ControlType, Threads, Reading, Running, QuietCacheIsLive, InForce, Hit,
       Live, IsUdp, Busy, ResolveHit, Call, TargetType, Targets
  <2> QED BY <1>b, <2>1, <2>2, <2>3, <2>4, <2>5 DEF OutInv, TypeOK
<1>2. CASE ResolveMiss
  <2>1. TargetType'
    BY <1>2 DEF TargetType, ResolveMiss, Call
  <2>2. ControlType'
    BY <1>2 DEF ControlType, ResolveMiss, Call
  <2>3. FlagType'
    BY <1>2 DEF FlagType, ResolveMiss, Call, Busy
  <2>4. Threads'
    BY <1>2 DEF ControlType, Threads, Running, ResolveMiss, Call
  <2>5. Reading'
    BY <1>2 DEF ControlType, Threads, Reading, Running, QuietCacheIsLive, InForce, Hit,
       Live, IsUdp, Busy, ResolveMiss, Call, TargetType, Targets
  <2> QED BY <1>b, <2>1, <2>2, <2>3, <2>4, <2>5 DEF OutInv, TypeOK
<1>3. CASE CheckTarget
  <2>1. TargetType'
    BY <1>3 DEF TargetType, CheckTarget
  <2>2. ControlType'
    BY <1>3 DEF ControlType, CheckTarget
  <2>3. FlagType'
    BY <1>3 DEF FlagType, CheckTarget
  <2>4. Threads'
    BY <1>3 DEF ControlType, Threads, Running, CheckTarget
  <2>5. Reading'
    BY <1>3 DEF ControlType, Threads, Reading, Running, QuietCacheIsLive, InForce, Hit,
       Live, IsUdp, Busy, CheckTarget, TargetType, Targets
  <2> QED BY <1>b, <2>1, <2>2, <2>3, <2>4, <2>5 DEF OutInv, TypeOK
<1>4. CASE CopyHandle
  <2>1. TargetType'
    BY <1>4 DEF TargetType, CopyHandle, Targets, DescriptorType
  <2>2. ControlType'
    BY <1>4 DEF ControlType, CopyHandle
  <2>3. FlagType'
    BY <1>4 DEF FlagType, CopyHandle
  <2>4. Threads'
    BY <1>4 DEF ControlType, Threads, Running, CopyHandle
  <2>5. Reading'
    BY <1>4 DEF ControlType, Threads, Reading, Running, QuietCacheIsLive, InForce, Hit,
       Live, IsUdp, Busy, CopyHandle, TargetType, Targets
  <2> QED BY <1>b, <2>1, <2>2, <2>3, <2>4, <2>5 DEF OutInv, TypeOK
<1>5. CASE CheckKind
  <2>1. TargetType'
    BY <1>5 DEF TargetType, CheckKind, Targets
  <2>2. ControlType'
    BY <1>5 DEF ControlType, CheckKind
  <2>3. FlagType'
    BY <1>5 DEF FlagType, CheckKind
  <2>4. Threads'
    BY <1>5 DEF ControlType, Threads, Running, CheckKind
  <2>5. Reading'
    BY <1>5 DEF ControlType, Threads, Reading, Running, QuietCacheIsLive, InForce, Hit,
       Live, IsUdp, Busy, CheckKind, TargetType, Targets
  <2> QED BY <1>b, <2>1, <2>2, <2>3, <2>4, <2>5 DEF OutInv, TypeOK
<1>6. CASE CopyDestination
  <2>1. TargetType'
    BY <1>6 DEF TargetType, CopyDestination, Targets
  <2>2. ControlType'
    BY <1>6 DEF ControlType, CopyDestination
  <2>3. FlagType'
    BY <1>6 DEF FlagType, CopyDestination
  <2>4. Threads'
    BY <1>6 DEF ControlType, Threads, Running, CopyDestination
  <2>5. Reading'
    BY <1>6 DEF ControlType, Threads, Reading, Running, QuietCacheIsLive, InForce, Hit,
       Live, IsUdp, Busy, CopyDestination, TargetType, Targets
  <2> QED BY <1>b, <2>1, <2>2, <2>3, <2>4, <2>5 DEF OutInv, TypeOK
<1>7. CASE StoreCache
  <2>1. TargetType'
    BY <1>7 DEF TargetType, StoreCache, Generation
  <2>2. ControlType'
    BY <1>7 DEF ControlType, StoreCache
  <2>3. FlagType'
    BY <1>7 DEF FlagType, StoreCache
  <2>4. Threads'
    BY <1>7 DEF ControlType, Threads, Running, StoreCache
  <2>5. Reading'
    BY <1>7 DEF ControlType, Threads, Reading, Running, QuietCacheIsLive, InForce, Hit,
       Live, IsUdp, Busy, StoreCache, TargetType, Targets, Generation, Even
  <2> QED BY <1>b, <2>1, <2>2, <2>3, <2>4, <2>5 DEF OutInv, TypeOK
<1>8. CASE AudioSend
  <2>1. TargetType'
    BY <1>8 DEF TargetType, AudioSend, NoCopy, Targets, Handles, Addresses
  <2>2. ControlType'
    BY <1>8 DEF ControlType, AudioSend, NoCopy
  <2>3. FlagType'
    BY <1>8 DEF FlagType, AudioSend, NoCopy
  <2>4. Threads'
    BY <1>8 DEF ControlType, Threads, Running, AudioSend, NoCopy
  <2>5. Reading'
    BY <1>8 DEF ControlType, Threads, Reading, Running, QuietCacheIsLive, InForce, Hit,
       Live, IsUdp, Busy, AudioSend, NoCopy, TargetType, Targets
  <2> QED BY <1>b, <2>1, <2>2, <2>3, <2>4, <2>5 DEF OutInv, TypeOK
<1> QED BY <1>1, <1>2, <1>3, <1>4, <1>5, <1>6, <1>7, <1>8 DEF AudioStep

\* The recording thread's steps preserve the invariant.
LEMMA RecStepInv == OutInv /\ (RecLoad \/ RecSend) => OutInv'
<1> SUFFICES ASSUME OutInv, (RecLoad \/ RecSend) PROVE OutInv'
  OBVIOUS
<1>0. TypeOK /\ Threads /\ Reading /\ Serving /\ Belongs /\ Standard /\ Loaded
  BY DEF OutInv
<1> USE <1>0 DEF TypeOK, http, main, audio, rec, hist, sockets, notHttp, notMain, notAudio, notRec
<1>a. UNCHANGED <<file, gen, out, cfg, wpc, uri, old, rolling, conn, applies, mpc, mh, server,
                 ctl, side, dual, reinits, stopping, port_override, aud, rpc, target, cache,
                 racy, overlap, straddle, early, unsettled>>
  BY DEF RecLoad, RecSend
<1>b. TargetType' /\ Generation' /\ RequestType' /\ FlagType' /\ Reading' /\ Serving' /\ Belongs' /\ Standard'
  <2>1. TargetType'
    BY <1>a DEF TargetType
  <2>2. Generation'
    BY <1>a DEF Generation, Busy
  <2>3. RequestType'
    BY <1>a DEF RequestType, Busy
  <2>4. FlagType'
    BY <1>a DEF FlagType
  <2>5. Reading'
    BY <1>a DEF Reading, QuietCacheIsLive, InForce, Hit, Live, IsUdp, Busy
  <2>6. Serving'
    BY <1>a DEF Serving, Aim, Serves, Settled, Busy
  <2>7. Belongs'
    BY <1>a DEF Belongs, Held
  <2>8. Standard'
    BY <1>a DEF Standard
  <2> QED BY <2>1, <2>2, <2>3, <2>4, <2>5, <2>6, <2>7, <2>8
<1>1. CASE RecLoad
  <2>1. DescriptorType'
    BY <1>1 DEF DescriptorType, RecLoad, Handles
  <2>2. ControlType'
    BY <1>1 DEF ControlType, RecLoad
  <2>3. Threads'
    BY <1>1 DEF ControlType, Threads, Running, RecLoad
  <2>4. Loaded'
    BY <1>1 DEF ControlType, Threads, Loaded, Running, Busy, RecLoad, DescriptorType
  <2> QED BY <1>b, <2>1, <2>2, <2>3, <2>4 DEF OutInv, TypeOK
<1>2. CASE RecSend
  <2>1. DescriptorType'
    BY <1>2 DEF DescriptorType, RecSend, Handles
  <2>2. ControlType'
    BY <1>2 DEF ControlType, RecSend
  <2>3. Threads'
    BY <1>2 DEF ControlType, Threads, Running, RecSend
  <2>4. Loaded'
    BY <1>2 DEF ControlType, Threads, Loaded, Running, Busy, RecSend
  <2> QED BY <1>b, <2>1, <2>2, <2>3, <2>4 DEF OutInv, TypeOK
<1> QED BY <1>1, <1>2

\* The invariant holds initially and every step preserves it.
LEMMA InvHolds == Spec => []OutInv
<1>1. Init => OutInv
  <2> SUFFICES ASSUME Init PROVE OutInv
    OBVIOUS
  <2>1. DescriptorType
    BY OutputAssumption DEF Init, DescriptorType, Kinds, Handles, NoDual
  <2>2. TargetType
    BY DEF Init, TargetType, Targets, Handles, Addresses, Closed, Empty, NoCopy
  <2>3. Generation
    BY DEF Init, Generation, Busy, Even
  <2>4. RequestType
    <3>1. 0 \in 0 .. MaxApplies /\ 0 \in 0 .. MaxReinits
      BY OutputAssumption
    <3> QED BY <3>1, OutputAssumption DEF Init, RequestType, Busy
  <2>5. ControlType /\ FlagType
    BY DEF Init, ControlType, FlagType
  <2>6. Threads
    BY DEF Init, Threads, Running, NoDual
  <2>7. Reading
    BY DEF Init, Reading, QuietCacheIsLive, InForce, Empty
  <2>8. Serving
    BY DEF Init, Serving, Running
  <2>9. Belongs
    BY NoneIsNone DEF Init, Belongs, Closed, NoDual
  <2>10. Standard /\ Loaded
    BY OutputAssumption DEF Init, Standard, Loaded, Closed, NoDual, Busy
  <2> QED BY <2>1, <2>2, <2>3, <2>4, <2>5, <2>6, <2>7, <2>8, <2>9, <2>10 DEF OutInv,
     TypeOK
<1>2. OutInv /\ [Next]_vars => OutInv'
  <2> SUFFICES ASSUME OutInv, [Next]_vars PROVE OutInv'
    OBVIOUS
  <2>1. CASE HttpStep
    BY <2>1, HttpStepInv
  <2>2. CASE MainStep
    BY <2>2, MainStepInv
  <2>3. CASE AudioStep
    BY <2>3, AudioStepInv
  <2>4. CASE RecLoad \/ RecSend
    BY <2>4, RecStepInv
  <2>5. CASE UNCHANGED vars
    <3> USE <2>5 DEF vars, http, main, audio, rec, hist
    <3>1. DescriptorType' /\ TargetType'
      BY DEF OutInv, TypeOK, DescriptorType, TargetType
    <3>2. Generation' /\ RequestType'
      BY DEF OutInv, TypeOK, Generation, RequestType, Busy
    <3>3. ControlType' /\ FlagType'
      BY DEF OutInv, TypeOK, ControlType, FlagType
    <3>4. Threads' /\ Standard'
      BY DEF OutInv, Threads, Standard
    <3>5. Reading'
      BY DEF OutInv, Reading, QuietCacheIsLive, InForce, Hit, Live, IsUdp, Busy
    <3>6. Serving'
      BY DEF OutInv, Serving, Aim, Serves, Settled, Busy
    <3>7. Belongs' /\ Loaded'
      BY DEF OutInv, Belongs, Held, Loaded, Busy
    <3> QED BY <3>1, <3>2, <3>3, <3>4, <3>5, <3>6, <3>7 DEF OutInv, TypeOK
  <2> QED BY <2>1, <2>2, <2>3, <2>4, <2>5 DEF Next
<1> QED BY <1>1, <1>2, PTL DEF Spec

-------------------------------------------------------------------------------
(* Theorems.                                                               *)

\* Every variable of the output and of the threads that share it keeps its type,
\* for every set of servers and descriptors and any number of requests and
\* rebuilds; the generation is odd exactly while apply_server is at work.
THEOREM TypeCorrect == Spec => []TypeOK
<1>1. OutInv => TypeOK
  BY DEF OutInv
<1> QED BY <1>1, InvHolds, PTL

\* A target that resolve_cached_audio_target read while no server change went on
\* is the one it would read now, as long as its generation is in force: every
\* path through apply_server and every rebuild outdates what was cached before.
THEOREM CacheFollowsOutput == Spec => []QuietCacheIsLive
<1>1. OutInv => QuietCacheIsLive
  BY DEF OutInv, Reading
<1> QED BY <1>1, InvHolds, PTL

\* The running pipeline serves the configured server whenever no request is being
\* served, through any sequence of changes, failures, roll-backs and rebuilds,
\* unless the last change failed with its roll-back, or was refused after a
\* rebuild had taken its server from the configuration.
THEOREM ConfiguredIsServed == Spec => []ServesConfigured
<1>1. OutInv => ServesConfigured
  <2> SUFFICES ASSUME OutInv, mpc \in {"loop", "send"}, wpc = "idle", ~unsettled
               PROVE  Serves(cfg) /\ (straddle \/ out.handle = None \/ file[out.handle] = "net")
    BY DEF ServesConfigured
  <2>1. Serves(cfg)
    BY DEF OutInv, Serving, Settled, Busy, Aim, Running
  <2>2. out.handle # None => out.handle \in Fds
    BY DEF OutInv, TypeOK, TargetType, Handles
  <2>3. straddle \/ out.handle = None \/ file[out.handle] = "net"
    BY <2>2 DEF OutInv, Belongs, Held
  <2> QED BY <2>1, <2>3
<1> QED BY <1>1, InvHolds, PTL

\* However server changes, rebuilds, connections and the sends of three threads
\* interleave, a descriptor number is used, closed and left open by the place it
\* belongs to alone; SendsOwn, ClosesOwn and NothingLeaks name the windows in
\* which the code cannot promise it.
THEOREM DescriptorsOwned == Spec => []OwnDescriptors
<1>1. OutInv => SendsOwn
  <2> SUFFICES ASSUME OutInv, ~straddle PROVE SendsOwn
    BY DEF SendsOwn
  <2>1. mpc = "send" => file[mh] = "net" \/ "main" \in racy
    BY DEF OutInv, TypeOK, DescriptorType, Handles, Belongs, Held, Loaded, Busy
  <2>2. ASSUME rpc = "send", target.handle # None, "audio" \notin racy, ~overlap
        PROVE  file[target.handle] = IF port_override = 0 THEN "net" ELSE "audio"
    <3>1. Held /\ target.handle = Live.handle
      BY <2>2 DEF OutInv, Reading, Threads, Running, Held, Busy
    <3>2. target.handle \in Fds
      BY <2>2 DEF OutInv, TypeOK, TargetType, Targets, Handles
    <3> QED BY <3>1, <3>2 DEF OutInv, Belongs, Live
  <2>3. recpc = "send" => file[rh] = "dual" \/ mpc = "join_rec"
    <3> SUFFICES ASSUME recpc = "send", mpc # "join_rec" PROVE file[rh] = "dual"
      OBVIOUS
    <3>1. rh = dual.handle /\ rh # None /\ dual.dst_len = "udp"
      BY DEF OutInv, Loaded
    <3>2. rh \in Fds
      BY <3>1 DEF OutInv, Loaded, TypeOK, DescriptorType, Handles
    <3> QED BY <3>1, <3>2 DEF OutInv, Belongs
  <2> QED BY <2>1, <2>2, <2>3 DEF SendsOwn
<1>2. OutInv => ClosesOwn
  <2> SUFFICES ASSUME OutInv, ~straddle PROVE ClosesOwn
    BY DEF ClosesOwn
  <2>1. ASSUME out.handle # None, mpc = "close" \/ wpc \in {"close", "unfilled"}
        PROVE  file[out.handle] = "net"
    <3>1. Held
      BY <2>1 DEF OutInv, Held, Loaded, Busy, Running
    <3>2. out.handle \in Fds
      BY <2>1 DEF OutInv, TypeOK, TargetType, Handles
    <3> QED BY <3>1, <3>2 DEF OutInv, Belongs
  <2>2. ASSUME dual.handle # None
        PROVE  file[dual.handle] = "dual" \/ (dual.handle = 0 /\ dual.dst_len = "none")
    <3>1. dual.handle \in Fds /\ dual.dst_len \in {"udp", "none"}
      BY <2>2 DEF OutInv, TypeOK, DescriptorType, Handles
    <3> QED BY <2>2, <3>1 DEF OutInv, Belongs, Standard
  <2>3. aud # None => file[aud] = "audio"
    BY DEF OutInv, TypeOK, DescriptorType, Handles, Belongs
  <2>4. side # None => file[side] = "side"
    BY DEF OutInv, TypeOK, DescriptorType, Handles, Belongs
  <2> QED BY <2>1, <2>2, <2>3, <2>4 DEF ClosesOwn
<1>3. OutInv => NothingLeaks
  BY DEF OutInv, Belongs, NothingLeaks
<1>4. OutInv => OwnDescriptors
  BY <1>1, <1>2, <1>3 DEF OwnDescriptors
<1> QED BY <1>4, InvHolds, PTL
===============================================================================

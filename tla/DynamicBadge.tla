---------------------------- MODULE DynamicBadge -----------------------------
(* contracts/DynamicBadge.sol: badges with a type, minted one by one or in a
   batch, and the counts by owner and type that hasBadgeType answers from.
   _safeMint calls a recipient that is a contract in the middle of the mint; it
   may move its badges, mint itself if it is a minter, or refuse, which reverts
   the whole transaction.  ERC721 is external; metadata and logs are left out. *)
EXTENDS Integers, FiniteSets, Sequences

CONSTANTS Holders,     \* addresses that can own a badge
          Callees,     \* those among them that are contracts
          Minters,     \* those the owner may authorize
          BadgeTypes, MaxTokens, MaxDepth   \* bounds: badges, mints inside one another

VARIABLES authorizedMinters, nextTokenId, badgeTypes, ownerOf, ownerBadgeCounts,
          frames,      \* the mints that are running, the innermost last
          undo         \* what a revert of the transaction goes back to

badgeVars == <<authorizedMinters, nextTokenId, badgeTypes, ownerOf, ownerBadgeCounts, frames, undo>>
chain == <<nextTokenId, badgeTypes, ownerOf, ownerBadgeCounts>>

Zero == "zero"
NoType == "none"     \* the empty string
TokenIds == 0..(MaxTokens - 1)
Orders == Holders \X BadgeTypes
Batches == {<<o>> : o \in Orders} \cup (Orders \X Orders)
noUndo == <<>>

Init ==
  /\ authorizedMinters = {} /\ nextTokenId = 0
  /\ badgeTypes = [t \in TokenIds |-> NoType] /\ ownerOf = [t \in TokenIds |-> Zero]
  /\ ownerBadgeCounts = [h \in Holders |-> [b \in BadgeTypes |-> 0]]
  /\ frames = <<>> /\ undo = noUndo

authorizeMinter(m) ==
  /\ frames = <<>> /\ authorizedMinters' = authorizedMinters \cup {m}
  /\ UNCHANGED <<chain, frames, undo>>

revokeMinter(m) ==
  /\ frames = <<>> /\ authorizedMinters' = authorizedMinters \ {m}
  /\ UNCHANGED <<chain, frames, undo>>

top == frames[Len(frames)]
setTop(f) == frames' = [frames EXCEPT ![Len(frames)] = f]
inCallbackOf(h) == frames # <<>> /\ top.callee = h

(* mint and batchMint are called in a transaction of their own or by a minter
   whose own badge is being delivered. *)
mintCalled(batch) ==
  /\ frames = <<>> \/ (inCallbackOf(top.callee) /\ top.callee \in authorizedMinters)
  /\ Len(frames) < MaxDepth
  /\ nextTokenId + Len(batch) <= MaxTokens
  /\ frames' = Append(frames, [todo |-> batch, callee |-> Zero])
  /\ undo' = IF frames = <<>> THEN chain ELSE undo
  /\ UNCHANGED <<authorizedMinters, chain>>

countsAfter(from, to, type) ==
  [h \in Holders |-> [b \in BadgeTypes |->
     ownerBadgeCounts[h][b] - (IF h = from /\ b = type THEN 1 ELSE 0)
                            + (IF h = to /\ b = type THEN 1 ELSE 0)]]

\* Mutant: the type is written after the mint.
UpdateBeforeType(to, token, types) ==
  /\ ownerOf' = [ownerOf EXCEPT ![token] = to]
  /\ ownerBadgeCounts' = IF badgeTypes[token] = NoType THEN ownerBadgeCounts
                         ELSE countsAfter(ownerOf[token], to, badgeTypes[token])

(* _update reads the type of the badge that moves. *)
update(to, token, types) ==
  /\ ownerOf' = [ownerOf EXCEPT ![token] = to]
  /\ ownerBadgeCounts' = IF types[token] = NoType THEN ownerBadgeCounts
                         ELSE countsAfter(ownerOf[token], to, types[token])

typesAtMint(token, type) == [badgeTypes EXCEPT ![token] = type]

(* One round of the loop, up to the recipient's callback. *)
mintOne ==
  /\ frames # <<>> /\ top.callee = Zero /\ top.todo # <<>> /\ nextTokenId < MaxTokens
  /\ LET to == Head(top.todo)[1] IN
     /\ nextTokenId' = nextTokenId + 1
     /\ badgeTypes' = typesAtMint(nextTokenId, Head(top.todo)[2])
     /\ update(to, nextTokenId, badgeTypes')
     /\ setTop([todo |-> Tail(top.todo), callee |-> IF to \in Callees THEN to ELSE Zero])
  /\ UNCHANGED <<authorizedMinters, undo>>

callbackAccepts ==
  /\ frames # <<>> /\ top.callee # Zero
  /\ setTop([top EXCEPT !.callee = Zero])
  /\ UNCHANGED <<authorizedMinters, chain, undo>>

callbackRefuses ==
  /\ frames # <<>> /\ top.callee # Zero
  /\ nextTokenId' = undo[1] /\ badgeTypes' = undo[2] /\ ownerOf' = undo[3]
  /\ ownerBadgeCounts' = undo[4] /\ frames' = <<>> /\ undo' = noUndo
  /\ UNCHANGED authorizedMinters

mintReturns ==
  /\ frames # <<>> /\ top.callee = Zero /\ top.todo = <<>>
  /\ frames' = SubSeq(frames, 1, Len(frames) - 1)
  /\ undo' = IF Len(frames) = 1 THEN noUndo ELSE undo
  /\ UNCHANGED <<authorizedMinters, chain>>

(* transferFrom, by the owner of the badge: in a transaction of its own or in
   the middle of a mint, from the callback. *)
transfer(token, to) ==
  /\ ownerOf[token] # Zero
  /\ frames = <<>> \/ inCallbackOf(ownerOf[token])
  /\ update(to, token, badgeTypes)
  /\ UNCHANGED <<authorizedMinters, nextTokenId, badgeTypes, frames, undo>>

Next ==
  \/ \E m \in Minters : authorizeMinter(m) \/ revokeMinter(m)
  \/ \E batch \in Batches : mintCalled(batch)
  \/ mintOne \/ callbackAccepts \/ callbackRefuses \/ mintReturns
  \/ \E token \in TokenIds, to \in Holders : transfer(token, to)

Spec == Init /\ [][Next]_badgeVars

TypeOK ==
  /\ authorizedMinters \subseteq Minters /\ nextTokenId \in 0..MaxTokens
  /\ badgeTypes \in [TokenIds -> BadgeTypes \cup {NoType}] /\ ownerOf \in [TokenIds -> Holders \cup {Zero}]
  /\ ownerBadgeCounts \in [Holders -> [BadgeTypes -> Int]]
  /\ frames \in Seq([todo : Seq(Orders), callee : Holders \cup {Zero}]) /\ Len(frames) <= MaxDepth

(* At every instant, in the middle of a mint and after a revert included, the
   counts hasBadgeType answers from are those of the badges owned: a recipient
   that asks from its callback, or moves the badge there, finds them right
   (DynamicBadge.sol:86, 126). *)
CountsAreOwnership ==
  \A h \in Holders, b \in BadgeTypes :
    ownerBadgeCounts[h][b] = Cardinality({t \in TokenIds : ownerOf[t] = h /\ badgeTypes[t] = b})
=============================================================================

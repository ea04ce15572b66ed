--------------------------- MODULE MCBlockManager ---------------------------
EXTENDS BlockManager, TLC

\* A record of one byte and one of three; the last does not fit a block of five
\* or six bytes with its RDF of one.
MCPlainRec == {<<1>>, <<2, 2, 2>>, <<3, 3, 3, 3, 3, 3>>}

\* Two bytes of gzip: what the record of three is compressed to, and what a
\* client has compressed the record to that is too big.
MCGunzip   == (<<9, 2>> :> <<2, 2, 2>>) @@ (<<9, 3>> :> <<3, 3, 3, 3, 3, 3>>)
MCRec      == MCPlainRec \cup {<<9, 3>>}
MCPackings == {<<>>, <<2, 2, 2>> :> <<9, 2>>}

\* Nothing is gzip.
NoGunzip   == <<>>
NoPackings == {<<>>}

\* What X has on disk is overwritten unread when the blocks that wait in memory
\* are relocated, or dirty.
Overwritten(i) == queued /\ (relocate \/ (i \in DOMAIN blocks /\ blocks[i].dirty))

\* The state without the history variable op, which no action and no invariant
\* reads, and without what the next flush overwrites.
MCView == <<blocks, blockIndex, limit, packing, queued, relocate,
            IF queued /\ relocate THEN <<>>
            ELSE [i \in DOMAIN disk |-> IF Overwritten(i) THEN <<>> ELSE disk[i]]>>
=============================================================================

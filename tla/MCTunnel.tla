------------------------------ MODULE MCTunnel ------------------------------
EXTENDS Tunnel, RecordCodec

CONSTANT v1

MCBytes == [up |-> 1, down |-> 1]
MCNets  == {[family |-> "v4", value |-> 2, prefix |-> 1]}

\* Every pair of lists of up to two networks.
Lists == {{}} \cup {{a, b} : a, b \in Net}
ASSUME AllowListsNarrow == \A client, ceiling \in Lists : NarrowsBoth(client, ceiling)

\* Up to three chunks of one or two bytes, and each way a writer can end.
Chunks == {<<>>, <<0>>, <<2>>, <<1, 2>>}
Lasts  == {<<>>, <<FINISH>>, ResetRecord(<<0, 1, 0, 2>>)}
Written == {SelectSeq(c, LAMBDA s : s # <<>>) : c \in Chunks \X Chunks \X Chunks}
ASSUME RecordsRead == \A c \in Written, l \in Lasts : PrefixReadsRight(c, l)
=============================================================================

--------------------------- MODULE MCChannelStatus ---------------------------
EXTENDS ChannelStatus, TLC

\* Nothing distinguishes two goroutines of a kind or two channels.
Symmetric == Permutations(Workers) \cup Permutations(Testers) \cup Permutations(Channels)
=============================================================================

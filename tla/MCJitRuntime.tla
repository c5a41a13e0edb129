---------------------------- MODULE MCJitRuntime ----------------------------
EXTENDS JitRuntime

\* Stores bring code that Tier-1 cannot compile and take it away again: RIP r
\* cannot be compiled while its page has contents r.
ByContents(rip, code) == code[PageOf(rip)] # rip
=============================================================================

----------------------------- MODULE Deployment -----------------------------
(***************************************************************************)
(* The settings of the process that the status of a channel and the way of *)
(* a request both depend on.                                               *)
(***************************************************************************)
EXTENDS Gateway

CONSTANTS
  CacheModes,    \* values of MemoryCacheEnabled
  AutoDisable    \* AutomaticDisableChannelEnabled

VARIABLE
  memoryCache    \* MemoryCacheEnabled, set at the start

=============================================================================

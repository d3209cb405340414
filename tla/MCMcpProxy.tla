----------------------------- MODULE MCMcpProxy -----------------------------
EXTENDS McpProxyProperties, TLC

\* Proxies, and params, differ only in their names.
ProxySymmetry == Permutations(Proxies) \cup Permutations(Params)

=============================================================================

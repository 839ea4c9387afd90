-------------------------- MODULE MCLoginThrottle --------------------------
(* One client behind two proxies, two names, two logins at a time.          *)
EXTENDS LoginThrottle

CONSTANTS proxy1, proxy2
MCProxies == <<proxy1, proxy2>>
=============================================================================

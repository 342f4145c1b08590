------------------------------ MODULE MCServer ------------------------------
\* Model values for Server: an administrator and a user, two browsers, and
\* command lines with and without OIDC and SMTP.
EXTENDS Server, TLC

CONSTANTS ann, bob, b1, b2

MCSymmetry == Permutations(Browsers)

MCCommandLines ==
    {[command |-> "serve", flags |-> OidcFlags \cup SmtpFlags, smtp_tls |-> "other"],
     [command |-> "serve", flags |-> {"issuer_url", "client_id"} \cup SmtpFlags, smtp_tls |-> "tls"],
     [command |-> "serve", flags |-> {"smtp_host"}, smtp_tls |-> "none"],
     [command |-> "migrate", flags |-> {}, smtp_tls |-> "starttls"],
     [command |-> "create_admin", flags |-> {}, smtp_tls |-> "starttls"]}
=============================================================================

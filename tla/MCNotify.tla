------------------------------- MODULE MCNotify -------------------------------
EXTENDS Notify

\* Both channels live; a text without an address for the email; a host without
\* Twilio; a parent without a phone and a host without SMTP.
MCSetups == {[email |-> "live", sms |-> "live"], [email |-> "absent", sms |-> "live"],
             [email |-> "live", sms |-> "local"], [email |-> "local", sms |-> "absent"]}
=============================================================================

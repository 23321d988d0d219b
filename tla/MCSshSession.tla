---------------------------- MODULE MCSshSession ----------------------------
EXTENDS SshSession

\* A command or an upload in the transport thread, next to a shell or SFTP, which
\* have threads of their own.
HandlerAndThread == <<{"exec", "scp"}, {"shell", "sftp"}>>
=============================================================================
